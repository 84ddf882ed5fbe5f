------------------------------ MODULE D1Store -------------------------------
(***************************************************************************)
(* The Cloudflare D1 backend of the keyspace (internal/store/d1store). The *)
(* two tables are those of SqlStore, but there is no transaction: a call   *)
(* is a chain of SQL statements, each an HTTP request of its own, and any  *)
(* other caller may run between two of them. SET and INCR protect the row  *)
(* they read by its version; INSERT protects by the primary key; the other *)
(* writers do not protect anything.                                        *)
(*                                                                         *)
(* A statement may be executed and its answer lost. The client library     *)
(* then sends it again, or the call ends with an error.                    *)
(***************************************************************************)
EXTENDS Naturals, FiniteSets

CONSTANTS
    Keys,           \* a logical database and a key name each
    Members,        \* members of sorted sets
    Values,         \* what SET writes: numbers
    SetOpts,        \* options of SET: [nx, xx, keep : BOOLEAN, ttl : Nat]
    TTLs,           \* TTLs of EXPIRE
    Procs,          \* concurrent calls
    CleanupLimit,   \* LIMIT of a cleanup pass
    MaxTime,        \* bound on the clock
    MaxVersion,     \* bound on the version column
    MaxCount        \* bound on counters

ASSUME D1Assumption ==
    /\ Values \subseteq Nat
    /\ SetOpts \subseteq [nx : BOOLEAN, xx : BOOLEAN, keep : BOOLEAN, ttl : Nat]
    /\ TTLs \subseteq Nat
    /\ CleanupLimit \in Nat
    /\ MaxTime \in Nat /\ MaxVersion \in Nat /\ MaxCount \in Nat

VARIABLES
    rows,       \* redge_keys
    members,    \* redge_zset_members: the members of each key
    now,        \* time.Now()
    call,       \* the call each process is in
    volatile,   \* history: keys that have had an expiry time
    disturbed,  \* history: keys whose version was written without its guard
    issued,     \* history: the numbers INCR returned since the last SET, of the others
    repeated,   \* history: the keys for which INCR returned a number again
    locks,      \* history: the SET NX that succeeded since the row appeared
    raced       \* history: keys with a ZADD and a removal at the same time

vars == <<rows, members, now, call, volatile, disturbed, issued, repeated, locks, raced>>

-----------------------------------------------------------------------------
(* Rows and calls *)

Null == 0                                   \* expires_at IS NULL
NoRow == [typ |-> "none", val |-> 0, exp |-> Null, ver |-> 0]
Present(row) == row.typ # "none"
ExpiredNullToo(row) == row.exp <= now       \* mutant: no NULL test
Expired(row) == row.exp # Null /\ row.exp <= now

NoOpts == [nx |-> FALSE, xx |-> FALSE, keep |-> FALSE, ttl |-> 0]
Idle == [op |-> "none", at |-> "idle", key |-> "none", row |-> NoRow,
         exp |-> Null, arg |-> 0, opts |-> NoOpts, todo |-> {}]

(* Every read is one operation: they differ in what they return. ZPOPMIN   *)
(* and ZPOPMAX are reads too: their SELECT names a column "member" that    *)
(* the table does not have, so they fail before they delete anything.      *)
Ops == {"read", "set", "incr", "expire", "persist", "zadd", "zrem", "zremrange",
        "getdel", "del"}

Found(c) == Present(c.row)

(* Whether the call goes on after getLiveRow; otherwise it returns. *)
Proceeds(c) ==
    \/ c.op = "set" /\ ~Found(c) /\ ~c.opts.xx
    \/ c.op = "set" /\ c.row.typ = "string" /\ ~c.opts.nx
    \/ c.op = "incr" /\ c.row.typ # "zset"
    \/ c.op = "zadd" /\ c.row.typ # "string"
    \/ c.op \in {"zrem", "zremrange"} /\ c.row.typ = "zset"
    \/ c.op = "getdel" /\ c.row.typ = "string"
    \/ c.op = "expire" /\ Found(c)
    \/ c.op = "persist" /\ c.row.exp # Null

(* The expiry time that SET or EXPIRE will write, fixed before its         *)
(* statement is sent.                                                      *)
Deadline(c) ==
    IF c.op = "expire" THEN now + c.arg
    ELSE IF c.opts.ttl > 0 THEN now + c.opts.ttl
    ELSE IF c.opts.keep THEN c.row.exp ELSE Null

LookedUp(c) ==
    IF Proceeds(c)
    THEN [c EXCEPT !.at = IF c.op = "getdel" THEN "members" ELSE "write", !.exp = Deadline(c)]
    ELSE Idle

(* The rest of the loop of Delete or of a cleanup pass. *)
NextKey(c) ==
    IF c.todo = {} THEN {Idle}
    ELSE {[c EXCEPT !.at = "members", !.key = k, !.todo = @ \ {k}] : k \in c.todo}

(* A statement was executed: its answer arrives and the call goes on with  *)
(* next, or it is lost, and the statement is sent again or the call fails. *)
Answer(p, ack, next) ==
    call' \in IF ack THEN {[call EXCEPT ![p] = c] : c \in next}
                     ELSE {call, [call EXCEPT ![p] = Idle]}

(* Every change of a row; the history variable follows it. *)
Save(k, row) ==
    /\ rows' = [rows EXCEPT ![k] = row]
    /\ volatile' = IF row.exp # Null THEN volatile \cup {k} ELSE volatile

(* The version moved in a way a guard cannot see: nothing is claimed of    *)
(* the numbers of this key any more.                                       *)
Disturb(k) ==
    IF Present(rows[k])
    THEN disturbed' = disturbed \cup {k} /\ issued' = [issued EXCEPT ![k] = {}]
    ELSE UNCHANGED <<disturbed, issued>>

(* A ZADD past its SELECT, and a removal between its two DELETEs. *)
Adding(k) == \E q \in Procs :
    call[q].op = "zadd" /\ call[q].key = k /\ call[q].at # "select"
Removing(k) == \E q \in Procs : call[q].key = k /\ call[q].at \in {"key", "lazykey"}

-----------------------------------------------------------------------------
(* Calls *)

(* MSET is one SET after the other; DEL goes on with the keys in todo. *)
Begin(p, op, k, arg, opts, todo) ==
    /\ call[p] = Idle
    /\ call' = [call EXCEPT ![p] =
                  [op |-> op, at |-> IF op = "del" THEN "members" ELSE "select", key |-> k,
                   row |-> NoRow, exp |-> Null, arg |-> arg, opts |-> opts, todo |-> todo]]
    /\ UNCHANGED <<rows, members, now, volatile, disturbed, issued, repeated, locks, raced>>

(* getLiveRow: the SELECT, then the comparison with the clock. *)
Select(p) ==
    /\ call[p].at = "select"
    /\ call' = [call EXCEPT ![p].at = "judge", ![p].row = rows[call[p].key]]
    /\ UNCHANGED <<rows, members, now, volatile, disturbed, issued, repeated, locks, raced>>

Judge(p) ==
    /\ call[p].at = "judge"
    /\ call' = [call EXCEPT ![p] =
                  IF Expired(call[p].row) THEN [@ EXCEPT !.at = "lazymembers", !.row = NoRow]
                                          ELSE LookedUp(@)]
    /\ UNCHANGED <<rows, members, now, volatile, disturbed, issued, repeated, locks, raced>>

(* Mutant of DropMembers: the members are left. *)
DropMembersSkips(p, ack) ==
    LET c == call[p]
    IN  /\ c.at \in {"members", "lazymembers"}
        /\ Answer(p, ack, {[c EXCEPT !.at = IF @ = "members" THEN "key" ELSE "lazykey"]})
        /\ UNCHANGED <<rows, members, now, volatile, disturbed, issued, repeated, locks, raced>>

(* Delete: of DEL, of GETDEL, of a cleanup pass, and of a lookup that      *)
(* found an expired row, which then goes on as if there was none.          *)
DropMembers(p, ack) ==
    LET c == call[p]
    IN  /\ c.at \in {"members", "lazymembers"}
        /\ members' = [members EXCEPT ![c.key] = {}]
        /\ Answer(p, ack, {[c EXCEPT !.at = IF @ = "members" THEN "key" ELSE "lazykey"]})
        /\ UNCHANGED <<rows, now, volatile, disturbed, issued, repeated, locks, raced>>

DropKey(p, ack) ==
    LET c == call[p]
        k == c.key
    IN  /\ c.at \in {"key", "lazykey"}
        /\ Save(k, NoRow)
        /\ Disturb(k)
        /\ locks' = [locks EXCEPT ![k] = 0]
        /\ raced' = IF Adding(k) THEN raced \cup {k} ELSE raced
        /\ Answer(p, ack, IF c.at = "key" THEN NextKey(c) ELSE {LookedUp(c)})
        /\ UNCHANGED <<members, now, repeated>>

(* The lookup ignores an error of its Delete. *)
LazyFails(p) ==
    /\ call[p].at \in {"lazymembers", "lazykey"}
    /\ call' = [call EXCEPT ![p] = LookedUp(@)]
    /\ UNCHANGED <<rows, members, now, volatile, disturbed, issued, repeated, locks, raced>>

(* A statement fails without effect, an UPDATE finds another version or an *)
(* INSERT a row, the caller gives up, or the process dies.                 *)
Fail(p) ==
    /\ call[p] # Idle
    /\ call' = [call EXCEPT ![p] = Idle]
    /\ UNCHANGED <<rows, members, now, volatile, disturbed, issued, repeated, locks, raced>>

(* SELECT of CleanupExpired, and the first key. *)
CleanupSelect(p) ==
    /\ call[p] = Idle
    /\ \E dead \in SUBSET {k \in Keys : Present(rows[k]) /\ Expired(rows[k])} :
          /\ dead # {} /\ Cardinality(dead) <= CleanupLimit
          /\ \E c \in NextKey([Idle EXCEPT !.op = "cleanup", !.todo = dead]) :
                call' = [call EXCEPT ![p] = c]
    /\ UNCHANGED <<rows, members, now, volatile, disturbed, issued, repeated, locks, raced>>

-----------------------------------------------------------------------------
(* The statements that write *)

Writing(p, op) == call[p].op = op /\ call[p].at = "write" /\ call[p].row.ver < MaxVersion

(* WHERE db = ? AND key = ? AND version = ? *)
GuardedNot(c) == Present(rows[c.key])       \* mutant: the version is not compared
Guarded(c) == Present(rows[c.key]) /\ rows[c.key].ver = c.row.ver

Written(c) == [typ |-> "string", val |-> c.arg, exp |-> c.exp, ver |-> c.row.ver + 1]

(* What every SET that changes the row does. *)
SetRow(c) ==
    /\ Save(c.key, Written(c))
    /\ raced' = IF rows[c.key].typ = "zset" THEN raced \cup {c.key} ELSE raced

(* SET NX: INSERT OR IGNORE. Mutant: an upsert. *)
SetInsertReplacing(p, ack) ==
    LET c == call[p]
    IN  /\ Writing(p, "set") /\ ~Found(c) /\ c.opts.nx
        /\ SetRow(c)
        /\ issued' = [issued EXCEPT ![c.key] = {}]
        /\ locks' = IF ack THEN [locks EXCEPT ![c.key] = @ + 1] ELSE locks
        /\ Answer(p, ack, {Idle})
        /\ UNCHANGED <<members, now, disturbed, repeated>>

SetInsert(p, ack) ==
    LET c == call[p]
    IN  /\ Writing(p, "set") /\ ~Found(c) /\ c.opts.nx
        /\ ~Present(rows[c.key])
        /\ SetRow(c)
        /\ issued' = [issued EXCEPT ![c.key] = {}]
        /\ locks' = IF ack THEN [locks EXCEPT ![c.key] = @ + 1] ELSE locks
        /\ Answer(p, ack, {Idle})
        /\ UNCHANGED <<members, now, disturbed, repeated>>

(* SET of a row that was found: an UPDATE that compares the version. *)
SetUpdate(p, ack) ==
    LET c == call[p]
    IN  /\ Writing(p, "set") /\ Found(c)
        /\ Guarded(c)
        /\ SetRow(c)
        /\ issued' = [issued EXCEPT ![c.key] = {}]
        /\ Answer(p, ack, {Idle})
        /\ UNCHANGED <<members, now, disturbed, repeated, locks>>

(* SET of a row that was not: an upsert, which replaces one that came since. *)
SetUpsert(p, ack) ==
    LET c == call[p]
    IN  /\ Writing(p, "set") /\ ~Found(c) /\ ~c.opts.nx
        /\ SetRow(c)
        /\ Disturb(c.key)
        /\ Answer(p, ack, {Idle})
        /\ UNCHANGED <<members, now, repeated, locks>>

(* INCR returns the number it wrote. *)
Issue(k, n, ack) ==
    IF ack /\ k \notin disturbed
    THEN /\ issued' = [issued EXCEPT ![k] = @ \cup {n}]
         /\ repeated' = IF n \in issued[k] THEN repeated \cup {k} ELSE repeated
    ELSE UNCHANGED <<issued, repeated>>

IncrUpdate(p, ack) ==
    LET c == call[p]
        n == c.row.val + 1
    IN  /\ Writing(p, "incr") /\ Found(c) /\ n <= MaxCount
        /\ Guarded(c)
        /\ Save(c.key, [rows[c.key] EXCEPT !.val = n, !.ver = c.row.ver + 1])
        /\ Issue(c.key, n, ack)
        /\ Answer(p, ack, {Idle})
        /\ UNCHANGED <<members, now, disturbed, locks, raced>>

IncrInsert(p, ack) ==
    LET c == call[p]
    IN  /\ Writing(p, "incr") /\ ~Found(c)
        /\ ~Present(rows[c.key])
        /\ Save(c.key, [typ |-> "string", val |-> 1, exp |-> Null, ver |-> 1])
        /\ Issue(c.key, 1, ack)
        /\ Answer(p, ack, {Idle})
        /\ UNCHANGED <<members, now, disturbed, locks, raced>>

(* UPDATE ... SET version = ? WHERE db = ? AND key = ?, with or without    *)
(* another column; it may meet no row.                                     *)
Overwrite(c, row) ==
    /\ IF Present(rows[c.key]) THEN Save(c.key, row) ELSE UNCHANGED <<rows, volatile>>
    /\ Disturb(c.key)
    /\ UNCHANGED <<now, repeated, locks>>

Bumped(c) == [rows[c.key] EXCEPT !.ver = c.row.ver + 1]

ExpireWrite(p, ack) ==
    LET c == call[p]
    IN  /\ Writing(p, "expire")
        /\ Overwrite(c, [Bumped(c) EXCEPT !.exp = c.exp])
        /\ Answer(p, ack, {Idle})
        /\ UNCHANGED <<members, raced>>

PersistWrite(p, ack) ==
    LET c == call[p]
    IN  /\ Writing(p, "persist")
        /\ Overwrite(c, [Bumped(c) EXCEPT !.exp = Null])
        /\ Answer(p, ack, {Idle})
        /\ UNCHANGED <<members, raced>>

(* ZADD and ZINCRBY: first the key, then the member. *)
ZAddInsert(p, ack) ==
    LET c == call[p]
    IN  /\ Writing(p, "zadd") /\ ~Found(c)
        /\ ~Present(rows[c.key])
        /\ Save(c.key, [typ |-> "zset", val |-> 0, exp |-> Null, ver |-> 1])
        /\ Answer(p, ack, {[c EXCEPT !.at = "member"]})
        /\ UNCHANGED <<members, now, disturbed, issued, repeated, locks, raced>>

ZAddUpdate(p, ack) ==
    LET c == call[p]
    IN  /\ Writing(p, "zadd") /\ Found(c)
        /\ Overwrite(c, Bumped(c))
        /\ Answer(p, ack, {[c EXCEPT !.at = "member"]})
        /\ UNCHANGED <<members, raced>>

(* Mutant of ZAddMember: the key is bound to the member's column. *)
ZAddMemberKey(p, ack) ==
    LET c == call[p]
    IN  /\ c.at = "member"
        /\ members' = [members EXCEPT ![c.key] = @ \cup {c.key}]
        /\ Answer(p, ack, {Idle})
        /\ UNCHANGED <<rows, now, volatile, disturbed, issued, repeated, locks, raced>>

ZAddMember(p, ack) ==
    LET c == call[p]
    IN  /\ c.at = "member"
        /\ members' = [members EXCEPT ![c.key] = @ \cup {c.arg}]
        /\ raced' = IF Removing(c.key) THEN raced \cup {c.key} ELSE raced
        /\ Answer(p, ack, {Idle})
        /\ UNCHANGED <<rows, now, volatile, disturbed, issued, repeated, locks>>

(* ZREM deletes one member after the other, ZREMRANGEBYSCORE any of them   *)
(* with one statement; then, if there was one to delete (arg), the version *)
(* follows. An error of the last is ignored.                               *)
ZRemMembers(p, ack) ==
    LET c == call[p]
    IN  /\ c.op \in {"zrem", "zremrange"} /\ Writing(p, c.op)
        /\ \E gone \in SUBSET members[c.key] :
              LET d == [c EXCEPT !.arg = IF gone = {} THEN @ ELSE 1]
                  end == IF d.arg = 0 THEN Idle ELSE [d EXCEPT !.at = "bump"]
              IN  /\ c.op = "zrem" => Cardinality(gone) <= 1
                  /\ members' = [members EXCEPT ![c.key] = @ \ gone]
                  /\ Answer(p, ack, IF c.op = "zrem" THEN {d, end} ELSE {end})
        /\ UNCHANGED <<rows, now, volatile, disturbed, issued, repeated, locks, raced>>

ZRemBump(p, ack) ==
    LET c == call[p]
    IN  /\ c.at = "bump"
        /\ Overwrite(c, Bumped(c))
        /\ Answer(p, ack, {Idle})
        /\ UNCHANGED <<members, raced>>

Tick ==
    /\ now < MaxTime
    /\ now' = now + 1
    /\ UNCHANGED <<rows, members, call, volatile, disturbed, issued, repeated, locks, raced>>

-----------------------------------------------------------------------------
Init ==
    /\ rows = [k \in Keys |-> NoRow]
    /\ members = [k \in Keys |-> {}]
    /\ now = 1
    /\ call = [p \in Procs |-> Idle]
    /\ volatile = {} /\ disturbed = {} /\ repeated = {} /\ raced = {}
    /\ issued = [k \in Keys |-> {}]
    /\ locks = [k \in Keys |-> 0]

Start(p) ==
    \E k \in Keys :
        \/ \E op \in {"read", "incr", "persist", "zrem", "zremrange", "getdel"} :
              Begin(p, op, k, 0, NoOpts, {})
        \/ \E v \in Values, opts \in SetOpts : Begin(p, "set", k, v, opts, {})
        \/ \E ttl \in TTLs : Begin(p, "expire", k, ttl, NoOpts, {})
        \/ \E m \in Members : Begin(p, "zadd", k, m, NoOpts, {})
        \/ \E others \in SUBSET (Keys \ {k}) : Begin(p, "del", k, 0, NoOpts, others)

Statement(p, ack) ==
    \/ DropMembers(p, ack) \/ DropKey(p, ack)
    \/ SetInsert(p, ack) \/ SetUpdate(p, ack) \/ SetUpsert(p, ack)
    \/ IncrUpdate(p, ack) \/ IncrInsert(p, ack)
    \/ ExpireWrite(p, ack) \/ PersistWrite(p, ack)
    \/ ZAddInsert(p, ack) \/ ZAddUpdate(p, ack) \/ ZAddMember(p, ack)
    \/ ZRemMembers(p, ack) \/ ZRemBump(p, ack)

Next ==
    \/ Tick
    \/ \E p \in Procs :
          \/ Start(p) \/ CleanupSelect(p) \/ Fail(p)
          \/ Select(p) \/ Judge(p) \/ LazyFails(p)
          \/ \E ack \in BOOLEAN : Statement(p, ack)

Spec == Init /\ [][Next]_vars

-----------------------------------------------------------------------------
(* Properties *)

Row == [typ : {"none", "string", "zset"}, val : Nat, exp : Nat, ver : Nat]
Stages == {"idle", "select", "judge", "lazymembers", "lazykey", "members", "key",
           "write", "member", "bump"}
Options == [nx : BOOLEAN, xx : BOOLEAN, keep : BOOLEAN, ttl : Nat]
Call == [op : Ops \cup {"cleanup", "none"}, at : Stages, key : Keys \cup {"none"}, row : Row,
         exp : Nat, arg : Members \cup Nat, opts : Options, todo : SUBSET Keys]

TypeOK ==
    /\ rows \in [Keys -> Row]
    /\ members \in [Keys -> SUBSET Members]
    /\ now \in Nat
    /\ call \in [Procs -> Call]
    /\ volatile \subseteq Keys /\ disturbed \subseteq Keys
    /\ repeated \subseteq Keys /\ raced \subseteq Keys
    /\ issued \in [Keys -> SUBSET Nat]
    /\ locks \in [Keys -> Nat]

(* INCR does not return a number twice, however many callers it has and    *)
(* however often an executed statement is sent again or reported as        *)
(* failed, as long as nothing but INCR and SET on the version it read      *)
(* wrote the row (Store.IncrBy, Store.Set: WHERE ... AND version = ?).     *)
UniqueNumbers == repeated = {}

(* Of the SET NX on a key only one succeeds until its row is removed, and  *)
(* while it counts the row is there (Store.Set: INSERT OR IGNORE).         *)
LockOnce ==
    \A k \in Keys : locks[k] <= 1 /\ (locks[k] = 1 => Present(rows[k]))

(* The key is written before its members and deleted after them: a call    *)
(* that stops half way leaves no member without its key. Only a ZADD and a *)
(* removal that overlap can, or a SET that replaces a sorted set           *)
(* (Store.ZAdd, Store.Delete, Store.Set).                                  *)
OrphansOnlyFromRaces ==
    \A k \in Keys \ raced : members[k] # {} => rows[k].typ = "zset"

(* The row of a key that never had an expiry time is removed by a DEL or   *)
(* GETDEL of that key only: no lookup and no cleanup pass, however old     *)
(* what it read is, takes it (getLiveRow, CleanupExpired).                 *)
OnlyAskedRemovals ==
    [][\A k \in Keys \ volatile :
          Present(rows[k]) /\ ~Present(rows'[k]) =>
             \E p \in Procs : call[p].op \in {"del", "getdel"} /\ call[p].at = "key"
                              /\ call[p].key = k]_vars

(* GETDEL removes the value that it returns (docs/store-api.md). *)
GetDelAtomic ==
    [][\A p \in Procs :
          LET c == call[p]
          IN  c.op = "getdel" /\ c.at = "key" /\ call'[p] = Idle
              /\ Present(rows[c.key]) /\ ~Present(rows'[c.key])
                 => rows[c.key].val = c.row.val]_vars
=============================================================================
