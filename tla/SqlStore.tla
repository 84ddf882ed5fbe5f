------------------------------ MODULE SqlStore ------------------------------
(***************************************************************************)
(* The SQL backend of Redge's keyspace (internal/store/sqlstore/store.go). *)
(*                                                                         *)
(* Two tables hold the keyspace: redge_keys (variable rows, one KeyRow per *)
(* logical database and key) and redge_zset_members (variable members).    *)
(* The code sets no isolation level, so transactions run at the default of *)
(* the database: READ COMMITTED with row locks on PostgreSQL, the weakest  *)
(* of those supported. A call whose transaction begins with SELECT ... FOR *)
(* UPDATE is one step: it holds the lock of its key row, or its INSERT     *)
(* fails if another has made the row since. DEL takes no such lock: its    *)
(* transaction is two steps, and others may commit between its DELETEs. A  *)
(* transaction that fails changes nothing. A call without a transaction is *)
(* a chain of autocommitted statements, one step each: every read, EXPIRE, *)
(* PERSIST, ZREM, ZREMRANGEBYSCORE and the expiry cleanup.                 *)
(***************************************************************************)
EXTENDS Integers, FiniteSets

CONSTANTS
    DBs,            \* logical database numbers (SELECT n)
    Keys,           \* key names
    Members,        \* sorted-set members; numbers, to have their order
    Scores,         \* the scores a member may have (bound on ZINCRBY)
    Values,         \* the values SET and MSET write
    Text,           \* a string that does not parse as an integer
    Absent,         \* marks a member that has no row
    IntHalf,        \* half the range of a counter: 2^63 in the code
    TTLs,           \* the positive TTLs of SET EX and EXPIRE; EXPIRE also has 0
    Procs,          \* connections running calls of more than one step
    Cleaners,       \* callers of CleanupExpired: the ticker, the admin API
    CleanupLimit,   \* the LIMIT of a cleanup pass
    MaxTime,        \* bound on the clock
    MaxVersion      \* bound on the version column

Ints == -IntHalf .. IntHalf - 1
Ids == DBs \X Keys

ASSUME ConstantsAssumption ==
    /\ DBs \subseteq Nat /\ DBs # {}
    /\ Keys # {}
    /\ Members \subseteq Nat
    /\ Scores \subseteq Int
    /\ IntHalf \in Nat \ {0}
    /\ Text \notin Int /\ Absent \notin Int
    /\ Values \subseteq Ints \cup {Text}
    /\ TTLs \subseteq Nat \ {0}
    /\ CleanupLimit \in Nat \ {0}
    /\ MaxTime \in Nat
    /\ MaxVersion \in Nat

VARIABLES
    rows,       \* redge_keys
    members,    \* redge_zset_members: the score of each member of each key
    now,        \* the clock read by time.Now()
    call,       \* the non-transactional call each connection is executing
    del,        \* the DEL each connection is in the middle of
    sweep,      \* the keys each cleanup pass has selected, {} between passes
    volatile,   \* history: the rows that have had an expiry time at some time
    torn        \* history: the keys whose members a gap may have cut off

vars == <<rows, members, now, call, del, sweep, volatile, torn>>

-----------------------------------------------------------------------------
(* Rows *)

Null == 0                                   \* expires_at IS NULL
NoMembers == [m \in Members |-> Absent]
NoRow == [typ |-> "none", val |-> 0, exp |-> Null, ver |-> 0]
NewZSet == [typ |-> "zset", val |-> 0, exp |-> Null, ver |-> 1]

Row == [typ : {"none", "string", "zset"}, val : Ints \cup {Text},
        exp : Nat, ver : Nat]

Present(row) == row.typ # "none"
ExpiredNullToo(row) == row.exp <= now         \* mutant: no NULL test
Expired(row) == row.exp # Null /\ row.exp <= now

(* The row a transaction works with: an expired one is deleted first, with *)
(* its members (getLiveRowTx).                                             *)
Fetched(id) == IF Expired(rows[id]) THEN NoRow ELSE rows[id]

(* Mutant of FetchedMembers: only the row is deleted. *)
FetchedMembersKept(id) == members[id]

FetchedMembers(id) == IF Expired(rows[id]) THEN NoMembers ELSE members[id]

(* The member rows that an open DEL has deleted: whoever wants to change   *)
(* or delete one of them waits for its end.                                *)
Locked(id) == {m \in Members : \E p \in Procs : <<id, m>> \in del[p].gone}
Fetchable(id) == Expired(rows[id]) => Locked(id) = {}

(* The rows that db.Model(row).Updates(...) reaches. gorm builds the WHERE *)
(* clause from the primary key fields of row that are not zero: for a row  *)
(* of logical database 0 the db column is left out.                        *)
ModelMatches(id, other) == other[2] = id[2] /\ (id[1] # 0 => other[1] = id[1])

(* Every change of redge_keys; the history variable follows it. *)
Save(newRows) ==
    /\ rows' = newRows
    /\ volatile' = volatile \cup {id \in Ids : newRows[id].exp # Null}

(* Every change of redge_zset_members; gaps are the keys that have met one *)
(* of the gaps MembersHaveParent names. Without members nothing is cut off. *)
SaveMembers(newMembers, gaps) ==
    /\ members' = newMembers
    /\ torn' = {id \in gaps : newMembers[id] # NoMembers}

(* UPDATE redge_keys SET version = ver WHERE <the model of id>. *)
Versioned(id, ver) ==
    [other \in Ids |-> IF ModelMatches(id, other) /\ Present(rows[other])
                       THEN [rows[other] EXCEPT !.ver = ver]
                       ELSE rows[other]]

-----------------------------------------------------------------------------
(* Transactional calls *)

SetOptions == [nx : BOOLEAN, xx : BOOLEAN, keepTTL : BOOLEAN, ttl : TTLs \cup {0}]
MSetOptions == {opts \in SetOptions : ~opts.keepTTL}     \* what the callers of MSet set

Skips(row, opts) == (opts.nx /\ Present(row)) \/ (opts.xx /\ ~Present(row))

Deadline(row, opts) ==
    IF opts.ttl > 0 THEN now + opts.ttl
    ELSE IF opts.keepTTL THEN row.exp ELSE Null

Written(row, value, opts) ==
    IF Skips(row, opts) THEN row
    ELSE [typ |-> "string", val |-> value,
          exp |-> Deadline(row, opts), ver |-> row.ver + 1]

(* The upsert shared by Set and MSet; data maps rows to their new values.  *)
(* A row of another type, unless the options skip it, rolls the whole      *)
(* transaction back.                                                       *)
Upsert(data, opts) ==
    /\ \A id \in DOMAIN data :
          /\ Fetched(id).typ = "zset" => Skips(Fetched(id), opts)
          /\ Fetched(id).ver < MaxVersion
          /\ Fetchable(id)
    /\ Save([id \in Ids |-> IF id \in DOMAIN data
                            THEN Written(Fetched(id), data[id], opts)
                            ELSE rows[id]])
    /\ SaveMembers([id \in Ids |-> IF id \in DOMAIN data THEN FetchedMembers(id)
                                                          ELSE members[id]], torn)
    /\ UNCHANGED <<now, call, del, sweep>>

Set(id, value, opts) == Upsert([i \in {id} |-> value], opts)

(* pairs maps the keys of the command to their values. *)
MSet(db, pairs, opts) ==
    Upsert([id \in {db} \X DOMAIN pairs |-> pairs[id[2]]], opts)

GetDel(id) ==
    /\ Present(rows[id])
    /\ Fetched(id).typ # "zset"
    /\ Fetchable(id)
    /\ Save([rows EXCEPT ![id] = NoRow])
    /\ SaveMembers([members EXCEPT ![id] = FetchedMembers(id)], torn)
    /\ UNCHANGED <<now, call, del, sweep>>

(* DEL: the first statement deletes the member rows it sees, the second    *)
(* the key rows there are by then. What it deletes disappears for others   *)
(* at the commit, in one step with the second statement, as the key rows   *)
(* are locked in between.                                                  *)
NoDel == [ids |-> {}, gone |-> {}]

DeleteMembers(p, db, keys) ==
    LET ids == {db} \X keys
    IN  /\ call[p].at = "idle" /\ del[p] = NoDel
        /\ \A id \in ids : Locked(id) = {}
        /\ del' = [del EXCEPT ![p] =
                     [ids |-> ids,
                      gone |-> {x \in ids \X Members : members[x[1]][x[2]] # Absent}]]
        /\ UNCHANGED <<rows, members, now, call, sweep, volatile, torn>>

DeleteKeys(p) ==
    /\ del[p] # NoDel
    /\ Save([id \in Ids |-> IF id \in del[p].ids THEN NoRow ELSE rows[id]])
    /\ SaveMembers([id \in Ids |-> [m \in Members |->
                       IF <<id, m>> \in del[p].gone THEN Absent ELSE members[id][m]]], torn)
    /\ del' = [del EXCEPT ![p] = NoDel]
    /\ UNCHANGED <<now, call, sweep>>

DeleteError(p) ==
    /\ del[p] # NoDel
    /\ del' = [del EXCEPT ![p] = NoDel]
    /\ UNCHANGED <<rows, members, now, call, sweep, volatile, torn>>

(* Mutant of Wrap: the modulus is off by one. *)
WrapOffByOne(n) == ((n + IntHalf) % (2 * IntHalf + 1)) - IntHalf

(* int64 addition *)
Wrap(n) == ((n + IntHalf) % (2 * IntHalf)) - IntHalf

IncrBy(id, delta) ==
    LET row == Fetched(id)
    IN  /\ row.typ # "zset"
        /\ row.val \in Ints
        /\ row.ver < MaxVersion
        /\ Fetchable(id)
        /\ Save([rows EXCEPT ![id] =
                   [typ |-> "string", val |-> Wrap(row.val + delta),
                    exp |-> row.exp, ver |-> row.ver + 1]])
        /\ SaveMembers([members EXCEPT ![id] = FetchedMembers(id)], torn)
        /\ UNCHANGED <<now, call, del, sweep>>

(* Another connection is between the DELETE of the members and the DELETE  *)
(* of the row of this key: in a DEL, or in a lazy deletion.                *)
Exposed(id) ==
    \E p \in Procs :
        \/ id \in del[p].ids
        \/ call[p].at = "dropKey" /\ call[p].id = id

(* ZAdd and ZIncrBy: create the key or raise its version, then create the  *)
(* member or change its score.                                             *)
ZWrite(id, m, score) ==
    LET row == Fetched(id)
        old == FetchedMembers(id)
    IN  /\ row.typ # "string"
        /\ row.ver < MaxVersion
        /\ Fetchable(id)
        /\ old[m] # Absent => \A other \in Ids : ModelMatches(id, other) => m \notin Locked(other)
        /\ Save(IF Present(row) THEN Versioned(id, row.ver + 1)
                                ELSE [rows EXCEPT ![id] = NewZSet])
        /\ SaveMembers(IF old[m] = Absent
                       THEN [members EXCEPT ![id] = [old EXCEPT ![m] = score]]
                       ELSE [other \in Ids |->
                               IF ModelMatches(id, other) /\ members[other][m] # Absent
                               THEN [members[other] EXCEPT ![m] = score]
                               ELSE members[other]],
                       IF Exposed(id) THEN torn \cup {id} ELSE torn \ {id})
        /\ UNCHANGED <<now, call, del, sweep>>

ZAdd(id, m, score) == ZWrite(id, m, score)

ZIncrBy(id, m, delta) ==
    LET old == FetchedMembers(id)[m]
        out == IF old = Absent THEN delta ELSE old + delta
    IN  out \in Scores /\ ZWrite(id, m, out)

Has(id) == {m \in Members : members[id][m] # Absent}

(* ORDER BY score, member *)
Before(id, a, b) ==
    \/ members[id][a] < members[id][b]
    \/ members[id][a] = members[id][b] /\ a < b

(* The first count members in that order, or in the opposite one. *)
Popped(id, count, max) ==
    {S \in SUBSET Has(id) :
        /\ S # {}
        /\ Cardinality(S) <= count
        /\ Cardinality(S) < count => S = Has(id)
        /\ \A a \in S, b \in Has(id) \ S :
              IF max THEN Before(id, b, a) ELSE Before(id, a, b)}

zpop(id, count, max) ==
    \/ /\ Expired(rows[id])
       /\ Fetchable(id)
       /\ Save([rows EXCEPT ![id] = NoRow])
       /\ SaveMembers([members EXCEPT ![id] = NoMembers], torn)
       /\ UNCHANGED <<now, call, del, sweep>>
    \/ /\ Fetched(id).typ = "zset"
       /\ rows[id].ver < MaxVersion
       /\ \E S \in Popped(id, count, max) :
             /\ S \cap Locked(id) = {}
             /\ SaveMembers([members EXCEPT ![id] =
                               [m \in Members |-> IF m \in S THEN Absent ELSE @[m]]], torn)
       /\ Save(Versioned(id, rows[id].ver + 1))
       /\ UNCHANGED <<now, call, del, sweep>>

-----------------------------------------------------------------------------
(* Calls made of autocommitted statements.                                 *)
(*   idle -> fetched        SELECT the row                                 *)
(*   fetched -> dropMembers the row read is expired by the clock read now  *)
(*   dropMembers -> dropKey -> idle   the two DELETEs of lazy deletion     *)
(*   fetched -> live        the row read is live and the call writes       *)
(*   live -> idle           the UPDATE of EXPIRE or PERSIST                *)
(*   live -> bump -> idle   ZREM's DELETE, then its version UPDATE         *)

Ops == {"read", "Expire", "Persist", "ZRem", "ZRemRangeByScore"}
Stages == {"idle", "fetched", "dropMembers", "dropKey", "live", "bump"}

Idle == [op |-> "read", at |-> "idle", id |-> CHOOSE id \in Ids : TRUE, row |-> NoRow]

(* Whether the call goes on to write a live row that it read. *)
Writes(op, row) ==
    \/ op = "Expire"
    \/ op = "Persist" /\ row.exp # Null
    \/ op \in {"ZRem", "ZRemRangeByScore"} /\ row.typ = "zset"

(* What the rest of a call uses of the row it read: the expiry time, and   *)
(* the version if it writes. Get, Type, TTL, ZCard, ZRange, ZRangeByScore, *)
(* ZScore, ZCount and a call that does not write are all "read": they      *)
(* differ in what they return.                                             *)
Reading(op, id, row) ==
    LET writes == Writes(op, row)
    IN  [op |-> IF writes THEN op ELSE "read", at |-> "fetched", id |-> id,
         row |-> [NoRow EXCEPT !.exp = row.exp, !.ver = IF writes THEN row.ver ELSE 0]]

getLiveRow(p, op, id) ==
    /\ call[p].at = "idle" /\ del[p] = NoDel
    /\ Present(rows[id])
    /\ call' = [call EXCEPT ![p] = Reading(op, id, rows[id])]
    /\ UNCHANGED <<rows, members, now, del, sweep, volatile, torn>>

(* The row read is compared with a clock read after the SELECT. The        *)
(* DELETEs of lazy deletion use the primary key only, the writers that     *)
(* follow also the version.                                                *)
CheckExpiry(p) ==
    /\ call[p].at = "fetched"
    /\ call' = [call EXCEPT ![p] =
                  IF Expired(@.row)
                  THEN [@ EXCEPT !.at = "dropMembers", !.op = "read", !.row = NoRow]
                  ELSE IF @.op # "read"
                  THEN [@ EXCEPT !.at = "live", !.row = [NoRow EXCEPT !.ver = call[p].row.ver]]
                  ELSE Idle]
    /\ UNCHANGED <<rows, members, now, del, sweep, volatile, torn>>

LazyDropMembers(p) ==
    /\ call[p].at = "dropMembers"
    /\ Locked(call[p].id) = {}
    /\ SaveMembers([members EXCEPT ![call[p].id] = NoMembers], torn)
    /\ call' = [call EXCEPT ![p].at = "dropKey"]
    /\ UNCHANGED <<rows, now, del, sweep, volatile>>

LazyDropKey(p) ==
    /\ call[p].at = "dropKey"
    /\ Save([rows EXCEPT ![call[p].id] = NoRow])
    /\ call' = [call EXCEPT ![p] = Idle]
    /\ UNCHANGED <<members, now, del, sweep, torn>>

(* UPDATE redge_keys SET expires_at, version WHERE <the model of the row>. *)
UpdateExpiry(p, expiry) ==
    LET c == call[p]
    IN  /\ c.at = "live"
        /\ c.row.ver < MaxVersion
        /\ Save([other \in Ids |->
                   IF ModelMatches(c.id, other) /\ Present(rows[other])
                   THEN [rows[other] EXCEPT !.exp = expiry, !.ver = c.row.ver + 1]
                   ELSE rows[other]])
        /\ call' = [call EXCEPT ![p] = Idle]
        /\ UNCHANGED <<members, now, del, sweep, torn>>

Expire(p, ttl) == call[p].op = "Expire" /\ UpdateExpiry(p, now + ttl)

Persist(p) == call[p].op = "Persist" /\ UpdateExpiry(p, Null)

(* DELETE FROM redge_zset_members, then the version if a row was affected. *)
RemoveMembers(p, S) ==
    LET id == call[p].id
    IN  /\ call[p].at = "live"
        /\ S \cap Locked(id) = {}
        /\ SaveMembers([members EXCEPT ![id] =
                          [m \in Members |-> IF m \in S THEN Absent ELSE @[m]]], torn)
        /\ call' = [call EXCEPT ![p] = IF S \cap Has(id) = {} THEN Idle
                                       ELSE [@ EXCEPT !.at = "bump"]]
        /\ UNCHANGED <<rows, now, del, sweep, volatile>>

ZRem(p, S) == call[p].op = "ZRem" /\ RemoveMembers(p, S)

(* The bounds min and max are infinite, inclusive or exclusive. *)
InBounds(s, min, max) ==
    /\ min.infinite <= 0 /\ max.infinite >= 0
    /\ min.infinite = 0 => IF min.exclusive THEN s > min.score ELSE s >= min.score
    /\ max.infinite = 0 => IF max.exclusive THEN s < max.score ELSE s <= max.score

ZRemRangeByScore(p, min, max) ==
    /\ call[p].op = "ZRemRangeByScore"
    /\ RemoveMembers(p, {m \in Has(call[p].id) :
                            InBounds(members[call[p].id][m], min, max)})

BumpVersion(p) ==
    LET c == call[p]
    IN  /\ c.at = "bump"
        /\ c.row.ver < MaxVersion
        /\ Save(Versioned(c.id, c.row.ver + 1))
        /\ call' = [call EXCEPT ![p] = Idle]
        /\ UNCHANGED <<members, now, del, sweep, torn>>

(* A statement of the call fails. The errors of the two DELETEs of lazy    *)
(* deletion, and of ZREM's version UPDATE, are discarded by the code.      *)
StatementError(p) ==
    /\ call[p].at \in {"dropMembers", "dropKey", "live", "bump"}
    /\ call' = [call EXCEPT ![p] = IF @.at = "dropMembers"
                                   THEN [@ EXCEPT !.at = "dropKey"] ELSE Idle]
    /\ SaveMembers(members,
                   IF call[p].at = "dropMembers" THEN torn \cup {call[p].id} ELSE torn)
    /\ UNCHANGED <<rows, now, del, sweep, volatile>>

-----------------------------------------------------------------------------
(* CleanupExpired: SELECT db, key ... LIMIT, then DELETE ... key IN (...). *)

ExpiredIds == {id \in Ids : Expired(rows[id])}

(* Mutant of CleanupSelect: sorted sets are left out. *)
CleanupSelectStrings(c) ==
    /\ sweep[c] = {}
    /\ \E S \in SUBSET {id \in ExpiredIds : rows[id].typ = "string"} :
          /\ S # {}
          /\ Cardinality(S) <= CleanupLimit
          /\ sweep' = [sweep EXCEPT ![c] = {id[2] : id \in S}]
    /\ UNCHANGED <<rows, members, now, call, del, volatile, torn>>

CleanupSelect(c) ==
    /\ sweep[c] = {}
    /\ \E S \in SUBSET ExpiredIds :
          /\ S # {}
          /\ Cardinality(S) <= CleanupLimit
          /\ Cardinality(S) < CleanupLimit => S = ExpiredIds
          /\ sweep' = [sweep EXCEPT ![c] = {id[2] : id \in S}]
    /\ UNCHANGED <<rows, members, now, call, del, volatile, torn>>

(* The members of an expired sorted set are left behind. *)
CleanupDelete(c) ==
    LET doomed == {id \in Ids : id[2] \in sweep[c] /\ Expired(rows[id])}
    IN  /\ sweep[c] # {}
        /\ Save([id \in Ids |-> IF id \in doomed THEN NoRow ELSE rows[id]])
        /\ SaveMembers(members, torn \cup doomed)
        /\ sweep' = [sweep EXCEPT ![c] = {}]
        /\ UNCHANGED <<now, call, del>>

CleanupError(c) ==
    /\ sweep[c] # {}
    /\ sweep' = [sweep EXCEPT ![c] = {}]
    /\ UNCHANGED <<rows, members, now, call, del, volatile, torn>>

Tick ==
    /\ now < MaxTime
    /\ now' = now + 1
    /\ UNCHANGED <<rows, members, call, del, sweep, volatile, torn>>

-----------------------------------------------------------------------------
Init ==
    /\ rows = [id \in Ids |-> NoRow]
    /\ members = [id \in Ids |-> NoMembers]
    /\ now = 1
    /\ call = [p \in Procs |-> Idle]
    /\ del = [p \in Procs |-> NoDel]
    /\ sweep = [c \in Cleaners |-> {}]
    /\ volatile = {}
    /\ torn = {}

Bounds == [score : Scores, exclusive : BOOLEAN, infinite : -1 .. 1]

StringStep ==
    \/ \E id \in Ids, value \in Values, opts \in SetOptions : Set(id, value, opts)
    \/ \E db \in DBs, keys \in SUBSET Keys \ {{}} :
          \E pairs \in [keys -> Values], opts \in MSetOptions : MSet(db, pairs, opts)
    \/ \E id \in Ids : GetDel(id)
    \/ \E id \in Ids, delta \in {-1, 1} : IncrBy(id, delta)

ZSetStep ==
    \/ \E id \in Ids, m \in Members, s \in Scores : ZAdd(id, m, s)
    \/ \E id \in Ids, m \in Members, delta \in {-1, 1} : ZIncrBy(id, m, delta)
    \/ \E id \in Ids, count \in 1 .. 2, max \in BOOLEAN : zpop(id, count, max)

CallStep(p) ==
    \/ \E op \in Ops, id \in Ids : getLiveRow(p, op, id)
    \/ CheckExpiry(p)
    \/ LazyDropMembers(p)
    \/ LazyDropKey(p)
    \/ \E ttl \in TTLs \cup {0} : Expire(p, ttl)
    \/ Persist(p)
    \/ \E S \in SUBSET Members \ {{}} : ZRem(p, S)
    \/ \E min, max \in Bounds : ZRemRangeByScore(p, min, max)
    \/ BumpVersion(p)
    \/ StatementError(p)

DeleteStep(p) ==
    \/ \E db \in DBs, keys \in SUBSET Keys \ {{}} : DeleteMembers(p, db, keys)
    \/ DeleteKeys(p)
    \/ DeleteError(p)

CleanupStep(c) == CleanupSelect(c) \/ CleanupDelete(c) \/ CleanupError(c)

Next ==
    \/ StringStep
    \/ ZSetStep
    \/ \E p \in Procs : CallStep(p) \/ DeleteStep(p)
    \/ \E c \in Cleaners : CleanupStep(c)
    \/ Tick

Spec == Init /\ [][Next]_vars

(* The ticker goroutine runs a cleanup pass again and again, and a DELETE  *)
(* attempted for ever does not fail for ever.                              *)
Fairness == \A c \in Cleaners : WF_vars(CleanupSelect(c)) /\ SF_vars(CleanupDelete(c))

FairSpec == Spec /\ Fairness

-----------------------------------------------------------------------------
(* Properties *)

(* Every variable has its type; in particular a counter stays in the range *)
(* of int64 through IncrBy, and a member's score stays in Scores.          *)
TypeOK ==
    /\ rows \in [Ids -> Row]
    /\ members \in [Ids -> [Members -> Scores \cup {Absent}]]
    /\ now \in Nat \ {0}
    /\ call \in [Procs -> [op : Ops, at : Stages, id : Ids, row : Row]]
    /\ del \in [Procs -> [ids : SUBSET Ids, gone : SUBSET (Ids \X Members)]]
    /\ sweep \in [Cleaners -> SUBSET Keys]
    /\ volatile \in SUBSET Ids
    /\ torn \in SUBSET Ids

(* Member rows exist only under a sorted-set row, through every command,   *)
(* expired keys and statements that fail, except where the code leaves a   *)
(* gap: a ZADD or ZINCRBY commits a new member between the two DELETEs of  *)
(* a DEL or of a lazy deletion, the first of the latter fails, or the      *)
(* cleanup deletes an expired sorted set (Delete, getLiveRowTx,            *)
(* CleanupExpired). A later ZADD or ZINCRBY, which makes the row again,    *)
(* ends the exception, as does the removal of the members.                 *)
MembersHaveParent ==
    \A id \in Ids \ torn : Has(id) # {} => rows[id].typ = "zset"

(* The commands that may remove the key id or a member of it. *)
Removal(id) ==
    \/ GetDel(id)
    \/ \E p \in Procs : id \in del[p].ids /\ DeleteKeys(p)
    \/ \E count \in 1 .. 2, max \in BOOLEAN : zpop(id, count, max)
    \/ \E p \in Procs : call[p].id = id /\ \E S \in SUBSET Members : RemoveMembers(p, S)

(* A reader that has seen the key id expired deletes it. *)
LazyRemoval(id) ==
    \E p \in Procs : call[p].id = id /\ (LazyDropMembers(p) \/ LazyDropKey(p))

(* The key id, or a member of it, disappears in this step. *)
Loses(id) ==
    \/ Present(rows[id]) /\ ~Present(rows'[id])
    \/ \E m \in Members : members[id][m] # Absent /\ members'[id][m] = Absent

(* A key that has never had an expiry time, and the members of such a key, *)
(* disappear only by a command that removes that key or that member: not   *)
(* by a reader that works with a stale row (getLiveRowTx's two DELETEs),   *)
(* not by CleanupExpired, whose DELETE matches key names in every logical  *)
(* database. One that has had an expiry time may also go because it is     *)
(* expired at that moment, or by a reader that saw it expired and comes    *)
(* late: nothing else loses a key that was renewed, not even a cleanup     *)
(* pass that selected its name before.                                     *)
Durable ==
    [][\A id \in Ids : Loses(id) =>
          \/ Removal(id)
          \/ id \in volatile /\ (Expired(rows[id]) \/ LazyRemoval(id))]_vars

(* An expired row does not stay: it is removed, or a command gives the key *)
(* another life (the ticker's CleanupExpired).                             *)
ExpiredRowsGo == \A id \in Ids : Expired(rows[id]) ~> ~Expired(rows[id])

-----------------------------------------------------------------------------
(* What the documentation says and the code does not do *)

(* EXPIRE and PERSIST change the expiry time of the key in the selected    *)
(* logical database only.                                                  *)
ExpiryStaysInDatabase ==
    [][\A p \in Procs, id \in Ids :
          call[p].at = "live" /\ call'[p].at = "idle" /\ id # call[p].id =>
             rows'[id].exp = rows[id].exp]_vars
=============================================================================
