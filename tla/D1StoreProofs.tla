---------------------------- MODULE D1StoreProofs ---------------------------
(***************************************************************************)
(* What the D1 store keeps without transactions, for any number of keys,   *)
(* members and callers. The inductive invariant says of every call what is *)
(* still true of the row it has read, however long ago: the operators take *)
(* the tables as arguments, so that what a change of a table does to the   *)
(* calls of others is a lemma about values, used by every action.          *)
(***************************************************************************)
EXTENDS D1Store, TLAPS

-----------------------------------------------------------------------------
(* The inductive invariant *)

(* What a call is by itself. *)
Shape(c) ==
    /\ c \in Call
    /\ c = Idle \/ (c.at # "idle" /\ c.key \in Keys)
    /\ c.at = "select" => c.row = NoRow
    /\ c.op \in {"set", "expire"} => c.arg \in Nat
    /\ c.op = "zadd" => c.arg \in Members /\ (c.at = "write" => c.row.typ # "string")
    /\ c.at \in {"members", "key"} => c.op \in {"del", "getdel", "cleanup"}
    /\ c.at = "member" => c.op = "zadd"
    /\ c.op \in {"del", "cleanup"} => c.row = NoRow /\ c.at \in {"members", "key"}
    /\ c.op \notin {"del", "cleanup"} => c.todo = {}
    /\ c.at \in {"lazymembers", "lazykey"} => c.row = NoRow

(* What a call is about to delete unasked has had an expiry time. *)
KnowsExpiry(c, V) ==
    /\ c.at = "judge" /\ c.row.exp # Null => c.key \in V
    /\ c.at \in {"lazymembers", "lazykey"} => c.key \in V
    /\ c.op = "cleanup" => c.key \in V /\ c.todo \subseteq V

(* A ZADD finds the sorted set it saw, a removal the members it deleted    *)
(* gone, unless the key is one of those raced.                             *)
KnowsMembers(c, R, M, A) ==
    /\ c.op = "zadd" /\ c.row.typ = "zset" => c.key \in A \/ R[c.key].typ = "zset"
    /\ c.at = "member" => c.key \in A \/ R[c.key].typ = "zset"
    /\ c.at \in {"key", "lazykey"} => c.key \in A \/ M[c.key] = {}

(* A version stands for one value, on a key whose versions are all guarded. *)
KnowsVersion(c, R, D) ==
    Present(c.row) /\ c.key \notin D =>
        /\ Present(R[c.key])
        /\ c.row.ver <= R[c.key].ver
        /\ c.row.ver = R[c.key].ver => c.row.val = R[c.key].val

(* A row that a guarded statement may put in the place of another. *)
Outdates(new, old) == Present(old) => Present(new) /\ old.ver < new.ver

(* A sorted set makes place, and a ZADD that may have seen it. *)
Unsorts(new, old) == old.typ = "zset" /\ new.typ # "zset"
Adds(c, k) == c.op = "zadd" /\ c.key = k /\ c.at # "select"

CallOK(c, R, M, V, A, D) ==
    Shape(c) /\ KnowsExpiry(c, V) /\ KnowsMembers(c, R, M, A) /\ KnowsVersion(c, R, D)

(* The rows, each with its history. *)
RowOK(k, R, M, V, A, D, I, L) ==
    /\ R[k].exp # Null => k \in V
    /\ M[k] # {} => k \in A \/ R[k].typ = "zset"
    /\ L[k] <= 1 /\ (L[k] = 1 => Present(R[k]))
    /\ k \notin D => /\ ~Present(R[k]) => I[k] = {}
                     /\ \A n \in I[k] : n <= R[k].val

D1Inv ==
    /\ TypeOK
    /\ repeated = {}
    /\ \A k \in Keys : RowOK(k, rows, members, volatile, raced, disturbed, issued, locks)
    /\ \A p \in Procs : CallOK(call[p], rows, members, volatile, raced, disturbed)

-----------------------------------------------------------------------------
(* What an operation makes of a call *)

LEMMA RowTypes ==
    /\ NoRow \in Row
    /\ \A v, e, n \in Nat : /\ [typ |-> "string", val |-> v, exp |-> e, ver |-> n] \in Row
                            /\ [typ |-> "zset", val |-> v, exp |-> e, ver |-> n] \in Row
    /\ \A r \in Row : /\ r.typ \in {"none", "string", "zset"}
                       /\ r.val \in Nat /\ r.exp \in Nat /\ r.ver \in Nat
BY DEF Row, NoRow, Null

LEMMA IdleIsCall == Idle \in Call
<1>1. NoOpts \in Options
  BY DEF NoOpts, Options
<1> QED
  BY <1>1, RowTypes DEF Idle, Call, Ops, Stages, Null

(* A process without a call knows nothing. *)
LEMMA IdleOK ==
    ASSUME NEW R, NEW M, NEW V, NEW A, NEW D
    PROVE  CallOK(Idle, R, M, V, A, D)
BY IdleIsCall DEF CallOK, Shape, KnowsExpiry, KnowsMembers, KnowsVersion, Idle, NoRow, Present

(* getLiveRow hands on what the call knows of the row. *)
LEMMA LookedUpOK ==
    ASSUME NEW c, NEW R, NEW M, NEW V, NEW A, NEW D,
           CallOK(c, R, M, V, A, D), now \in Nat,
           c.at \in {"judge", "lazymembers", "lazykey"}
    PROVE  CallOK(LookedUp(c), R, M, V, A, D)
<1>1. CASE ~Proceeds(c)
  BY <1>1, IdleOK DEF LookedUp
<1>2. CASE Proceeds(c)
  <2>1. c \in Call /\ c.row \in Row /\ c.key \in Keys
    BY DEF CallOK, Shape, Call, Idle
  <2>2. c.opts.ttl \in Nat /\ c.row.exp \in Nat
    BY <2>1, RowTypes DEF Call, Options
  <2>3. Deadline(c) \in Nat
    BY <2>2 DEF Deadline, CallOK, Shape, Null
  <2>4. PICK a \in {"members", "write"} :
            /\ a = IF c.op = "getdel" THEN "members" ELSE "write"
            /\ LookedUp(c) = [c EXCEPT !.at = a, !.exp = Deadline(c)]
    BY <1>2 DEF LookedUp
  <2> DEFINE d == LookedUp(c)
  <2>5. /\ d \in Call /\ d.at = a
        /\ d.op = c.op /\ d.key = c.key /\ d.row = c.row
        /\ d.arg = c.arg /\ d.todo = c.todo
    BY <2>1, <2>3, <2>4 DEF Call, Stages
  <2> HIDE DEF d
  <2>6. c.op = "zadd" => c.row.typ # "string"
    BY <1>2 DEF Proceeds
  <2>7. Shape(d)
    BY <2>1, <2>4, <2>5, <2>6 DEF CallOK, Shape
  <2>8. KnowsExpiry(d, V)
    BY <2>4, <2>5 DEF CallOK, Shape, KnowsExpiry
  <2>9. KnowsMembers(d, R, M, A) /\ KnowsVersion(d, R, D)
    BY <2>4, <2>5 DEF CallOK, KnowsMembers, KnowsVersion
  <2> QED
    BY <2>7, <2>8, <2>9 DEF CallOK, d
<1> QED
  BY <1>1, <1>2

(* The loop of Delete or of a cleanup pass goes on. *)
LEMMA NextKeyOK ==
    ASSUME NEW c, NEW R, NEW M, NEW V, NEW A, NEW D,
           c \in Call, c.op \in {"del", "cleanup"} \/ c.todo = {}, c.row = NoRow \/ c.todo = {},
           c.op = "cleanup" => c.todo \subseteq V,
           NEW d \in NextKey(c)
    PROVE  CallOK(d, R, M, V, A, D)
<1>1. CASE c.todo = {}
  BY <1>1, IdleOK DEF NextKey
<1>2. CASE c.todo # {}
  <2>1. PICK k \in c.todo : d = [c EXCEPT !.at = "members", !.key = k, !.todo = c.todo \ {k}]
    BY <1>2 DEF NextKey
  <2>2. /\ d \in Call /\ d.at = "members" /\ d.key = k /\ d.key \in Keys
        /\ d.op = c.op /\ d.row = NoRow /\ d.todo = c.todo \ {k}
    BY <1>2, <2>1 DEF Call, Stages
  <2>3. ~Present(d.row) /\ d.row.typ # "zset"
    BY <2>2 DEF Present, NoRow
  <2>4. Shape(d)
    BY <1>2, <2>2 DEF Shape
  <2>5. KnowsExpiry(d, V)
    BY <1>2, <2>2 DEF KnowsExpiry
  <2>6. KnowsMembers(d, R, M, A) /\ KnowsVersion(d, R, D)
    BY <2>2, <2>3 DEF KnowsMembers, KnowsVersion
  <2> QED
    BY <2>4, <2>5, <2>6 DEF CallOK
<1> QED
  BY <1>1, <1>2

(* A call that only moves on to its next statement. *)
LEMMA MovedOK ==
    ASSUME NEW c, NEW R, NEW M, NEW V, NEW A, NEW D, NEW a, NEW d,
           CallOK(c, R, M, V, A, D), c.at # "idle",
           d = [c EXCEPT !.at = a],
           \/ a = "key" /\ c.at = "members" /\ M[c.key] = {}
           \/ a = "lazykey" /\ c.at = "lazymembers" /\ M[c.key] = {}
           \/ a = "member" /\ c.op = "zadd" /\ (c.key \in A \/ R[c.key].typ = "zset")
           \/ a = "bump" /\ c.op \in {"zrem", "zremrange"}
    PROVE  CallOK(d, R, M, V, A, D)
<1>1. c \in Call /\ c.key \in Keys
  BY DEF CallOK, Shape, Idle
<1>2. /\ d \in Call /\ d.at = a /\ d.op = c.op /\ d.key = c.key /\ d.row = c.row
      /\ d.arg = c.arg /\ d.todo = c.todo
  BY <1>1 DEF Call, Stages
<1>3. Shape(d)
  BY <1>1, <1>2 DEF CallOK, Shape
<1>4. KnowsExpiry(d, V)
  BY <1>2 DEF CallOK, KnowsExpiry
<1>5. KnowsMembers(d, R, M, A)
  BY <1>2 DEF CallOK, KnowsMembers
<1>6. KnowsVersion(d, R, D)
  BY <1>2 DEF CallOK, KnowsVersion
<1> QED
  BY <1>3, <1>4, <1>5, <1>6 DEF CallOK

(* A ZREM notes whether it has deleted a member. *)
LEMMA CountedOK ==
    ASSUME NEW c, NEW R, NEW M, NEW V, NEW A, NEW D, NEW a \in {0, 1, c.arg}, NEW d,
           CallOK(c, R, M, V, A, D), c.at = "write", c.op \in {"zrem", "zremrange"},
           d = [c EXCEPT !.arg = a]
    PROVE  CallOK(d, R, M, V, A, D) /\ d.at = "write" /\ d.op = c.op
<1>1. c \in Call /\ c.key \in Keys
  BY DEF CallOK, Shape, Idle
<1>2. /\ d \in Call /\ d.at = c.at /\ d.op = c.op /\ d.key = c.key /\ d.row = c.row
      /\ d.todo = c.todo
  BY <1>1 DEF Call
<1>3. Shape(d)
  BY <1>1, <1>2 DEF CallOK, Shape
<1>4. KnowsExpiry(d, V)
  BY <1>2 DEF CallOK, KnowsExpiry
<1>5. KnowsMembers(d, R, M, A)
  BY <1>2 DEF CallOK, KnowsMembers
<1>6. KnowsVersion(d, R, D)
  BY <1>2 DEF CallOK, KnowsVersion
<1> QED
  BY <1>2, <1>3, <1>4, <1>5, <1>6 DEF CallOK

-----------------------------------------------------------------------------
(* What the statement of one call does to the others *)

LEMMA RowFrame ==
    ASSUME NEW c, NEW k \in Keys, rows \in [Keys -> Row], rows' \in [Keys -> Row],
           CallOK(c, rows, members, volatile, raced, disturbed),
           \A j \in Keys \ {k} : rows'[j] = rows[j],
           volatile \subseteq volatile', raced \subseteq raced', disturbed \subseteq disturbed',
           k \in raced' \/ ~Unsorts(rows'[k], rows[k]) \/ ~Adds(c, k),
           k \in disturbed' \/ Outdates(rows'[k], rows[k])
    PROVE  CallOK(c, rows', members, volatile', raced', disturbed')
<1>0. SUFFICES ASSUME c # Idle
              PROVE  CallOK(c, rows', members, volatile', raced', disturbed')
  BY IdleOK
<1>1. /\ Shape(c) /\ KnowsExpiry(c, volatile) /\ KnowsMembers(c, rows, members, raced)
      /\ KnowsVersion(c, rows, disturbed)
      /\ c.row \in Row /\ c.key \in Keys
  BY <1>0 DEF CallOK, Shape, Call
<1>2. c.key # k => rows'[c.key] = rows[c.key]
  BY <1>1
<1>3. KnowsExpiry(c, volatile')
  BY <1>1 DEF KnowsExpiry
<1>4. KnowsMembers(c, rows', members, raced')
  <2>1. c.at = "select" => c.row.typ # "zset"
    BY <1>1 DEF Shape, NoRow
  <2>2. c.at = "member" => c.op = "zadd"
    BY <1>1 DEF Shape
  <2> QED
    BY <1>1, <1>2, <2>1, <2>2 DEF KnowsMembers, Adds, Unsorts
<1>5. KnowsVersion(c, rows', disturbed')
  <2>1. CASE c.key # k
    BY <1>1, <1>2, <2>1 DEF KnowsVersion
  <2>2. CASE c.key = k
    <3>1. /\ c.row.ver \in Nat /\ rows'[k].ver \in Nat /\ rows[k].ver \in Nat
      BY <1>1, RowTypes
    <3> QED
      BY <1>1, <1>2, <2>2, <3>1 DEF KnowsVersion, Outdates
  <2> QED
    BY <2>1, <2>2
<1> QED
  BY <1>1, <1>3, <1>4, <1>5 DEF CallOK

LEMMA MembersFrame ==
    ASSUME NEW c, NEW k \in Keys,
           CallOK(c, rows, members, volatile, raced, disturbed),
           \A j \in Keys \ {k} : members'[j] = members[j], raced \subseteq raced',
           \/ members'[k] \subseteq members[k]
           \/ c.at \in {"key", "lazykey"} /\ c.key = k => k \in raced'
    PROVE  CallOK(c, rows, members', volatile, raced', disturbed)
<1>0. SUFFICES ASSUME c # Idle
              PROVE  CallOK(c, rows, members', volatile, raced', disturbed)
  BY IdleOK
<1>1. /\ Shape(c) /\ KnowsExpiry(c, volatile) /\ KnowsMembers(c, rows, members, raced)
      /\ KnowsVersion(c, rows, disturbed)
      /\ c.key \in Keys
  BY <1>0 DEF CallOK, Shape
<1>2. c.key # k => members'[c.key] = members[c.key]
  BY <1>1
<1>3. KnowsMembers(c, rows, members', raced')
  BY <1>1, <1>2 DEF KnowsMembers
<1> QED
  BY <1>1, <1>3 DEF CallOK

-----------------------------------------------------------------------------
(* The parts of a step: the tables, the other calls, the call itself *)

(* A call gets its answer, or loses it. *)
LEMMA AnswerOK ==
    ASSUME NEW p \in Procs, NEW ack, NEW next, Answer(p, ack, next), call \in [Procs -> Call],
           NEW R, NEW M, NEW V, NEW A, NEW D,
           \A q \in Procs : CallOK(call[q], R, M, V, A, D),
           \A d \in next : CallOK(d, R, M, V, A, D)
    PROVE  /\ call' \in [Procs -> Call]
           /\ \A q \in Procs : CallOK(call'[q], R, M, V, A, D)
<1>1. CASE call' = call
  BY <1>1
<1>2. CASE call' # call
  <2>1. PICK d \in next \cup {Idle} : call' = [call EXCEPT ![p] = d]
    BY <1>2 DEF Answer
  <2>2. CallOK(d, R, M, V, A, D)
    BY IdleOK
  <2>3. d \in Call
    BY <2>2 DEF CallOK, Shape
  <2>4. call' \in [Procs -> Call]
    BY <2>1, <2>3
  <2>5. ASSUME NEW q \in Procs
        PROVE  CallOK(call'[q], R, M, V, A, D)
    <3>1. call'[q] = IF q = p THEN d ELSE call[q]
      BY <2>1
    <3> QED
      BY <2>2, <3>1
  <2> QED
    BY <2>4, <2>5
<1> QED
  BY <1>1, <1>2

(* The tables stay: a statement that only reads, or has no effect. *)
LEMMA OnlyAnswerOK ==
    ASSUME D1Inv, NEW p \in Procs, NEW ack, NEW next, Answer(p, ack, next),
           \A d \in next : CallOK(d, rows, members, volatile, raced, disturbed),
           UNCHANGED <<rows, members, now, volatile, disturbed, issued, repeated, locks, raced>>
    PROVE  D1Inv'
<1>1. /\ call' \in [Procs -> Call]
      /\ \A q \in Procs : CallOK(call'[q], rows, members, volatile, raced, disturbed)
  BY AnswerOK DEF D1Inv, TypeOK
<1>2. TypeOK'
  BY <1>1 DEF D1Inv, TypeOK
<1> QED
  BY <1>1, <1>2 DEF D1Inv

LEMMA OnlyCallOK ==
    ASSUME D1Inv, NEW p \in Procs, NEW d, call' = [call EXCEPT ![p] = d],
           CallOK(d, rows, members, volatile, raced, disturbed),
           UNCHANGED <<rows, members, now, volatile, disturbed, issued, repeated, locks, raced>>
    PROVE  D1Inv'
<1>1. Answer(p, TRUE, {d})
  BY DEF Answer
<1> QED
  BY <1>1, OnlyAnswerOK

(* A statement writes the row of one key. *)
LEMMA SaveTypes ==
    ASSUME TypeOK, NEW k \in Keys, NEW r \in Row, Save(k, r)
    PROVE  /\ rows' = [rows EXCEPT ![k] = r] /\ rows' \in [Keys -> Row] /\ rows'[k] = r
           /\ volatile \subseteq volatile' /\ volatile' \subseteq Keys
           /\ r.exp # Null => k \in volatile'
BY DEF TypeOK, Save

LEMMA SaveOK ==
    ASSUME D1Inv, NEW p \in Procs, NEW ack, NEW next, Answer(p, ack, next),
           NEW k \in Keys, NEW r \in Row, Save(k, r),
           members' = members, now' = now, repeated' = {},
           raced \subseteq raced', raced' \subseteq Keys,
           disturbed \subseteq disturbed', disturbed' \subseteq Keys,
           issued' \in [Keys -> SUBSET Nat], locks' \in [Keys -> Nat],
           \A j \in Keys \ {k} : issued'[j] = issued[j] /\ locks'[j] = locks[j],
           RowOK(k, rows', members, volatile', raced', disturbed', issued', locks'),
           k \in raced' \/ ~Unsorts(r, rows[k]) \/ ~Adding(k),
           k \in disturbed' \/ Outdates(r, rows[k]),
           \A d \in next : CallOK(d, rows', members, volatile', raced', disturbed')
    PROVE  D1Inv'
<1>1. /\ TypeOK /\ rows \in [Keys -> Row] /\ call \in [Procs -> Call]
      /\ \A j \in Keys : RowOK(j, rows, members, volatile, raced, disturbed, issued, locks)
      /\ \A q \in Procs : CallOK(call[q], rows, members, volatile, raced, disturbed)
  BY DEF D1Inv, TypeOK
<1>2. /\ rows' = [rows EXCEPT ![k] = r] /\ rows' \in [Keys -> Row] /\ rows'[k] = r
      /\ volatile \subseteq volatile' /\ volatile' \subseteq Keys
  BY <1>1, SaveTypes
<1>t. rows[k].ver \in Nat /\ r.ver \in Nat
  BY <1>1, RowTypes
<1>3. \A j \in Keys : RowOK(j, rows', members, volatile', raced', disturbed', issued', locks')
  <2> SUFFICES ASSUME NEW j \in Keys
               PROVE  RowOK(j, rows', members, volatile', raced', disturbed', issued', locks')
    OBVIOUS
  <2>1. CASE j = k
    BY <2>1
  <2>2. CASE j # k
    <3>1. rows'[j] = rows[j] /\ issued'[j] = issued[j] /\ locks'[j] = locks[j]
      BY <1>1, <1>2, <2>2
    <3>2. RowOK(j, rows, members, volatile, raced, disturbed, issued, locks)
      BY <1>1
    <3> QED
      BY <1>2, <3>1, <3>2 DEF RowOK
  <2> QED
    BY <2>1, <2>2
<1>4. \A q \in Procs : CallOK(call[q], rows', members, volatile', raced', disturbed')
  <2> SUFFICES ASSUME NEW q \in Procs
               PROVE  CallOK(call[q], rows', members, volatile', raced', disturbed')
    OBVIOUS
  <2>1. CallOK(call[q], rows, members, volatile, raced, disturbed)
    BY <1>1
  <2>2. k \in raced' \/ ~Unsorts(rows'[k], rows[k]) \/ ~Adds(call[q], k)
    BY <1>2 DEF Adding, Adds
  <2>3. k \in disturbed' \/ Outdates(rows'[k], rows[k])
    BY <1>2
  <2>4. \A j \in Keys \ {k} : rows'[j] = rows[j]
    BY <1>1, <1>2
  <2>5. rows \in [Keys -> Row] /\ rows' \in [Keys -> Row] /\ volatile \subseteq volatile'
    BY <1>1, <1>2
  <2> QED
    BY <2>1, <2>2, <2>3, <2>4, <2>5, RowFrame
<1>5. /\ call' \in [Procs -> Call]
      /\ \A q \in Procs : CallOK(call'[q], rows', members, volatile', raced', disturbed')
  BY <1>1, <1>4, AnswerOK
<1>6. TypeOK'
  BY <1>1, <1>2, <1>5 DEF TypeOK
<1> QED
  BY <1>3, <1>5, <1>6 DEF D1Inv

(* What D1Inv says of the call of a process that is in one. *)
LEMMA CallFacts ==
    ASSUME D1Inv, NEW p \in Procs, call[p].at # "idle"
    PROVE  /\ CallOK(call[p], rows, members, volatile, raced, disturbed)
           /\ call[p] \in Call /\ call[p].key \in Keys /\ call[p].row \in Row
           /\ call[p].row.ver \in Nat /\ call[p].row.val \in Nat /\ call[p].exp \in Nat
<1>1. CallOK(call[p], rows, members, volatile, raced, disturbed)
  BY DEF D1Inv
<1>2. call[p] \in Call /\ call[p].key \in Keys
  BY <1>1 DEF CallOK, Shape, Idle
<1>3. call[p].row \in Row /\ call[p].exp \in Nat
  BY <1>2 DEF Call
<1> QED
  BY <1>1, <1>2, <1>3, RowTypes

-----------------------------------------------------------------------------
(* The steps *)

LEMMA BeginStep ==
    ASSUME D1Inv, NEW p \in Procs, NEW k \in Keys, NEW op \in Ops, NEW arg \in Members \cup Nat,
           NEW opts \in Options, NEW todo \in SUBSET Keys,
           op \in {"set", "expire"} => arg \in Nat, op = "zadd" => arg \in Members,
           op # "del" => todo = {},
           Begin(p, op, k, arg, opts, todo)
    PROVE  D1Inv'
<1>1. PICK a \in {"members", "select"} : a = IF op = "del" THEN "members" ELSE "select"
  OBVIOUS
<1>2. PICK d : d = [op |-> op, at |-> a, key |-> k, row |-> NoRow, exp |-> Null, arg |-> arg,
                    opts |-> opts, todo |-> todo]
  OBVIOUS
<1>3. d \in Call
  BY <1>2, RowTypes DEF Call, Stages, Null
<1>4. /\ d.op = op /\ d.at = a /\ d.key = k /\ d.row = NoRow /\ d.arg = arg /\ d.todo = todo
      /\ d.row.typ = "none" /\ op # "cleanup"
  BY <1>2 DEF NoRow, Ops
<1>5. Shape(d)
  BY <1>1, <1>3, <1>4 DEF Shape
<1>6. KnowsExpiry(d, volatile) /\ KnowsMembers(d, rows, members, raced)
      /\ KnowsVersion(d, rows, disturbed)
  BY <1>1, <1>4 DEF KnowsExpiry, KnowsMembers, KnowsVersion, Present
<1>7. CallOK(d, rows, members, volatile, raced, disturbed)
  BY <1>5, <1>6 DEF CallOK
<1>8. call' = [call EXCEPT ![p] = d]
  BY <1>1, <1>2 DEF Begin
<1> QED
  BY <1>7, <1>8, OnlyCallOK DEF Begin

LEMMA StartStep ==
    ASSUME D1Inv, NEW p \in Procs, Start(p)
    PROVE  D1Inv'
<1>1. NoOpts \in Options /\ SetOpts \subseteq Options /\ Values \subseteq Nat /\ TTLs \subseteq Nat
  BY D1Assumption DEF NoOpts, Options
<1>2. PICK k \in Keys :
        \/ \E op \in {"read", "incr", "persist", "zrem", "zremrange", "getdel"} :
              Begin(p, op, k, 0, NoOpts, {})
        \/ \E v \in Values, opts \in SetOpts : Begin(p, "set", k, v, opts, {})
        \/ \E ttl \in TTLs : Begin(p, "expire", k, ttl, NoOpts, {})
        \/ \E m \in Members : Begin(p, "zadd", k, m, NoOpts, {})
        \/ \E others \in SUBSET (Keys \ {k}) : Begin(p, "del", k, 0, NoOpts, others)
  BY DEF Start
<1>3. CASE \E op \in {"read", "incr", "persist", "zrem", "zremrange", "getdel"} :
              Begin(p, op, k, 0, NoOpts, {})
  BY <1>1, <1>3, BeginStep DEF Ops
<1>4. CASE \E v \in Values, opts \in SetOpts : Begin(p, "set", k, v, opts, {})
  BY <1>1, <1>4, BeginStep DEF Ops
<1>5. CASE \E ttl \in TTLs : Begin(p, "expire", k, ttl, NoOpts, {})
  BY <1>1, <1>5, BeginStep DEF Ops
<1>6. CASE \E m \in Members : Begin(p, "zadd", k, m, NoOpts, {})
  BY <1>1, <1>6, BeginStep DEF Ops
<1>7. CASE \E others \in SUBSET (Keys \ {k}) : Begin(p, "del", k, 0, NoOpts, others)
  BY <1>1, <1>7, BeginStep DEF Ops
<1> QED
  BY <1>2, <1>3, <1>4, <1>5, <1>6, <1>7

LEMMA SelectStep ==
    ASSUME D1Inv, NEW p \in Procs, Select(p)
    PROVE  D1Inv'
<1>1. PICK c : c = call[p]
  OBVIOUS
<1>2. /\ CallOK(c, rows, members, volatile, raced, disturbed) /\ c.at = "select"
      /\ c \in Call /\ c.key \in Keys
  BY <1>1, CallFacts DEF Select
<1>3. rows[c.key] \in Row
  BY <1>2 DEF D1Inv, TypeOK
<1>4. PICK d : d = [c EXCEPT !.at = "judge", !.row = rows[c.key]]
  OBVIOUS
<1>5. d \in Call
  BY <1>2, <1>3, <1>4 DEF Call, Stages
<1>6. /\ d.op = c.op /\ d.at = "judge" /\ d.key = c.key /\ d.row = rows[c.key] /\ d.arg = c.arg
      /\ d.todo = c.todo
  BY <1>2, <1>4 DEF Call
<1>7. Shape(d)
  BY <1>2, <1>5, <1>6 DEF CallOK, Shape
<1>8. KnowsExpiry(d, volatile)
  <2>1. rows[c.key].exp # Null => c.key \in volatile
    BY <1>2 DEF D1Inv, RowOK
  <2> QED
    BY <1>2, <1>6, <2>1 DEF CallOK, Shape, KnowsExpiry
<1>9. KnowsMembers(d, rows, members, raced)
  BY <1>6 DEF KnowsMembers
<1>10. KnowsVersion(d, rows, disturbed)
  BY <1>3, <1>6, RowTypes DEF KnowsVersion
<1>11. CallOK(d, rows, members, volatile, raced, disturbed)
  BY <1>7, <1>8, <1>9, <1>10 DEF CallOK
<1>12. call' = [call EXCEPT ![p] = d]
  BY <1>1, <1>4 DEF Select, D1Inv, TypeOK
<1> QED
  BY <1>11, <1>12, OnlyCallOK DEF Select

LEMMA JudgeStep ==
    ASSUME D1Inv, NEW p \in Procs, Judge(p)
    PROVE  D1Inv'
<1>1. PICK c : c = call[p]
  OBVIOUS
<1>2. /\ CallOK(c, rows, members, volatile, raced, disturbed) /\ c.at = "judge"
      /\ c \in Call /\ c.key \in Keys
  BY <1>1, CallFacts DEF Judge
<1>3. now \in Nat /\ call \in [Procs -> Call]
  BY DEF D1Inv, TypeOK
<1>4. CASE Expired(c.row)
  <2>1. PICK d : d = [c EXCEPT !.at = "lazymembers", !.row = NoRow]
    OBVIOUS
  <2>2. d \in Call
    BY <1>2, <2>1, RowTypes DEF Call, Stages
  <2>3. /\ d.op = c.op /\ d.at = "lazymembers" /\ d.key = c.key /\ d.row = NoRow /\ d.arg = c.arg
        /\ d.todo = c.todo /\ d.row.typ = "none"
    BY <1>2, <2>1 DEF Call, NoRow
  <2>4. Shape(d)
    BY <1>2, <2>2, <2>3 DEF CallOK, Shape
  <2>5. KnowsExpiry(d, volatile)
    BY <1>2, <1>4, <2>3 DEF CallOK, Shape, KnowsExpiry, Expired
  <2>6. KnowsMembers(d, rows, members, raced) /\ KnowsVersion(d, rows, disturbed)
    BY <2>3 DEF KnowsMembers, KnowsVersion, Present
  <2>7. CallOK(d, rows, members, volatile, raced, disturbed)
    BY <2>4, <2>5, <2>6 DEF CallOK
  <2>8. call' = [call EXCEPT ![p] = d]
    BY <1>1, <1>4, <2>1 DEF Judge
  <2> QED
    BY <2>7, <2>8, OnlyCallOK DEF Judge
<1>5. CASE ~Expired(c.row)
  <2>1. call' = [call EXCEPT ![p] = LookedUp(c)]
    BY <1>1, <1>5 DEF Judge
  <2>2. CallOK(LookedUp(c), rows, members, volatile, raced, disturbed)
    BY <1>2, <1>3, LookedUpOK
  <2> QED
    BY <2>1, <2>2, OnlyCallOK DEF Judge
<1> QED
  BY <1>4, <1>5

LEMMA LazyFailsStep ==
    ASSUME D1Inv, NEW p \in Procs, LazyFails(p)
    PROVE  D1Inv'
<1>1. /\ CallOK(call[p], rows, members, volatile, raced, disturbed)
      /\ call[p].at \in {"lazymembers", "lazykey"}
  BY CallFacts DEF LazyFails
<1>2. now \in Nat
  BY DEF D1Inv, TypeOK
<1>3. CallOK(LookedUp(call[p]), rows, members, volatile, raced, disturbed)
  BY <1>1, <1>2, LookedUpOK
<1>4. call' = [call EXCEPT ![p] = LookedUp(call[p])]
  BY DEF LazyFails
<1> QED
  BY <1>3, <1>4, OnlyCallOK DEF LazyFails

LEMMA FailStep ==
    ASSUME D1Inv, NEW p \in Procs, Fail(p)
    PROVE  D1Inv'
<1>1. CallOK(Idle, rows, members, volatile, raced, disturbed)
  BY IdleOK
<1> QED
  BY <1>1, OnlyCallOK DEF Fail

LEMMA CleanupSelectStep ==
    ASSUME D1Inv, NEW p \in Procs, CleanupSelect(p)
    PROVE  D1Inv'
<1>1. PICK dead \in SUBSET {k \in Keys : Present(rows[k]) /\ Expired(rows[k])} :
          \E c \in NextKey([Idle EXCEPT !.op = "cleanup", !.todo = dead]) :
             call' = [call EXCEPT ![p] = c]
  BY DEF CleanupSelect
<1>2. PICK b : b = [Idle EXCEPT !.op = "cleanup", !.todo = dead]
  OBVIOUS
<1>3. PICK c \in NextKey(b) : call' = [call EXCEPT ![p] = c]
  BY <1>1, <1>2
<1>4. b \in Call /\ b.op = "cleanup" /\ b.todo = dead /\ b.row = NoRow
  BY <1>2, IdleIsCall DEF Call, Idle
<1>5. dead \subseteq volatile
  BY DEF D1Inv, RowOK, Expired
<1>6. CallOK(c, rows, members, volatile, raced, disturbed)
  BY <1>3, <1>4, <1>5, NextKeyOK
<1> QED
  BY <1>3, <1>6, OnlyCallOK DEF CleanupSelect

LEMMA TickStep ==
    ASSUME D1Inv, Tick
    PROVE  D1Inv'
<1>1. now' \in Nat
  BY DEF Tick, D1Inv, TypeOK
<1>2. TypeOK'
  BY <1>1 DEF Tick, D1Inv, TypeOK
<1> QED
  BY <1>2 DEF Tick, D1Inv

(* A statement that changes the members of one key. *)
LEMMA MembersOK ==
    ASSUME D1Inv, NEW p \in Procs, NEW ack, NEW next, Answer(p, ack, next),
           NEW k \in Keys, members' \in [Keys -> SUBSET Members],
           \A j \in Keys \ {k} : members'[j] = members[j],
           raced \subseteq raced', raced' \subseteq Keys,
           members'[k] \subseteq members[k] \/ k \in raced' \/ (rows[k].typ = "zset" /\ ~Removing(k)),
           UNCHANGED <<rows, now, volatile, disturbed, issued, repeated, locks>>,
           \A d \in next : CallOK(d, rows, members', volatile, raced', disturbed)
    PROVE  D1Inv'
<1>1. /\ TypeOK /\ members \in [Keys -> SUBSET Members] /\ call \in [Procs -> Call]
      /\ \A j \in Keys : RowOK(j, rows, members, volatile, raced, disturbed, issued, locks)
      /\ \A q \in Procs : CallOK(call[q], rows, members, volatile, raced, disturbed)
  BY DEF D1Inv, TypeOK
<1>2. ASSUME NEW j \in Keys
      PROVE  RowOK(j, rows, members', volatile, raced', disturbed, issued, locks)
  <2>1. RowOK(j, rows, members, volatile, raced, disturbed, issued, locks)
    BY <1>1
  <2>2. members'[j] # {} => j \in raced' \/ rows[j].typ = "zset"
    <3>1. CASE j = k
      BY <2>1, <3>1 DEF RowOK
    <3>2. CASE j # k
      BY <2>1, <3>2 DEF RowOK
    <3> QED
      BY <3>1, <3>2
  <2> QED
    BY <2>1, <2>2 DEF RowOK
<1>3. ASSUME NEW q \in Procs
      PROVE  CallOK(call[q], rows, members', volatile, raced', disturbed)
  <2>1. CallOK(call[q], rows, members, volatile, raced, disturbed)
    BY <1>1
  <2>2. \/ members'[k] \subseteq members[k]
        \/ call[q].at \in {"key", "lazykey"} /\ call[q].key = k => k \in raced'
    BY DEF Removing
  <2> QED
    BY <2>1, <2>2, MembersFrame
<1>4. /\ call' \in [Procs -> Call]
      /\ \A q \in Procs : CallOK(call'[q], rows, members', volatile, raced', disturbed)
  BY <1>1, <1>3, AnswerOK
<1>5. TypeOK'
  BY <1>1, <1>4 DEF TypeOK
<1> QED
  BY <1>2, <1>4, <1>5 DEF D1Inv

LEMMA DropMembersStep ==
    ASSUME D1Inv, NEW p \in Procs, NEW ack \in BOOLEAN, DropMembers(p, ack)
    PROVE  D1Inv'
<1>1. PICK c : c = call[p]
  OBVIOUS
<1>2. /\ CallOK(c, rows, members, volatile, raced, disturbed)
      /\ c \in Call /\ c.key \in Keys /\ c.at \in {"members", "lazymembers"}
  BY <1>1, CallFacts DEF DropMembers
<1>3. members' = [members EXCEPT ![c.key] = {}]
  BY <1>1 DEF DropMembers
<1>4. PICK a : a = IF c.at = "members" THEN "key" ELSE "lazykey"
  OBVIOUS
<1>5. PICK d : d = [c EXCEPT !.at = a]
  OBVIOUS
<1>6. Answer(p, ack, {d})
  <2>1. d = [c EXCEPT !.at = IF @ = "members" THEN "key" ELSE "lazykey"]
    BY <1>2, <1>4, <1>5 DEF Call
  <2> QED
    BY <1>1, <2>1 DEF DropMembers
<1>7. /\ members'[c.key] = {} /\ \A j \in Keys \ {c.key} : members'[j] = members[j]
      /\ members'[c.key] \subseteq members[c.key] /\ raced' = raced
  BY <1>2, <1>3 DEF D1Inv, TypeOK, DropMembers
<1>8. CallOK(c, rows, members', volatile, raced', disturbed)
  BY <1>2, <1>7, MembersFrame
<1>9. CallOK(d, rows, members', volatile, raced', disturbed)
  BY <1>2, <1>4, <1>5, <1>7, <1>8, MovedOK
<1>10. raced' \subseteq Keys /\ members' \in [Keys -> SUBSET Members]
  BY <1>2, <1>3, <1>7 DEF D1Inv, TypeOK
<1>11. UNCHANGED <<rows, now, volatile, disturbed, issued, repeated, locks>>
  BY DEF DropMembers
<1> QED
  BY <1>2, <1>6, <1>7, <1>9, <1>10, <1>11, MembersOK

LEMMA ZAddMemberStep ==
    ASSUME D1Inv, NEW p \in Procs, NEW ack \in BOOLEAN, ZAddMember(p, ack)
    PROVE  D1Inv'
<1>1. PICK c : c = call[p]
  OBVIOUS
<1>2. /\ CallOK(c, rows, members, volatile, raced, disturbed) /\ c.at = "member"
      /\ c.key \in Keys
  BY <1>1, CallFacts DEF ZAddMember
<1>3. c.arg \in Members /\ (c.key \in raced \/ rows[c.key].typ = "zset")
  BY <1>2 DEF CallOK, Shape, KnowsMembers
<1>4. PICK m : m = members[c.key] \cup {c.arg}
  OBVIOUS
<1>5. members' = [members EXCEPT ![c.key] = m] /\ m \in SUBSET Members
  BY <1>1, <1>2, <1>3, <1>4 DEF ZAddMember, D1Inv, TypeOK
<1>6. /\ raced \subseteq raced' /\ raced' \subseteq Keys
      /\ c.key \in raced' \/ (rows[c.key].typ = "zset" /\ ~Removing(c.key))
  BY <1>1, <1>2, <1>3 DEF ZAddMember, D1Inv, TypeOK
<1>7. \A d \in {Idle} : CallOK(d, rows, members', volatile, raced', disturbed)
  BY IdleOK
<1>8. /\ members' \in [Keys -> SUBSET Members]
      /\ \A j \in Keys \ {c.key} : members'[j] = members[j]
  BY <1>2, <1>5 DEF D1Inv, TypeOK
<1>9. Answer(p, ack, {Idle}) /\ UNCHANGED <<rows, now, volatile, disturbed, issued, repeated, locks>>
  BY DEF ZAddMember
<1> QED
  BY <1>2, <1>6, <1>7, <1>8, <1>9, MembersOK

LEMMA ZRemMembersStep ==
    ASSUME D1Inv, NEW p \in Procs, NEW ack \in BOOLEAN, ZRemMembers(p, ack)
    PROVE  D1Inv'
<1>1. PICK c : c = call[p]
  OBVIOUS
<1>2. /\ CallOK(c, rows, members, volatile, raced, disturbed)
      /\ c.at = "write" /\ c.op \in {"zrem", "zremrange"} /\ c.key \in Keys
  BY <1>1, CallFacts DEF ZRemMembers, Writing
<1>3. PICK gone \in SUBSET members[c.key] :
          /\ members' = [members EXCEPT ![c.key] = members[c.key] \ gone]
          /\ \E a \in {0, 1, c.arg} : \E next \in SUBSET {Idle, [c EXCEPT !.arg = a],
                                              [[c EXCEPT !.arg = a] EXCEPT !.at = "bump"]} :
                Answer(p, ack, next)
  BY <1>1 DEF ZRemMembers
<1>4. PICK m : m = members[c.key] \ gone
  OBVIOUS
<1>5. /\ members' = [members EXCEPT ![c.key] = m] /\ m \in SUBSET Members
      /\ m \subseteq members[c.key] /\ members \in [Keys -> SUBSET Members]
  BY <1>2, <1>3, <1>4 DEF D1Inv, TypeOK
<1>6. /\ members'[c.key] \subseteq members[c.key] /\ raced' = raced /\ raced' \subseteq Keys
      /\ \A j \in Keys \ {c.key} : members'[j] = members[j]
  BY <1>2, <1>5 DEF D1Inv, TypeOK, ZRemMembers
<1>7. CallOK(c, rows, members', volatile, raced', disturbed)
  BY <1>2, <1>6, MembersFrame
<1>8. ASSUME NEW a \in {0, 1, c.arg}
      PROVE  /\ CallOK([c EXCEPT !.arg = a], rows, members', volatile, raced', disturbed)
             /\ CallOK([[c EXCEPT !.arg = a] EXCEPT !.at = "bump"], rows, members', volatile,
                       raced', disturbed)
  <2>1. PICK d : d = [c EXCEPT !.arg = a]
    OBVIOUS
  <2>2. CallOK(d, rows, members', volatile, raced', disturbed) /\ d.at = "write" /\ d.op = c.op
    BY <1>2, <1>7, <2>1, CountedOK
  <2>3. CallOK([d EXCEPT !.at = "bump"], rows, members', volatile, raced', disturbed)
    BY <1>2, <2>2, MovedOK
  <2> QED
    BY <2>1, <2>2, <2>3
<1>9. PICK next : /\ Answer(p, ack, next)
                  /\ \A d \in next : CallOK(d, rows, members', volatile, raced', disturbed)
  <2>1. PICK a \in {0, 1, c.arg} : \E next \in SUBSET {Idle, [c EXCEPT !.arg = a],
                                              [[c EXCEPT !.arg = a] EXCEPT !.at = "bump"]} :
                Answer(p, ack, next)
    BY <1>3
  <2>2. PICK d, e : d = [c EXCEPT !.arg = a] /\ e = [[c EXCEPT !.arg = a] EXCEPT !.at = "bump"]
    OBVIOUS
  <2>3. PICK next \in SUBSET {Idle, d, e} : Answer(p, ack, next)
    BY <2>1, <2>2
  <2>4. \A x \in {Idle, d, e} : CallOK(x, rows, members', volatile, raced', disturbed)
    <3>1. CallOK([c EXCEPT !.arg = a], rows, members', volatile, raced', disturbed)
      BY <1>8
    <3>2. CallOK([[c EXCEPT !.arg = a] EXCEPT !.at = "bump"], rows, members', volatile, raced',
                 disturbed)
      BY <1>8
    <3>3. CallOK(Idle, rows, members', volatile, raced', disturbed)
      BY IdleOK
    <3> QED
      BY <2>2, <3>1, <3>2, <3>3
  <2> QED
    BY <2>3, <2>4
<1>10. members' \in [Keys -> SUBSET Members] /\ UNCHANGED <<rows, now, volatile, disturbed, issued, repeated, locks>>
  BY <1>2, <1>5 DEF ZRemMembers
<1> QED
  BY <1>2, <1>6, <1>9, <1>10, MembersOK

(* A version moved without its guard: nothing is claimed of the key. *)
LEMMA DisturbFacts ==
    ASSUME D1Inv, NEW k \in Keys, Disturb(k)
    PROVE  /\ disturbed \subseteq disturbed' /\ disturbed' \subseteq Keys
           /\ issued' \in [Keys -> SUBSET Nat] /\ \A j \in Keys \ {k} : issued'[j] = issued[j]
           /\ Present(rows[k]) => k \in disturbed'
           /\ k \notin disturbed' => issued'[k] = {}
<1>1. /\ disturbed \subseteq Keys /\ issued \in [Keys -> SUBSET Nat]
      /\ k \notin disturbed /\ ~Present(rows[k]) => issued[k] = {}
  BY DEF D1Inv, TypeOK, RowOK
<1>2. CASE Present(rows[k])
  BY <1>1, <1>2 DEF Disturb
<1>3. CASE ~Present(rows[k])
  BY <1>1, <1>3 DEF Disturb
<1> QED
  BY <1>2, <1>3

(* What D1Inv says of the row of a key. *)
LEMMA RowFacts ==
    ASSUME D1Inv, NEW k \in Keys
    PROVE  /\ rows[k] \in Row /\ rows[k].ver \in Nat /\ rows[k].val \in Nat
           /\ locks[k] \in Nat /\ locks[k] <= 1 /\ (locks[k] = 1 => Present(rows[k]))
           /\ members[k] # {} => k \in raced \/ rows[k].typ = "zset"
           /\ issued[k] \subseteq Nat
           /\ k \notin disturbed => /\ ~Present(rows[k]) => issued[k] = {}
                                    /\ \A n \in issued[k] : n <= rows[k].val
<1>1. rows[k] \in Row /\ locks[k] \in Nat /\ issued[k] \subseteq Nat
  BY DEF D1Inv, TypeOK
<1>2. RowOK(k, rows, members, volatile, raced, disturbed, issued, locks)
  BY DEF D1Inv
<1> QED
  BY <1>1, <1>2, RowTypes DEF RowOK

LEMMA DropKeyStep ==
    ASSUME D1Inv, NEW p \in Procs, NEW ack \in BOOLEAN, DropKey(p, ack)
    PROVE  D1Inv'
<1>1. PICK c, k : c = call[p] /\ k = c.key
  OBVIOUS
<1>2. /\ CallOK(c, rows, members, volatile, raced, disturbed) /\ c \in Call
      /\ k \in Keys /\ c.at \in {"key", "lazykey"}
  BY <1>1, CallFacts DEF DropKey
<1>3. Save(k, NoRow) /\ Disturb(k) /\ NoRow \in Row /\ NoRow.exp = Null /\ ~Present(NoRow)
  BY <1>1, RowTypes DEF DropKey, NoRow, Present
<1>4. /\ members' = members /\ now' = now /\ repeated' = {}
      /\ raced \subseteq raced' /\ raced' \subseteq Keys /\ (Adding(k) => k \in raced')
  BY <1>1, <1>2 DEF DropKey, D1Inv, TypeOK
<1>5. locks' \in [Keys -> Nat] /\ locks'[k] = 0 /\ \A j \in Keys \ {k} : locks'[j] = locks[j]
  BY <1>1, <1>2 DEF DropKey, D1Inv, TypeOK
<1>6. /\ disturbed \subseteq disturbed' /\ disturbed' \subseteq Keys
      /\ issued' \in [Keys -> SUBSET Nat] /\ \A j \in Keys \ {k} : issued'[j] = issued[j]
      /\ Present(rows[k]) => k \in disturbed'
      /\ k \notin disturbed' => issued'[k] = {}
  BY <1>2, <1>3, DisturbFacts
<1>7. /\ rows \in [Keys -> Row] /\ rows' \in [Keys -> Row] /\ rows'[k] = NoRow
      /\ volatile \subseteq volatile' /\ \A j \in Keys \ {k} : rows'[j] = rows[j]
  <2>1. TypeOK /\ rows \in [Keys -> Row]
    BY DEF D1Inv, TypeOK
  <2> QED
    BY <1>2, <1>3, <2>1, SaveTypes
<1>8. k \in disturbed' \/ Outdates(NoRow, rows[k])
  BY <1>6 DEF Outdates
<1>9. RowOK(k, rows', members, volatile', raced', disturbed', issued', locks')
  <2>1. members[k] # {} => k \in raced'
    BY <1>1, <1>2, <1>4 DEF CallOK, KnowsMembers
  <2> QED
    BY <1>3, <1>5, <1>6, <1>7, <2>1 DEF RowOK
<1>10. k \in raced' \/ ~Unsorts(NoRow, rows[k]) \/ ~Adding(k)
  BY <1>4
<1>11. PICK next : /\ Answer(p, ack, next)
                   /\ \A d \in next : CallOK(d, rows', members, volatile', raced', disturbed')
  <2>1. CASE c.at = "key"
    <3>1. /\ c.op \in {"del", "cleanup"} \/ c.todo = {}
          /\ c.row = NoRow \/ c.todo = {}
          /\ c.op = "cleanup" => c.todo \subseteq volatile'
      BY <1>2, <1>7, <2>1 DEF CallOK, Shape, KnowsExpiry
    <3>2. \A d \in NextKey(c) : CallOK(d, rows', members, volatile', raced', disturbed')
      BY <1>2, <3>1, NextKeyOK
    <3> QED
      BY <1>1, <2>1, <3>2 DEF DropKey
  <2>2. CASE c.at = "lazykey"
    <3>1. k \in raced' \/ ~Unsorts(rows'[k], rows[k]) \/ ~Adds(c, k)
      BY <1>1, <1>4 DEF Adding, Adds
    <3>2. k \in disturbed' \/ Outdates(rows'[k], rows[k])
      BY <1>7, <1>8
    <3>3. CallOK(c, rows', members, volatile', raced', disturbed')
      BY <1>2, <1>4, <1>6, <1>7, <3>1, <3>2, RowFrame
    <3>4. now \in Nat
      BY DEF D1Inv, TypeOK
    <3>5. CallOK(LookedUp(c), rows', members, volatile', raced', disturbed')
      BY <2>2, <3>3, <3>4, LookedUpOK
    <3> QED
      BY <1>1, <2>2, <3>5 DEF DropKey
  <2> QED
    BY <1>2, <2>1, <2>2
<1>12. \A j \in Keys \ {k} : issued'[j] = issued[j] /\ locks'[j] = locks[j]
  BY <1>5, <1>6
<1> QED
  BY <1>2, <1>3, <1>4, <1>5, <1>6, <1>8, <1>9, <1>10, <1>11, <1>12, SaveOK

(* What SET writes. *)
LEMMA WrittenFacts ==
    ASSUME D1Inv, NEW p \in Procs, Writing(p, "set"), SetRow(call[p])
    PROVE  \E k \in Keys, r \in Row :
              /\ k = call[p].key /\ r.typ = "string" /\ r.ver = call[p].row.ver + 1
              /\ call[p].row.ver \in Nat
              /\ Save(k, r) /\ raced \subseteq raced' /\ raced' \subseteq Keys
              /\ rows[k].typ = "zset" => k \in raced'
<1>1. PICK c : c = call[p]
  OBVIOUS
<1>2. /\ CallOK(c, rows, members, volatile, raced, disturbed)
      /\ c.key \in Keys /\ c.op = "set" /\ c.row.ver \in Nat /\ c.exp \in Nat
  BY <1>1, CallFacts DEF Writing
<1>3. c.arg \in Nat /\ c.row.ver + 1 \in Nat
  BY <1>2 DEF CallOK, Shape
<1>4. PICK r : r = [typ |-> "string", val |-> c.arg, exp |-> c.exp, ver |-> c.row.ver + 1]
  OBVIOUS
<1>5. r \in Row /\ r = Written(c)
  BY <1>2, <1>3, <1>4, RowTypes DEF Written
<1>6. r.typ = "string" /\ r.ver = c.row.ver + 1
  BY <1>4
<1>7. /\ Save(c.key, r) /\ raced \subseteq raced' /\ raced' \subseteq Keys
      /\ rows[c.key].typ = "zset" => c.key \in raced'
  BY <1>1, <1>2, <1>5 DEF SetRow, D1Inv, TypeOK
<1> QED
  BY <1>1, <1>2, <1>5, <1>6, <1>7

(* SET, however it found the row. *)
LEMMA SetRowStep ==
    ASSUME D1Inv, NEW p \in Procs, NEW ack \in BOOLEAN, NEW k \in Keys, NEW r \in Row,
           r.typ = "string", Save(k, r),
           raced \subseteq raced', raced' \subseteq Keys, rows[k].typ = "zset" => k \in raced',
           Answer(p, ack, {Idle}), members' = members, now' = now, repeated' = repeated,
           disturbed \subseteq disturbed', disturbed' \subseteq Keys,
           issued' \in [Keys -> SUBSET Nat], locks' \in [Keys -> Nat],
           \A j \in Keys \ {k} : issued'[j] = issued[j] /\ locks'[j] = locks[j],
           locks'[k] \in {0, 1}, k \notin disturbed' => issued'[k] = {},
           k \in disturbed' \/ Outdates(r, rows[k])
    PROVE  D1Inv'
<1>1. repeated' = {}
  BY DEF D1Inv
<1>2. members[k] # {} => k \in raced \/ rows[k].typ = "zset"
  BY RowFacts
<1>3. k \in raced' \/ ~Unsorts(r, rows[k]) \/ ~Adding(k)
  BY DEF Unsorts
<1>4. RowOK(k, rows', members, volatile', raced', disturbed', issued', locks')
  <2>1. TypeOK
    BY DEF D1Inv
  <2>2. rows'[k] = r /\ (r.exp # Null => k \in volatile')
    BY <2>1, SaveTypes
  <2>3. Present(r) /\ r.val \in Nat
    BY RowTypes DEF Present
  <2> QED
    BY <1>2, <2>2, <2>3 DEF RowOK
<1>5. \A d \in {Idle} : CallOK(d, rows', members, volatile', raced', disturbed')
  BY IdleOK
<1> QED
  BY <1>1, <1>3, <1>4, <1>5, SaveOK

LEMMA SetInsertStep ==
    ASSUME D1Inv, NEW p \in Procs, NEW ack \in BOOLEAN, SetInsert(p, ack)
    PROVE  D1Inv'
<1>1. PICK k \in Keys, r \in Row :
              /\ k = call[p].key /\ r.typ = "string" /\ r.ver = call[p].row.ver + 1
              /\ call[p].row.ver \in Nat
              /\ Save(k, r) /\ raced \subseteq raced' /\ raced' \subseteq Keys
              /\ rows[k].typ = "zset" => k \in raced'
  BY WrittenFacts DEF SetInsert
<1>2. ~Present(rows[k])
  BY <1>1, CallFacts DEF SetInsert, Writing
<1>3. locks[k] = 0 /\ locks \in [Keys -> Nat]
  BY <1>2, RowFacts DEF D1Inv, TypeOK
<1>4. /\ locks' \in [Keys -> Nat] /\ locks'[k] \in {0, 1} /\ \A j \in Keys \ {k} : locks'[j] = locks[j]
  BY <1>1, <1>2, <1>3 DEF SetInsert
<1>5. /\ issued' \in [Keys -> SUBSET Nat] /\ issued'[k] = {}
      /\ \A j \in Keys \ {k} : issued'[j] = issued[j]
  BY <1>1, <1>2 DEF SetInsert, D1Inv, TypeOK
<1>6. disturbed' = disturbed /\ disturbed \subseteq Keys
  BY DEF SetInsert, D1Inv, TypeOK
<1>7. /\ Answer(p, ack, {Idle})
      /\ members' = members /\ now' = now /\ repeated' = repeated
  BY DEF SetInsert
<1>8. k \in disturbed' \/ Outdates(r, rows[k])
  BY <1>1, <1>2 DEF Outdates, Present
<1> QED
  BY <1>1, <1>2, <1>4, <1>5, <1>6, <1>7, <1>8, SetRowStep

LEMMA SetUpdateStep ==
    ASSUME D1Inv, NEW p \in Procs, NEW ack \in BOOLEAN, SetUpdate(p, ack)
    PROVE  D1Inv'
<1>1. PICK k \in Keys, r \in Row :
              /\ k = call[p].key /\ r.typ = "string" /\ r.ver = call[p].row.ver + 1
              /\ call[p].row.ver \in Nat
              /\ Save(k, r) /\ raced \subseteq raced' /\ raced' \subseteq Keys
              /\ rows[k].typ = "zset" => k \in raced'
  BY WrittenFacts DEF SetUpdate
<1>2. rows[k].ver = call[p].row.ver
  BY <1>1, CallFacts DEF SetUpdate, Writing, Guarded
<1>3. locks[k] \in Nat /\ locks[k] <= 1
  BY RowFacts
<1>4. /\ locks' = locks /\ locks \in [Keys -> Nat] /\ locks[k] \in {0, 1}
  BY <1>3 DEF SetUpdate, D1Inv, TypeOK
<1>5. /\ issued' \in [Keys -> SUBSET Nat] /\ issued'[k] = {}
      /\ \A j \in Keys \ {k} : issued'[j] = issued[j]
  BY <1>1, <1>2 DEF SetUpdate, D1Inv, TypeOK
<1>6. disturbed' = disturbed /\ disturbed \subseteq Keys
  BY DEF SetUpdate, D1Inv, TypeOK
<1>7. /\ Answer(p, ack, {Idle})
      /\ members' = members /\ now' = now /\ repeated' = repeated
  BY DEF SetUpdate
<1>8. k \in disturbed' \/ Outdates(r, rows[k])
  BY <1>1, <1>2 DEF Outdates, Present
<1> QED
  BY <1>1, <1>2, <1>4, <1>5, <1>6, <1>7, <1>8, SetRowStep

LEMMA SetUpsertStep ==
    ASSUME D1Inv, NEW p \in Procs, NEW ack \in BOOLEAN, SetUpsert(p, ack)
    PROVE  D1Inv'
<1>1. PICK k \in Keys, r \in Row :
              /\ k = call[p].key /\ r.typ = "string" /\ r.ver = call[p].row.ver + 1
              /\ call[p].row.ver \in Nat
              /\ Save(k, r) /\ raced \subseteq raced' /\ raced' \subseteq Keys
              /\ rows[k].typ = "zset" => k \in raced'
  BY WrittenFacts DEF SetUpsert
<1>2. Disturb(k)
  BY <1>1, CallFacts DEF SetUpsert, Writing
<1>3. locks[k] \in Nat /\ locks[k] <= 1
  BY RowFacts
<1>4. /\ locks' = locks /\ locks \in [Keys -> Nat] /\ locks[k] \in {0, 1}
  BY <1>3 DEF SetUpsert, D1Inv, TypeOK
<1>5. /\ disturbed \subseteq disturbed' /\ disturbed' \subseteq Keys
      /\ issued' \in [Keys -> SUBSET Nat] /\ \A j \in Keys \ {k} : issued'[j] = issued[j]
      /\ Present(rows[k]) => k \in disturbed'
      /\ k \notin disturbed' => issued'[k] = {}
  BY <1>2, DisturbFacts
<1>7. /\ Answer(p, ack, {Idle})
      /\ members' = members /\ now' = now /\ repeated' = repeated
  BY DEF SetUpsert
<1>8. k \in disturbed' \/ Outdates(r, rows[k])
  BY <1>1, <1>2, <1>5 DEF Outdates, Present
<1> QED
  BY <1>1, <1>2, <1>4, <1>5, <1>7, <1>8, SetRowStep

(* INCR returned n, greater than every number it returned before. *)
LEMMA IssueFacts ==
    ASSUME D1Inv, NEW k \in Keys, NEW n \in Nat, NEW ack \in BOOLEAN, Issue(k, n, ack),
           k \notin disturbed => \A i \in issued[k] : i < n
    PROVE  /\ repeated' = {} /\ issued' \in [Keys -> SUBSET Nat]
           /\ \A j \in Keys \ {k} : issued'[j] = issued[j]
           /\ k \notin disturbed => \A i \in issued'[k] : i <= n
<1>1. repeated = {} /\ issued \in [Keys -> SUBSET Nat] /\ issued[k] \subseteq Nat
  BY DEF D1Inv, TypeOK
<1>2. CASE ack /\ k \notin disturbed
  <2>1. n \notin issued[k]
    BY <1>1, <1>2
  <2>2. issued' = [issued EXCEPT ![k] = issued[k] \cup {n}] /\ repeated' = {}
    BY <1>1, <1>2, <2>1 DEF Issue
  <2>3. issued'[k] = issued[k] \cup {n}
    BY <1>1, <2>2
  <2> QED
    BY <1>1, <1>2, <2>2, <2>3
<1>3. CASE ~(ack /\ k \notin disturbed)
  <2>1. issued' = issued /\ repeated' = repeated
    BY <1>3 DEF Issue
  <2> QED
    BY <1>1, <2>1
<1> QED
  BY <1>2, <1>3

(* INCR, of a row that was there or not. *)
LEMMA IncrStep ==
    ASSUME D1Inv, NEW p \in Procs, NEW ack \in BOOLEAN, NEW k \in Keys, NEW r \in Row, Save(k, r),
           Present(r), Answer(p, ack, {Idle}), Issue(k, r.val, ack), r.typ = rows[k].typ \/ ~Present(rows[k]),
           Outdates(r, rows[k]), k \notin disturbed /\ Present(rows[k]) => r.val = rows[k].val + 1,
           UNCHANGED <<members, now, disturbed, locks, raced>>
    PROVE  D1Inv'
<1>1. r.val \in Nat
  BY RowTypes
<1>2. /\ rows[k].val \in Nat /\ rows[k].ver \in Nat /\ issued[k] \subseteq Nat
      /\ locks[k] \in Nat /\ locks[k] <= 1
      /\ members[k] # {} => k \in raced \/ rows[k].typ = "zset"
      /\ k \notin disturbed => /\ ~Present(rows[k]) => issued[k] = {}
                               /\ \A n \in issued[k] : n <= rows[k].val
  BY RowFacts
<1>3. k \notin disturbed => \A i \in issued[k] : i < r.val
  BY <1>1, <1>2
<1>4. /\ repeated' = {} /\ issued' \in [Keys -> SUBSET Nat]
      /\ \A j \in Keys \ {k} : issued'[j] = issued[j]
      /\ k \notin disturbed => \A i \in issued'[k] : i <= r.val
  BY <1>1, <1>3, IssueFacts
<1>5. /\ locks' = locks /\ locks \in [Keys -> Nat] /\ raced' = raced /\ raced \subseteq Keys
      /\ disturbed' = disturbed /\ disturbed \subseteq Keys /\ members' = members /\ now' = now
  BY DEF D1Inv, TypeOK
<1>6. ~Unsorts(r, rows[k])
  BY DEF Unsorts, Present
<1>7. RowOK(k, rows', members, volatile', raced', disturbed', issued', locks')
  <2>1. TypeOK
    BY DEF D1Inv
  <2>2. rows'[k] = r /\ (r.exp # Null => k \in volatile')
    BY <2>1, SaveTypes
  <2>3. members[k] # {} => k \in raced \/ r.typ = "zset"
    BY <1>2 DEF Present
  <2> QED
    BY <1>1, <1>2, <1>4, <1>5, <2>2, <2>3 DEF RowOK
<1>8. \A d \in {Idle} : CallOK(d, rows', members, volatile', raced', disturbed')
  BY IdleOK
<1>9. \A j \in Keys \ {k} : issued'[j] = issued[j] /\ locks'[j] = locks[j]
  BY <1>4, <1>5
<1> QED
  BY <1>4, <1>5, <1>6, <1>7, <1>8, <1>9, SaveOK

LEMMA IncrUpdateStep ==
    ASSUME D1Inv, NEW p \in Procs, NEW ack \in BOOLEAN, IncrUpdate(p, ack)
    PROVE  D1Inv'
<1>1. PICK c, k : c = call[p] /\ k = c.key
  OBVIOUS
<1>2. /\ CallOK(c, rows, members, volatile, raced, disturbed) /\ k \in Keys
      /\ c.row.ver \in Nat /\ c.row.val \in Nat /\ Present(c.row)
      /\ Present(rows[k]) /\ rows[k].ver = c.row.ver
  BY <1>1, CallFacts DEF IncrUpdate, Writing, Guarded, Found
<1>3. rows[k] \in Row /\ rows[k].val \in Nat
  BY <1>2, RowFacts
<1>4. PICK r : r = [rows[k] EXCEPT !.val = c.row.val + 1, !.ver = c.row.ver + 1]
  OBVIOUS
<1>5. /\ r \in Row /\ r.typ = rows[k].typ /\ r.val = c.row.val + 1 /\ r.ver = rows[k].ver + 1
  <2>1. PICK v \in Nat : v = c.row.val + 1
    BY <1>2
  <2> PICK n \in Nat : n = c.row.ver + 1
    BY <1>2
  <2>2. r = [rows[k] EXCEPT !.val = v, !.ver = n]
    BY <1>4, <2>1
  <2>3. /\ r \in Row /\ r.typ = rows[k].typ /\ r.val = v /\ r.ver = n
    BY <1>3, <2>2 DEF Row
  <2> QED
    BY <1>2, <2>1, <2>3
<1>6. Present(r) /\ Outdates(r, rows[k])
  BY <1>2, <1>5 DEF Present, Outdates
<1>7. k \notin disturbed => r.val = rows[k].val + 1
  BY <1>1, <1>2, <1>3, <1>5 DEF CallOK, KnowsVersion
<1>8. Save(k, r) /\ Issue(k, r.val, ack) /\ Answer(p, ack, {Idle})
  BY <1>1, <1>4, <1>5 DEF IncrUpdate
<1>9. UNCHANGED <<members, now, disturbed, locks, raced>>
  BY DEF IncrUpdate
<1> QED
  BY <1>2, <1>5, <1>6, <1>7, <1>8, <1>9, IncrStep

LEMMA IncrInsertStep ==
    ASSUME D1Inv, NEW p \in Procs, NEW ack \in BOOLEAN, IncrInsert(p, ack)
    PROVE  D1Inv'
<1>1. PICK k : k = call[p].key
  OBVIOUS
<1>2. k \in Keys /\ ~Present(rows[k])
  BY <1>1, CallFacts DEF IncrInsert, Writing
<1>3. PICK r : r = [typ |-> "string", val |-> 1, exp |-> Null, ver |-> 1]
  OBVIOUS
<1>4. r \in Row /\ r.val = 1 /\ Present(r)
  BY <1>3, RowTypes DEF Null, Present
<1>5. Outdates(r, rows[k])
  BY <1>2 DEF Outdates
<1>6. Save(k, r) /\ Issue(k, r.val, ack) /\ Answer(p, ack, {Idle})
  BY <1>1, <1>3, <1>4 DEF IncrInsert
<1>7. UNCHANGED <<members, now, disturbed, locks, raced>>
  BY DEF IncrInsert
<1> QED
  BY <1>2, <1>4, <1>5, <1>6, <1>7, IncrStep

(* A statement that writes the version it computed, whatever is there. *)
LEMMA OverwriteFacts ==
    ASSUME D1Inv, NEW c, NEW k \in Keys, k = c.key, NEW r \in Row, r.typ = rows[k].typ,
           Overwrite(c, r), raced' = raced,
           CallOK(c, rows, members, volatile, raced, disturbed)
    PROVE  /\ CallOK(c, rows', members, volatile', raced', disturbed')
           /\ rows'[k].typ = rows[k].typ
<1>1. Disturb(k)
  BY DEF Overwrite
<1>2. TypeOK /\ rows \in [Keys -> Row]
  BY DEF D1Inv, TypeOK
<1>3. /\ disturbed \subseteq disturbed' /\ (Present(rows[k]) => k \in disturbed')
  BY <1>1, DisturbFacts
<1>4. /\ rows' \in [Keys -> Row] /\ volatile \subseteq volatile'
      /\ \A j \in Keys \ {k} : rows'[j] = rows[j]
      /\ rows'[k].typ = rows[k].typ
  <2>1. CASE Present(rows[k])
    BY <1>2, <2>1, SaveTypes DEF Overwrite
  <2>2. CASE ~Present(rows[k])
    BY <1>2, <2>2 DEF Overwrite
  <2> QED
    BY <2>1, <2>2
<1>5. ~Unsorts(rows'[k], rows[k]) /\ (k \in disturbed' \/ Outdates(rows'[k], rows[k]))
  BY <1>3, <1>4 DEF Unsorts, Outdates
<1>6. CallOK(c, rows', members, volatile', raced', disturbed')
  BY <1>2, <1>3, <1>4, <1>5, RowFrame
<1> QED
  BY <1>4, <1>6

LEMMA OverwriteStep ==
    ASSUME D1Inv, NEW p \in Procs, NEW ack \in BOOLEAN, NEW next, NEW c, NEW k \in Keys, k = c.key,
           NEW r \in Row, r.typ = rows[k].typ, Overwrite(c, r), Answer(p, ack, next),
           UNCHANGED <<members, raced>>,
           \A d \in next : CallOK(d, rows', members, volatile', raced', disturbed')
    PROVE  D1Inv'
<1>1. /\ Disturb(k) /\ members' = members /\ raced' = raced
      /\ now' = now /\ repeated' = repeated /\ locks' = locks
  BY DEF Overwrite
<1>2. /\ disturbed \subseteq disturbed' /\ disturbed' \subseteq Keys
      /\ issued' \in [Keys -> SUBSET Nat] /\ \A j \in Keys \ {k} : issued'[j] = issued[j]
      /\ Present(rows[k]) => k \in disturbed'
  BY <1>1, DisturbFacts
<1>3. CASE Present(rows[k])
  <2>1. Save(k, r)
    BY <1>3 DEF Overwrite
  <2>2. TypeOK /\ raced \subseteq Keys /\ locks \in [Keys -> Nat] /\ repeated' = {}
    BY <1>1 DEF D1Inv, TypeOK
  <2>3. RowOK(k, rows', members, volatile', raced', disturbed', issued', locks')
    <3>1. rows'[k] = r /\ (r.exp # Null => k \in volatile')
      BY <2>1, <2>2, SaveTypes
    <3>2. /\ locks[k] \in Nat /\ locks[k] <= 1 /\ (members[k] # {} => k \in raced \/ rows[k].typ = "zset")
      BY RowFacts
    <3>3. Present(r)
      BY <1>3 DEF Present
    <3> QED
      BY <1>1, <1>2, <1>3, <3>1, <3>2, <3>3 DEF RowOK
  <2>4. k \in disturbed' /\ ~Unsorts(r, rows[k])
    BY <1>2, <1>3 DEF Unsorts
  <2>5. \A j \in Keys \ {k} : issued'[j] = issued[j] /\ locks'[j] = locks[j]
    BY <1>1, <1>2
  <2>6. raced \subseteq raced' /\ raced' \subseteq Keys /\ locks' \in [Keys -> Nat]
    BY <1>1, <2>2
  <2> QED
    BY <1>1, <1>2, <2>1, <2>2, <2>3, <2>4, <2>5, <2>6, SaveOK
<1>4. CASE ~Present(rows[k])
  <2>1. rows' = rows /\ volatile' = volatile /\ disturbed' = disturbed /\ issued' = issued
    BY <1>1, <1>4 DEF Overwrite, Disturb
  <2> QED
    BY <1>1, <2>1, OnlyAnswerOK
<1> QED
  BY <1>3, <1>4

(* What EXPIRE, PERSIST, ZADD and ZREM write. *)
LEMMA BumpedFacts ==
    ASSUME D1Inv, NEW p \in Procs, call[p].at # "idle"
    PROVE  /\ Bumped(call[p]) \in Row
           /\ Bumped(call[p]).typ = rows[call[p].key].typ
           /\ \A e \in Nat : /\ [Bumped(call[p]) EXCEPT !.exp = e] \in Row
                             /\ [Bumped(call[p]) EXCEPT !.exp = e].typ = rows[call[p].key].typ
<1>1. PICK c, k : c = call[p] /\ k = c.key
  OBVIOUS
<1>2. k \in Keys /\ c.row.ver \in Nat
  BY <1>1, CallFacts
<1>3. rows[k] \in Row
  BY <1>2, RowFacts
<1>4. PICK n \in Nat : n = c.row.ver + 1
  BY <1>2
<1>5. Bumped(c) = [rows[k] EXCEPT !.ver = n]
  BY <1>1, <1>4 DEF Bumped
<1>6. Bumped(c) \in Row /\ Bumped(c).typ = rows[k].typ
  BY <1>3, <1>5 DEF Row
<1>7. ASSUME NEW e \in Nat
      PROVE  /\ [Bumped(c) EXCEPT !.exp = e] \in Row
             /\ [Bumped(c) EXCEPT !.exp = e].typ = rows[k].typ
  BY <1>6 DEF Row
<1> QED
  BY <1>1, <1>6, <1>7

LEMMA ExpireWriteStep ==
    ASSUME D1Inv, NEW p \in Procs, NEW ack \in BOOLEAN, ExpireWrite(p, ack)
    PROVE  D1Inv'
<1>1. call[p].at # "idle"
  BY DEF ExpireWrite, Writing
<1>2. call[p].key \in Keys /\ call[p].exp \in Nat
  BY <1>1, CallFacts
<1>3. PICK r : r = [Bumped(call[p]) EXCEPT !.exp = call[p].exp]
  OBVIOUS
<1>4. r \in Row /\ r.typ = rows[call[p].key].typ
  BY <1>1, <1>2, <1>3, BumpedFacts
<1>5. Overwrite(call[p], r) /\ Answer(p, ack, {Idle}) /\ UNCHANGED <<members, raced>>
  BY <1>3 DEF ExpireWrite
<1>6. \A d \in {Idle} : CallOK(d, rows', members, volatile', raced', disturbed')
  BY IdleOK
<1> QED
  BY <1>2, <1>4, <1>5, <1>6, OverwriteStep

LEMMA PersistWriteStep ==
    ASSUME D1Inv, NEW p \in Procs, NEW ack \in BOOLEAN, PersistWrite(p, ack)
    PROVE  D1Inv'
<1>1. call[p].at # "idle"
  BY DEF PersistWrite, Writing
<1>2. call[p].key \in Keys /\ Null \in Nat
  BY <1>1, CallFacts DEF Null
<1>3. PICK r : r = [Bumped(call[p]) EXCEPT !.exp = Null]
  OBVIOUS
<1>4. r \in Row /\ r.typ = rows[call[p].key].typ
  BY <1>1, <1>2, <1>3, BumpedFacts
<1>5. Overwrite(call[p], r) /\ Answer(p, ack, {Idle}) /\ UNCHANGED <<members, raced>>
  BY <1>3 DEF PersistWrite
<1>6. \A d \in {Idle} : CallOK(d, rows', members, volatile', raced', disturbed')
  BY IdleOK
<1> QED
  BY <1>2, <1>4, <1>5, <1>6, OverwriteStep

LEMMA ZRemBumpStep ==
    ASSUME D1Inv, NEW p \in Procs, NEW ack \in BOOLEAN, ZRemBump(p, ack)
    PROVE  D1Inv'
<1>1. call[p].at # "idle"
  BY DEF ZRemBump
<1>2. call[p].key \in Keys
  BY <1>1, CallFacts
<1>3. Bumped(call[p]) \in Row /\ Bumped(call[p]).typ = rows[call[p].key].typ
  BY <1>1, BumpedFacts
<1>4. Overwrite(call[p], Bumped(call[p])) /\ Answer(p, ack, {Idle}) /\ UNCHANGED <<members, raced>>
  BY DEF ZRemBump
<1>5. \A d \in {Idle} : CallOK(d, rows', members, volatile', raced', disturbed')
  BY IdleOK
<1> QED
  BY <1>2, <1>3, <1>4, <1>5, OverwriteStep

LEMMA ZAddUpdateStep ==
    ASSUME D1Inv, NEW p \in Procs, NEW ack \in BOOLEAN, ZAddUpdate(p, ack)
    PROVE  D1Inv'
<1>1. PICK c, k : c = call[p] /\ k = c.key
  OBVIOUS
<1>2. /\ CallOK(c, rows, members, volatile, raced, disturbed) /\ k \in Keys /\ c.row \in Row
      /\ c.at = "write" /\ c.op = "zadd" /\ Present(c.row)
  BY <1>1, CallFacts DEF ZAddUpdate, Writing, Found
<1>3. PICK r : r = Bumped(c)
  OBVIOUS
<1>4. r \in Row /\ r.typ = rows[k].typ
  BY <1>1, <1>2, <1>3, BumpedFacts
<1>5. /\ Overwrite(c, r) /\ Answer(p, ack, {[c EXCEPT !.at = "member"]})
      /\ members' = members /\ raced' = raced
  BY <1>1, <1>3 DEF ZAddUpdate
<1>6. CallOK(c, rows', members, volatile', raced', disturbed') /\ rows'[k].typ = rows[k].typ
  BY <1>1, <1>2, <1>4, <1>5, OverwriteFacts
<1>7. k \in raced' \/ rows'[k].typ = "zset"
  <2>1. c.row.typ = "zset"
    BY <1>2, RowTypes DEF CallOK, Shape, Present
  <2>2. k \in raced \/ rows[k].typ = "zset"
    BY <1>1, <1>2, <2>1 DEF CallOK, KnowsMembers
  <2> QED
    BY <1>5, <1>6, <2>2
<1>8. PICK d : d = [c EXCEPT !.at = "member"]
  OBVIOUS
<1>9. CallOK(d, rows', members, volatile', raced', disturbed')
  BY <1>1, <1>2, <1>6, <1>7, <1>8, MovedOK
<1>10. Answer(p, ack, {d}) /\ \A x \in {d} : CallOK(x, rows', members, volatile', raced', disturbed')
  BY <1>5, <1>8, <1>9
<1> QED
  BY <1>1, <1>2, <1>4, <1>5, <1>10, OverwriteStep

LEMMA ZAddInsertStep ==
    ASSUME D1Inv, NEW p \in Procs, NEW ack \in BOOLEAN, ZAddInsert(p, ack)
    PROVE  D1Inv'
<1>1. PICK c, k : c = call[p] /\ k = c.key
  OBVIOUS
<1>2. /\ CallOK(c, rows, members, volatile, raced, disturbed) /\ k \in Keys
      /\ c.at = "write" /\ c.op = "zadd" /\ ~Present(rows[k])
  BY <1>1, CallFacts DEF ZAddInsert, Writing
<1>3. PICK r : r = [typ |-> "zset", val |-> 0, exp |-> Null, ver |-> 1]
  OBVIOUS
<1>4. r \in Row /\ r.typ = "zset" /\ r.exp = Null /\ Present(r)
  BY <1>3, RowTypes DEF Null, Present
<1>5. /\ Save(k, r) /\ Answer(p, ack, {[c EXCEPT !.at = "member"]})
      /\ members' = members /\ now' = now /\ disturbed' = disturbed /\ issued' = issued
      /\ repeated' = repeated /\ locks' = locks /\ raced' = raced
  BY <1>1, <1>3 DEF ZAddInsert
<1>6. /\ TypeOK /\ rows \in [Keys -> Row] /\ repeated = {} /\ raced \subseteq Keys
      /\ disturbed \subseteq Keys /\ issued \in [Keys -> SUBSET Nat] /\ locks \in [Keys -> Nat]
  BY DEF D1Inv, TypeOK
<1>7. /\ rows' \in [Keys -> Row] /\ rows'[k] = r /\ volatile \subseteq volatile'
      /\ \A j \in Keys \ {k} : rows'[j] = rows[j]
  BY <1>2, <1>4, <1>5, <1>6, SaveTypes
<1>8. ~Unsorts(r, rows[k]) /\ Outdates(r, rows[k])
  BY <1>2, <1>4 DEF Unsorts, Outdates
<1>9. RowOK(k, rows', members, volatile', raced', disturbed', issued', locks')
  <2>1. /\ locks[k] \in Nat /\ locks[k] <= 1 /\ (k \notin disturbed => issued[k] = {})
    BY <1>2, RowFacts
  <2> QED
    BY <1>4, <1>5, <1>7, <2>1 DEF RowOK
<1>10. CallOK(c, rows', members, volatile', raced', disturbed')
  BY <1>1, <1>2, <1>5, <1>6, <1>7, <1>8, RowFrame
<1>11. PICK d : d = [c EXCEPT !.at = "member"]
  OBVIOUS
<1>12. CallOK(d, rows', members, volatile', raced', disturbed')
  BY <1>1, <1>2, <1>4, <1>7, <1>10, <1>11, MovedOK
<1>13. Answer(p, ack, {d}) /\ \A x \in {d} : CallOK(x, rows', members, volatile', raced', disturbed')
  BY <1>5, <1>11, <1>12
<1>14. /\ raced \subseteq raced' /\ raced' \subseteq Keys /\ disturbed \subseteq disturbed'
       /\ disturbed' \subseteq Keys /\ issued' \in [Keys -> SUBSET Nat] /\ locks' \in [Keys -> Nat]
       /\ \A j \in Keys \ {k} : issued'[j] = issued[j] /\ locks'[j] = locks[j]
       /\ repeated' = {} /\ members' = members /\ now' = now
  BY <1>5, <1>6
<1>15. Save(k, r)
  BY <1>5
<1> QED
  BY <1>2, <1>4, <1>8, <1>9, <1>13, <1>14, <1>15, SaveOK

-----------------------------------------------------------------------------
(* The theorems *)

LEMMA StatementStep ==
    ASSUME D1Inv, NEW p \in Procs, NEW ack \in BOOLEAN, Statement(p, ack)
    PROVE  D1Inv'
BY DropMembersStep, DropKeyStep, SetInsertStep, SetUpdateStep, SetUpsertStep, IncrUpdateStep,
   IncrInsertStep, ExpireWriteStep, PersistWriteStep, ZAddInsertStep, ZAddUpdateStep,
   ZAddMemberStep, ZRemMembersStep, ZRemBumpStep DEF Statement

(* The invariant holds when the process starts, and every statement of     *)
(* every call of d1store keeps it, whatever the others have done since the *)
(* call read its row and whether or not the answer arrives.                *)
THEOREM D1Invariant == Spec => []D1Inv
<1>1. Init => D1Inv
  <2> SUFFICES ASSUME Init
               PROVE  D1Inv
    OBVIOUS
  <2>1. TypeOK
    BY RowTypes, IdleIsCall DEF Init, TypeOK
  <2>2. ASSUME NEW k \in Keys
        PROVE  RowOK(k, rows, members, volatile, raced, disturbed, issued, locks)
    <3>1. rows[k] = NoRow /\ members[k] = {} /\ issued[k] = {} /\ locks[k] = 0
      BY DEF Init
    <3> QED
      BY <3>1 DEF RowOK, NoRow
  <2>3. ASSUME NEW p \in Procs
        PROVE  CallOK(call[p], rows, members, volatile, raced, disturbed)
    <3>1. call[p] = Idle
      BY DEF Init
    <3> QED
      BY <3>1, IdleOK
  <2> QED
    BY <2>1, <2>2, <2>3 DEF Init, D1Inv
<1>2. D1Inv /\ [Next]_vars => D1Inv'
  <2> SUFFICES ASSUME D1Inv, [Next]_vars
               PROVE  D1Inv'
    OBVIOUS
  <2>1. CASE Tick
    BY <2>1, TickStep
  <2>2. ASSUME NEW p \in Procs,
               \/ Start(p) \/ CleanupSelect(p) \/ Fail(p)
               \/ Select(p) \/ Judge(p) \/ LazyFails(p)
               \/ \E ack \in BOOLEAN : Statement(p, ack)
        PROVE  D1Inv'
    BY <2>2, StartStep, CleanupSelectStep, FailStep, SelectStep, JudgeStep, LazyFailsStep,
       StatementStep
  <2>3. CASE UNCHANGED vars
    BY <2>3 DEF vars, D1Inv, TypeOK
  <2> QED
    BY <2>1, <2>2, <2>3 DEF Next
<1> QED
  BY <1>1, <1>2, PTL DEF Spec

(* The tables, the calls and the histories keep their types: a call past   *)
(* its SELECT carries a key, a row and options that fit its operation.     *)
THEOREM D1TypeCorrect == Spec => []TypeOK
<1>1. D1Inv => TypeOK
  BY DEF D1Inv
<1> QED
  BY <1>1, D1Invariant, PTL

(* IncrBy returns no number twice: the version in its WHERE clause stands  *)
(* for one value as long as the key is written by INCR and guarded SET.    *)
THEOREM D1UniqueNumbers == Spec => []UniqueNumbers
<1>1. D1Inv => UniqueNumbers
  BY DEF D1Inv, UniqueNumbers
<1> QED
  BY <1>1, D1Invariant, PTL

(* Set with NX inserts or does nothing, so that only one caller is told    *)
(* that it has the key until the row is removed.                           *)
THEOREM D1LockOnce == Spec => []LockOnce
<1>1. D1Inv => LockOnce
  BY DEF D1Inv, LockOnce, RowOK
<1> QED
  BY <1>1, D1Invariant, PTL

(* The order of the statements of ZAdd and of Delete leaves no member      *)
(* without its key, wherever a call stops; only two that overlap can.      *)
THEOREM D1OrphansOnlyFromRaces == Spec => []OrphansOnlyFromRaces
<1>1. D1Inv => OrphansOnlyFromRaces
  BY DEF D1Inv, OrphansOnlyFromRaces, RowOK
<1> QED
  BY <1>1, D1Invariant, PTL

(* Every statement but the last of a removal leaves the rows that are      *)
(* there.                                                                  *)
LEMMA SaveKeeps ==
    ASSUME D1Inv, NEW k \in Keys, NEW r \in Row, Save(k, r), Present(r) \/ ~Present(rows[k]),
           NEW j \in Keys, Present(rows[j])
    PROVE  Present(rows'[j])
<1>1. rows \in [Keys -> Row] /\ rows' = [rows EXCEPT ![k] = r]
  BY DEF D1Inv, TypeOK, Save
<1>2. rows'[j] = IF j = k THEN r ELSE rows[j]
  BY <1>1
<1> QED
  BY <1>2

LEMMA OverwriteKeeps ==
    ASSUME D1Inv, NEW p \in Procs, call[p].at # "idle",
           NEW r \in Row, r.typ = rows[call[p].key].typ, Overwrite(call[p], r),
           NEW j \in Keys, Present(rows[j])
    PROVE  Present(rows'[j])
<1>1. call[p].key \in Keys
  BY CallFacts
<1>2. CASE Present(rows[call[p].key])
  <2>1. Save(call[p].key, r) /\ Present(r)
    BY <1>2 DEF Overwrite, Present
  <2> QED
    BY <1>1, <2>1, SaveKeeps
<1>3. CASE ~Present(rows[call[p].key])
  BY <1>3 DEF Overwrite
<1> QED
  BY <1>2, <1>3

LEMMA StatementKeeps ==
    ASSUME D1Inv, NEW p \in Procs, NEW ack \in BOOLEAN, Statement(p, ack), ~DropKey(p, ack),
           NEW j \in Keys, Present(rows[j])
    PROVE  Present(rows'[j])
<1>1. CASE DropMembers(p, ack) \/ ZAddMember(p, ack) \/ ZRemMembers(p, ack)
  BY <1>1 DEF DropMembers, ZAddMember, ZRemMembers
<1>2. CASE SetInsert(p, ack) \/ SetUpdate(p, ack) \/ SetUpsert(p, ack)
  <2>1. Writing(p, "set") /\ SetRow(call[p])
    BY <1>2 DEF SetInsert, SetUpdate, SetUpsert
  <2>2. PICK k \in Keys, r \in Row : Save(k, r) /\ r.typ = "string"
    BY <2>1, WrittenFacts
  <2>3. Present(r)
    BY <2>2 DEF Present
  <2> QED
    BY <2>2, <2>3, SaveKeeps
<1>3. CASE IncrUpdate(p, ack)
  <2>1. PICK c, k : c = call[p] /\ k = c.key
    OBVIOUS
  <2>2. k \in Keys /\ c.row.ver \in Nat /\ c.row.val \in Nat
    BY <1>3, <2>1, CallFacts DEF IncrUpdate, Writing
  <2>3. rows[k] \in Row /\ Present(rows[k])
    BY <1>3, <2>1, <2>2, RowFacts DEF IncrUpdate, Guarded
  <2>4. PICK v \in Nat : v = c.row.val + 1
    BY <2>2
  <2>5. PICK n \in Nat : n = c.row.ver + 1
    BY <2>2
  <2>6. PICK r : r = [rows[k] EXCEPT !.val = v, !.ver = n]
    OBVIOUS
  <2>7. r \in Row /\ Present(r)
    BY <2>3, <2>6 DEF Row, Present
  <2>8. Save(k, r)
    BY <1>3, <2>1, <2>4, <2>5, <2>6 DEF IncrUpdate
  <2> QED
    BY <2>2, <2>7, <2>8, SaveKeeps
<1>4. CASE IncrInsert(p, ack)
  <2>1. PICK r : r = [typ |-> "string", val |-> 1, exp |-> Null, ver |-> 1]
    OBVIOUS
  <2>2. r \in Row /\ Present(r)
    BY <2>1, RowTypes DEF Null, Present
  <2>3. call[p].key \in Keys /\ Save(call[p].key, r)
    BY <1>4, <2>1, CallFacts DEF IncrInsert, Writing
  <2> QED
    BY <2>2, <2>3, SaveKeeps
<1>5. CASE ZAddInsert(p, ack)
  <2>1. PICK r : r = [typ |-> "zset", val |-> 0, exp |-> Null, ver |-> 1]
    OBVIOUS
  <2>2. r \in Row /\ Present(r)
    BY <2>1, RowTypes DEF Null, Present
  <2>3. call[p].key \in Keys /\ Save(call[p].key, r)
    BY <1>5, <2>1, CallFacts DEF ZAddInsert, Writing
  <2> QED
    BY <2>2, <2>3, SaveKeeps
<1>6. CASE ExpireWrite(p, ack) \/ PersistWrite(p, ack) \/ ZAddUpdate(p, ack) \/ ZRemBump(p, ack)
  <2>1. call[p].at # "idle"
    BY <1>6 DEF ExpireWrite, PersistWrite, ZAddUpdate, ZRemBump, Writing
  <2>2. call[p].exp \in Nat /\ Null \in Nat
    BY <2>1, CallFacts DEF Null
  <2>3. PICK r \in Row : r.typ = rows[call[p].key].typ /\ Overwrite(call[p], r)
    <3>1. CASE ExpireWrite(p, ack)
      BY <2>1, <2>2, <3>1, BumpedFacts DEF ExpireWrite
    <3>2. CASE PersistWrite(p, ack)
      BY <2>1, <2>2, <3>2, BumpedFacts DEF PersistWrite
    <3>3. CASE ZAddUpdate(p, ack) \/ ZRemBump(p, ack)
      BY <2>1, <3>3, BumpedFacts DEF ZAddUpdate, ZRemBump
    <3> QED
      BY <1>6, <3>1, <3>2, <3>3
  <2> QED
    BY <2>1, <2>3, OverwriteKeeps
<1> QED
  BY <1>1, <1>2, <1>3, <1>4, <1>5, <1>6 DEF Statement

(* getLiveRow and CleanupExpired judge a row by a value they read some     *)
(* statements ago, and Delete removes whatever is there by then: still no  *)
(* key that never had an expiry time loses its row to them.                *)
THEOREM D1OnlyAskedRemovals == Spec => OnlyAskedRemovals
<1> DEFINE Asked == \A k \in Keys \ volatile :
          Present(rows[k]) /\ ~Present(rows'[k]) =>
             \E p \in Procs : call[p].op \in {"del", "getdel"} /\ call[p].at = "key"
                              /\ call[p].key = k
<1>1. ASSUME D1Inv, Next
      PROVE  Asked
  <2> SUFFICES ASSUME NEW k \in Keys \ volatile, Present(rows[k]), ~Present(rows'[k])
               PROVE  \E p \in Procs : call[p].op \in {"del", "getdel"} /\ call[p].at = "key"
                                       /\ call[p].key = k
    OBVIOUS
  <2>1. PICK p \in Procs, ack \in BOOLEAN : Statement(p, ack)
    <3>1. rows' # rows
      OBVIOUS
    <3> QED
      BY <1>1, <3>1 DEF Next, Tick, Start, Begin, CleanupSelect, Fail, Select, Judge, LazyFails
  <2>2. DropKey(p, ack)
    BY <1>1, <2>1, StatementKeeps
  <2>3. /\ CallOK(call[p], rows, members, volatile, raced, disturbed)
        /\ call[p].key \in Keys /\ call[p].at \in {"key", "lazykey"}
    BY <1>1, <2>2, CallFacts DEF DropKey
  <2>4. call[p].key = k
    <3>1. rows' = [rows EXCEPT ![call[p].key] = NoRow]
      BY <2>2 DEF DropKey, Save
    <3> QED
      BY <1>1, <2>3, <3>1 DEF D1Inv, TypeOK
  <2>5. call[p].at = "key" /\ call[p].op \in {"del", "getdel"}
    BY <2>3, <2>4 DEF CallOK, Shape, KnowsExpiry
  <2> QED
    BY <2>4, <2>5
<1>2. D1Inv /\ [Next]_vars => [Asked]_vars
  BY <1>1
<1> QED
  BY <1>2, D1Invariant, PTL DEF Spec, OnlyAskedRemovals

=============================================================================
