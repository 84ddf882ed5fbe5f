--------------------------- MODULE SqlStoreProofs ---------------------------
(***************************************************************************)
(* For every choice of the constants of SqlStore: its types, that members  *)
(* keep their parent but for the gaps the code leaves open, and that no    *)
(* interleaving of calls loses a key that is not to go.                    *)
(*                                                                         *)
(* Neither is inductive. Durable needs that a reader about to run the      *)
(* DELETEs of lazy deletion saw an expiry time, so its key is in volatile  *)
(* for ever. MembersHaveParent needs what a call between its two DELETEs   *)
(* knows: of a key that met no gap, a lazy deletion left no member, and    *)
(* the members there are have been seen by every open DEL.                 *)
(***************************************************************************)
EXTENDS SqlStore, TLAPS

(* Every row with an expiry time is in volatile. *)
ExpiryIsRecorded == \A id \in Ids : rows[id].exp # Null => id \in volatile

(* So is every row whose lazy deletion is under way or may still begin. *)
DoomedIsVolatile ==
    \A p \in Procs :
        \/ call[p].at = "fetched" /\ call[p].row.exp # Null
        \/ call[p].at \in {"dropMembers", "dropKey"}
        => call[p].id \in volatile

(* Before its second DELETE a lazy deletion has left no member behind. *)
DroppedIsEmpty ==
    \A p \in Procs :
        call[p].at = "dropKey" /\ call[p].id \notin torn => Has(call[p].id) = {}

(* Before its second DELETE a DEL has deleted every member there is. *)
DeletedIsSeen ==
    \A p \in Procs : \A id \in del[p].ids \ torn : \A m \in Has(id) : <<id, m>> \in del[p].gone

(* A DEL deletes members only of the keys it names. *)
GoneIsNamed == \A p \in Procs : \A x \in del[p].gone : x[1] \in del[p].ids

GapInv == MembersHaveParent /\ DroppedIsEmpty /\ DeletedIsSeen

IInv == TypeOK /\ ExpiryIsRecorded /\ DoomedIsVolatile /\ GapInv /\ GoneIsNamed

-----------------------------------------------------------------------------
(* Operators keep their types. *)

LEMMA RowTypes == NoRow \in Row /\ NewZSet \in Row
BY ConstantsAssumption DEF NoRow, NewZSet, Row, Null, Ints

LEMMA NoMembersType == NoMembers \in [Members -> Scores \cup {Absent}]
BY DEF NoMembers

LEMMA IdleType == Idle \in [op : Ops, at : Stages, id : Ids, row : Row]
<1>a. PICK db \in DBs, key \in Keys : TRUE
  BY ConstantsAssumption
<1>b. <<db, key>> \in Ids
  BY <1>a DEF Ids
<1>c. (CHOOSE id \in Ids : TRUE) \in Ids
  BY <1>b
<1> QED
  BY <1>c, RowTypes DEF Idle, Ops, Stages

LEMMA FetchedType ==
  ASSUME TypeOK, NEW id \in Ids
  PROVE  /\ Fetched(id) \in Row
         /\ FetchedMembers(id) \in [Members -> Scores \cup {Absent}]
<1>1. rows[id] \in Row /\ members[id] \in [Members -> Scores \cup {Absent}]
  BY DEF TypeOK
<1> QED
  BY <1>1, RowTypes, NoMembersType DEF Fetched, FetchedMembers

LEMMA WrapType == ASSUME NEW n \in Int PROVE Wrap(n) \in Ints
<1>1. IntHalf \in Int /\ IntHalf > 0
  BY ConstantsAssumption
<1>2. (n + IntHalf) % (2 * IntHalf) \in 0 .. (2 * IntHalf - 1)
  BY <1>1
<1> QED
  BY <1>1, <1>2 DEF Wrap, Ints

LEMMA VersionedType ==
  ASSUME TypeOK, NEW id \in Ids, NEW ver \in Nat
  PROVE  Versioned(id, ver) \in [Ids -> Row]
<1>1. ASSUME NEW row \in Row PROVE [row EXCEPT !.ver = ver] \in Row
  BY DEF Row
<1>2. \A other \in Ids : rows[other] \in Row
  BY DEF TypeOK
<1> QED
  BY <1>1, <1>2 DEF TypeOK, Versioned

LEMMA WrittenType ==
  ASSUME TypeOK, NEW row \in Row, NEW value \in Ints \cup {Text}, NEW opts \in SetOptions
  PROVE  Written(row, value, opts) \in Row
<1>1. opts.ttl \in Nat
  <2>1. opts.ttl \in TTLs \cup {0}
    BY DEF SetOptions
  <2>2. \A t \in TTLs \cup {0} : t \in Nat
    BY ConstantsAssumption
  <2> QED
    BY <2>1, <2>2, Zenon
<1>2. now \in Nat
  BY DEF TypeOK
<1>3. row.exp \in Nat /\ row.ver \in Nat
  BY DEF Row
<1>4. Deadline(row, opts) \in Nat
  BY <1>1, <1>2, <1>3 DEF Deadline, Null
<1> QED
  BY <1>3, <1>4 DEF Written, Row

-----------------------------------------------------------------------------
(* What a change of redge_keys keeps, and what a key that was never given  *)
(* an expiry time looks like to the calls.                                 *)

LEMMA SaveKeeps ==
  ASSUME TypeOK, NEW newRows \in [Ids -> Row], Save(newRows)
  PROVE  /\ rows' = newRows
         /\ volatile' \in SUBSET Ids
         /\ volatile \subseteq volatile'
         /\ ExpiryIsRecorded'
BY DEF TypeOK, Save, ExpiryIsRecorded, Null

LEMMA LiveIsFetched ==
  ASSUME NEW id \in Ids, ~Expired(rows[id])
  PROVE  Fetched(id) = rows[id] /\ FetchedMembers(id) = members[id]
BY DEF Fetched, FetchedMembers

LEMMA ExpiredIsVolatile ==
  ASSUME IInv, NEW id \in Ids, Expired(rows[id])
  PROVE  id \in volatile
BY DEF IInv, ExpiryIsRecorded, Expired

(* The members a transaction works with are members there were. *)
LEMMA FetchedIsThere ==
  ASSUME NEW id \in Ids, NEW m \in Members, FetchedMembers(id)[m] # Absent
  PROVE  /\ ~Expired(rows[id])
         /\ Fetched(id) = rows[id]
         /\ members[id][m] # Absent
BY DEF Fetched, FetchedMembers, NoMembers

LEMMA SaveMembersKeeps ==
  ASSUME NEW newMembers \in [Ids -> [Members -> Scores \cup {Absent}]],
         NEW gaps \in SUBSET Ids, SaveMembers(newMembers, gaps)
  PROVE  /\ members' = newMembers
         /\ torn' \in SUBSET Ids
         /\ \A id \in Ids, m \in Members :
               newMembers[id][m] # Absent /\ id \notin torn' => id \notin gaps
BY DEF SaveMembers, NoMembers

(* A change of the tables leaves, where it meets no gap, a member under a  *)
(* sorted-set row; and one there was before if a deletion is under way.    *)
Fits(newRows, newMembers, gaps) ==
    \A id \in Ids \ gaps : \A m \in Members : newMembers[id][m] # Absent =>
        /\ newRows[id].typ = "zset"
        /\ Exposed(id) => id \notin torn /\ members[id][m] # Absent

(* A step that leaves the calls alone. *)
LEMMA TransactionKeeps ==
  ASSUME IInv,
         NEW newRows \in [Ids -> Row], Save(newRows),
         NEW newMembers \in [Ids -> [Members -> Scores \cup {Absent}]],
         NEW gaps \in SUBSET Ids, SaveMembers(newMembers, gaps),
         now' = now /\ call' = call /\ del' = del,
         sweep' \in [Cleaners -> SUBSET Keys],
         Fits(newRows, newMembers, gaps)
  PROVE  IInv'
<1>1. /\ rows' = newRows
      /\ volatile' \in SUBSET Ids
      /\ volatile \subseteq volatile'
      /\ ExpiryIsRecorded'
  BY SaveKeeps DEF IInv
<1>2. /\ members' = newMembers
      /\ torn' \in SUBSET Ids
      /\ \A id \in Ids, m \in Members :
            newMembers[id][m] # Absent /\ id \notin torn' => id \notin gaps
  BY SaveMembersKeeps
<1>3. TypeOK'
  BY <1>1, <1>2 DEF IInv, TypeOK
<1>4. DoomedIsVolatile'
  BY <1>1 DEF IInv, DoomedIsVolatile
<1>5. MembersHaveParent'
  BY <1>1, <1>2 DEF MembersHaveParent, Has, Fits
<1>6. DroppedIsEmpty'
  <2> SUFFICES ASSUME NEW p \in Procs, call[p].at = "dropKey", call[p].id \notin torn',
                      NEW m \in Members, newMembers[call[p].id][m] # Absent
               PROVE  FALSE
    BY <1>2 DEF DroppedIsEmpty, Has
  <2>1. call[p].id \in Ids
    BY DEF IInv, TypeOK
  <2>2. Exposed(call[p].id)
    BY DEF Exposed
  <2>3. call[p].id \notin torn /\ members[call[p].id][m] # Absent
    BY <1>2, <2>1, <2>2 DEF Fits
  <2> QED
    BY <2>3 DEF IInv, GapInv, DroppedIsEmpty, Has
<1>7. DeletedIsSeen'
  <2> SUFFICES ASSUME NEW p \in Procs, NEW id \in del[p].ids, id \notin torn',
                      NEW m \in Members, newMembers[id][m] # Absent
               PROVE  <<id, m>> \in del[p].gone
    BY <1>2 DEF DeletedIsSeen, Has
  <2>1. id \in Ids
    BY DEF IInv, TypeOK
  <2>2. Exposed(id)
    BY DEF Exposed
  <2>3. id \notin torn /\ members[id][m] # Absent
    BY <1>2, <2>1, <2>2 DEF Fits
  <2> QED
    BY <2>3 DEF IInv, GapInv, DeletedIsSeen, Has
<1> QED
  BY <1>1, <1>3, <1>4, <1>5, <1>6, <1>7 DEF IInv, GapInv, GoneIsNamed

(* The parent of a member of a key that met no gap. *)
LEMMA ParentOf ==
  ASSUME IInv, NEW id \in Ids, id \notin torn, NEW m \in Members, members[id][m] # Absent
  PROVE  rows[id].typ = "zset"
BY DEF IInv, GapInv, MembersHaveParent, Has

-----------------------------------------------------------------------------
(* One lemma per operation. *)

LEMMA UpsertKeeps ==
  ASSUME IInv, NEW data, DOMAIN data \subseteq Ids,
         \A id \in DOMAIN data : data[id] \in Ints \cup {Text},
         NEW opts \in SetOptions, Upsert(data, opts)
  PROVE  IInv'
<1> DEFINE newRows == [id \in Ids |-> IF id \in DOMAIN data
                                      THEN Written(Fetched(id), data[id], opts)
                                      ELSE rows[id]]
           newMembers == [id \in Ids |-> IF id \in DOMAIN data THEN FetchedMembers(id)
                                                                ELSE members[id]]
<1>1. newRows \in [Ids -> Row]
  BY FetchedType, WrittenType DEF IInv, TypeOK
<1>2. newMembers \in [Ids -> [Members -> Scores \cup {Absent}]]
  BY FetchedType DEF IInv, TypeOK
<1>3. ASSUME NEW id \in Ids, id \notin torn, NEW m \in Members,
             newMembers[id][m] # Absent
      PROVE  newRows[id].typ = "zset" /\ members[id][m] # Absent
  <2>1. CASE id \in DOMAIN data
    <3>1. Fetched(id) = rows[id] /\ members[id][m] # Absent
      BY <1>3, <2>1, FetchedIsThere
    <3>2. rows[id].typ = "zset"
      BY <1>3, <3>1, ParentOf
    <3>3. Written(rows[id], data[id], opts) = rows[id]
      BY <2>1, <3>1, <3>2 DEF Upsert, Written
    <3> QED
      BY <2>1, <3>1, <3>2, <3>3
  <2>2. CASE id \notin DOMAIN data
    BY <1>3, <2>2, ParentOf
  <2> QED
    BY <2>1, <2>2
<1>4. Save(newRows) /\ SaveMembers(newMembers, torn)
      /\ now' = now /\ call' = call /\ del' = del /\ sweep' = sweep
  BY DEF Upsert
<1>5. torn \in SUBSET Ids /\ sweep' \in [Cleaners -> SUBSET Keys]
  BY <1>4 DEF IInv, TypeOK
<1> HIDE DEF newRows, newMembers
<1>6. Fits(newRows, newMembers, torn)
  BY <1>3 DEF Fits
<1> QED
  BY <1>1, <1>2, <1>4, <1>5, <1>6, TransactionKeeps

(* A transaction that gives one key a row which is no sorted set, when it  *)
(* found none, and drops the members of an expired one.                    *)
LEMMA ReplaceKeeps ==
  ASSUME IInv, NEW id \in Ids, NEW row \in Row, Fetched(id).typ # "zset",
         Save([rows EXCEPT ![id] = row]),
         SaveMembers([members EXCEPT ![id] = FetchedMembers(id)], torn),
         UNCHANGED <<now, call, del, sweep>>
  PROVE  IInv'
<1> DEFINE newRows == [rows EXCEPT ![id] = row]
           newMembers == [members EXCEPT ![id] = FetchedMembers(id)]
<1>1. newRows \in [Ids -> Row]
  BY DEF IInv, TypeOK
<1>2. newMembers \in [Ids -> [Members -> Scores \cup {Absent}]]
  BY FetchedType DEF IInv, TypeOK
<1>3. ASSUME NEW i \in Ids, i \notin torn, NEW m \in Members,
             newMembers[i][m] # Absent
      PROVE  newRows[i].typ = "zset" /\ members[i][m] # Absent
  <2>1. CASE i = id
    <3>1. FetchedMembers(i)[m] # Absent
      BY <1>3, <2>1 DEF IInv, TypeOK
    <3>2. Fetched(i) = rows[i] /\ members[i][m] # Absent
      BY <3>1, FetchedIsThere
    <3> QED
      BY <1>3, <2>1, <3>2, ParentOf
  <2>2. CASE i # id
    <3>1. newMembers[i] = members[i] /\ newRows[i] = rows[i]
      BY <2>2 DEF IInv, TypeOK
    <3> QED
      BY <1>3, <3>1, ParentOf
  <2> QED
    BY <2>1, <2>2
<1>4. Save(newRows) /\ SaveMembers(newMembers, torn)
      /\ now' = now /\ call' = call /\ del' = del /\ sweep' = sweep
  OBVIOUS
<1>5. torn \in SUBSET Ids /\ sweep' \in [Cleaners -> SUBSET Keys]
  BY <1>4 DEF IInv, TypeOK
<1> HIDE DEF newRows, newMembers
<1>6. Fits(newRows, newMembers, torn)
  BY <1>3 DEF Fits
<1> QED
  BY <1>1, <1>2, <1>4, <1>5, <1>6, TransactionKeeps

LEMMA GetDelKeeps ==
  ASSUME IInv, NEW id \in Ids, GetDel(id)
  PROVE  IInv'
BY RowTypes, ReplaceKeeps DEF GetDel

LEMMA IncrByKeeps ==
  ASSUME IInv, NEW id \in Ids, NEW delta \in Int, IncrBy(id, delta)
  PROVE  IInv'
<1> DEFINE row == Fetched(id)
           new == [typ |-> "string", val |-> Wrap(row.val + delta),
                   exp |-> row.exp, ver |-> row.ver + 1]
<1>a. row \in Row
  BY FetchedType DEF IInv
<1>b. row.val \in Int
  <2>1. IntHalf \in Int
    BY ConstantsAssumption
  <2> QED
    BY <2>1 DEF IncrBy, Ints
<1>c. Wrap(row.val + delta) \in Ints
  BY <1>b, WrapType
<1>d. new \in Row
  BY <1>a, <1>c DEF Row
<1>1. /\ Fetched(id).typ # "zset"
      /\ Save([rows EXCEPT ![id] = new])
      /\ SaveMembers([members EXCEPT ![id] = FetchedMembers(id)], torn)
      /\ UNCHANGED <<now, call, del, sweep>>
  BY DEF IncrBy
<1> HIDE DEF new
<1> QED
  BY <1>d, <1>1, ReplaceKeeps

(* Raising versions changes no type of row and no expiry time. *)
LEMMA VersionedKeepsTyp ==
  ASSUME TypeOK, NEW id \in Ids, NEW ver \in Nat, NEW i \in Ids
  PROVE  Versioned(id, ver)[i].typ = rows[i].typ
BY DEF TypeOK, Versioned, Row

LEMMA ZWriteKeeps ==
  ASSUME IInv, NEW id \in Ids, NEW m \in Members, NEW score \in Scores,
         ZWrite(id, m, score)
  PROVE  IInv'
<1> DEFINE row == Fetched(id)
           old == FetchedMembers(id)
           newRows == IF Present(row) THEN Versioned(id, row.ver + 1)
                                      ELSE [rows EXCEPT ![id] = NewZSet]
           newMembers == IF old[m] = Absent
                         THEN [members EXCEPT ![id] = [old EXCEPT ![m] = score]]
                         ELSE [other \in Ids |->
                                 IF ModelMatches(id, other) /\ members[other][m] # Absent
                                 THEN [members[other] EXCEPT ![m] = score]
                                 ELSE members[other]]
           gaps == IF Exposed(id) THEN torn \cup {id} ELSE torn \ {id}
<1>a. row \in Row /\ row.ver + 1 \in Nat /\ TypeOK
  BY FetchedType DEF IInv, Row
<1>b. old \in [Members -> Scores \cup {Absent}]
  BY <1>a, FetchedType
<1>1. newRows \in [Ids -> Row]
  BY <1>a, VersionedType, RowTypes DEF TypeOK
<1>2. newMembers \in [Ids -> [Members -> Scores \cup {Absent}]]
  <2>1. CASE old[m] = Absent
    BY <1>a, <1>b, <2>1 DEF TypeOK
  <2>2. CASE old[m] # Absent
    BY <1>a, <2>2 DEF TypeOK
  <2> QED
    BY <2>1, <2>2
<1>3. newRows[id].typ = "zset"
  <2>1. CASE Present(row)
    <3>1. row = rows[id]
      BY <2>1 DEF Fetched, Present, NoRow
    <3>2. row.typ = "zset"
      BY <1>a, <2>1 DEF ZWrite, Present, Row
    <3> QED
      BY <1>a, <2>1, <3>1, <3>2, VersionedKeepsTyp
  <2>2. CASE ~Present(row)
    BY <1>a, <2>2 DEF TypeOK, NewZSet
  <2> QED
    BY <2>1, <2>2
<1>4. ASSUME NEW i \in Ids, i # id, NEW n \in Members
      PROVE  /\ newMembers[i][n] # Absent => members[i][n] # Absent
             /\ newRows[i].typ = rows[i].typ
  <2>1. newMembers[i][n] # Absent => members[i][n] # Absent
    <3>1. CASE old[m] = Absent
      BY <1>a, <1>4, <3>1 DEF TypeOK
    <3>2. CASE old[m] # Absent
      BY <1>a, <1>4, <3>2 DEF TypeOK
    <3> QED
      BY <3>1, <3>2
  <2>2. newRows[i].typ = rows[i].typ
    BY <1>a, <1>4, VersionedKeepsTyp DEF TypeOK
  <2> QED
    BY <2>1, <2>2
<1>5. gaps \in SUBSET Ids /\ (id \notin gaps => ~Exposed(id))
      /\ \A i \in Ids : i # id /\ i \notin gaps => i \notin torn
  BY <1>a DEF TypeOK
<1>6. Save(newRows) /\ SaveMembers(newMembers, gaps)
      /\ now' = now /\ call' = call /\ del' = del /\ sweep' = sweep
  BY DEF ZWrite
<1> HIDE DEF newRows, newMembers, gaps
<1>7. Fits(newRows, newMembers, gaps)
  <2> SUFFICES ASSUME NEW i \in Ids, i \notin gaps, NEW n \in Members,
                      newMembers[i][n] # Absent
               PROVE  /\ newRows[i].typ = "zset"
                      /\ Exposed(i) => i \notin torn /\ members[i][n] # Absent
    BY DEF Fits
  <2>1. CASE i = id
    BY <1>3, <1>5, <2>1
  <2>2. CASE i # id
    <3>1. i \notin torn /\ members[i][n] # Absent
      BY <1>4, <1>5, <2>2
    <3>2. rows[i].typ = "zset"
      BY <3>1, ParentOf
    <3>3. newRows[i].typ = rows[i].typ
      BY <1>4, <2>2
    <3> QED
      BY <3>1, <3>2, <3>3
  <2> QED
    BY <2>1, <2>2
<1>8. sweep' \in [Cleaners -> SUBSET Keys]
  BY <1>a, <1>6 DEF TypeOK
<1> QED
  BY <1>1, <1>2, <1>5, <1>6, <1>7, <1>8, TransactionKeeps

LEMMA zpopKeeps ==
  ASSUME IInv, NEW id \in Ids, NEW count, NEW max \in BOOLEAN, zpop(id, count, max)
  PROVE  IInv'
<1>a. TypeOK
  BY DEF IInv
<1>b. torn \in SUBSET Ids /\ sweep \in [Cleaners -> SUBSET Keys]
  BY <1>a DEF TypeOK
<1>1. CASE Expired(rows[id]) /\ Save([rows EXCEPT ![id] = NoRow])
           /\ SaveMembers([members EXCEPT ![id] = NoMembers], torn)
           /\ UNCHANGED <<now, call, del, sweep>>
  <2>1. Fetched(id).typ # "zset" /\ FetchedMembers(id) = NoMembers
    BY <1>1 DEF Fetched, FetchedMembers, NoRow
  <2> QED
    BY <1>1, <2>1, RowTypes, ReplaceKeeps
<1>2. ASSUME NEW S,
             SaveMembers([members EXCEPT ![id] =
                            [m \in Members |-> IF m \in S THEN Absent ELSE @[m]]], torn),
             Save(Versioned(id, rows[id].ver + 1)),
             UNCHANGED <<now, call, del, sweep>>
      PROVE  IInv'
  <2> DEFINE mem == [m \in Members |-> IF m \in S THEN Absent ELSE members[id][m]]
             newMembers == [members EXCEPT ![id] = mem]
             newRows == Versioned(id, rows[id].ver + 1)
  <2>0. rows[id].ver + 1 \in Nat
    BY <1>a DEF TypeOK, Row
  <2>1. newRows \in [Ids -> Row]
    BY <1>a, <2>0, VersionedType
  <2>2. newMembers \in [Ids -> [Members -> Scores \cup {Absent}]]
    BY <1>a DEF TypeOK
  <2>3. ASSUME NEW i \in Ids, i \notin torn, NEW n \in Members,
               newMembers[i][n] # Absent
        PROVE  newRows[i].typ = "zset" /\ members[i][n] # Absent
    <3>1. members[i][n] # Absent
      BY <1>a, <2>3 DEF TypeOK
    <3>2. rows[i].typ = "zset"
      BY <2>3, <3>1, ParentOf
    <3> QED
      BY <1>a, <2>0, <3>1, <3>2, VersionedKeepsTyp
  <2>4. Save(newRows) /\ SaveMembers(newMembers, torn)
        /\ now' = now /\ call' = call /\ del' = del /\ sweep' = sweep
    BY <1>2
  <2> HIDE DEF newRows, newMembers
  <2>5. Fits(newRows, newMembers, torn)
    BY <2>3 DEF Fits
  <2>6. sweep' \in [Cleaners -> SUBSET Keys]
    BY <1>b, <2>4
  <2> QED
    BY <1>b, <2>1, <2>2, <2>4, <2>5, <2>6, TransactionKeeps
<1> QED
  BY <1>1, <1>2 DEF zpop

(* A step of a call that does not touch the tables. *)
LEMMA CallKeeps ==
  ASSUME IInv, NEW p \in Procs,
         NEW c \in [op : Ops, at : Stages, id : Ids, row : Row],
         call' = [call EXCEPT ![p] = c],
         c.at # "dropKey",
         \/ c.at \notin {"fetched", "dropMembers"}
         \/ c.id \in volatile
         \/ c.at = "fetched" /\ c.row.exp = Null,
         UNCHANGED <<rows, members, now, del, sweep, volatile, torn>>
  PROVE  IInv'
<1>1. TypeOK'
  BY DEF IInv, TypeOK
<1>2. DoomedIsVolatile'
  BY DEF IInv, TypeOK, DoomedIsVolatile
<1>3. ExpiryIsRecorded' /\ MembersHaveParent' /\ DeletedIsSeen'
  BY DEF IInv, GapInv, ExpiryIsRecorded, MembersHaveParent, DeletedIsSeen, Has
<1>4. DroppedIsEmpty'
  BY DEF IInv, GapInv, TypeOK, DroppedIsEmpty, Has
<1> QED
  BY <1>1, <1>2, <1>3, <1>4 DEF IInv, GapInv, GoneIsNamed

LEMMA getLiveRowKeeps ==
  ASSUME IInv, NEW p \in Procs, NEW op \in Ops, NEW id \in Ids, getLiveRow(p, op, id)
  PROVE  IInv'
<1> DEFINE c == Reading(op, id, rows[id])
<1>1. rows[id] \in Row /\ "read" \in Ops /\ "fetched" \in Stages
  BY DEF IInv, TypeOK, Ops, Stages
<1>2. ASSUME NEW n \in {rows[id].ver, 0}
      PROVE  [NoRow EXCEPT !.exp = rows[id].exp, !.ver = n] \in Row
  <2>1. n \in Nat /\ rows[id].exp \in Nat
    BY <1>1 DEF Row
  <2> QED
    BY <2>1, RowTypes DEF Row
<1>3. /\ c \in [op : Ops, at : Stages, id : Ids, row : Row]
      /\ c.id = id /\ c.at = "fetched" /\ c.row.exp = rows[id].exp
  BY <1>1, <1>2 DEF Reading, NoRow
<1>4. c.id \in volatile \/ c.row.exp = Null
  BY <1>3 DEF IInv, ExpiryIsRecorded
<1>5. call' = [call EXCEPT ![p] = c] /\ UNCHANGED <<rows, members, now, del, sweep, volatile, torn>>
  BY DEF getLiveRow
<1> HIDE DEF c
<1> QED
  BY <1>3, <1>4, <1>5, CallKeeps

LEMMA CheckExpiryKeeps ==
  ASSUME IInv, NEW p \in Procs, CheckExpiry(p)
  PROVE  IInv'
<1> DEFINE c == call[p]
           drop == [c EXCEPT !.at = "dropMembers", !.op = "read", !.row = NoRow]
           live == [c EXCEPT !.at = "live", !.row = [NoRow EXCEPT !.ver = c.row.ver]]
           T == [op : Ops, at : Stages, id : Ids, row : Row]
<1>1. c \in T /\ c.at = "fetched"
  BY DEF IInv, TypeOK, CheckExpiry
<1>2. UNCHANGED <<rows, members, now, del, sweep, volatile, torn>>
  BY DEF CheckExpiry
<1>3. CASE Expired(c.row)
  <2>1. drop \in T /\ drop.id = c.id /\ drop.at = "dropMembers"
    BY <1>1, RowTypes DEF Stages, Ops
  <2>2. c.id \in volatile
    BY <1>1, <1>3 DEF IInv, DoomedIsVolatile, Expired
  <2>3. call' = [call EXCEPT ![p] = drop]
    BY <1>3 DEF CheckExpiry
  <2> HIDE DEF drop
  <2> QED
    BY <1>2, <2>1, <2>2, <2>3, CallKeeps
<1>4. CASE ~Expired(c.row) /\ c.op # "read"
  <2>0. c.row.ver \in Nat
    BY <1>1 DEF Row
  <2>a. [NoRow EXCEPT !.ver = c.row.ver] \in Row
    BY <2>0, RowTypes DEF Row
  <2>1. live \in T /\ live.at = "live"
    BY <1>1, <2>a DEF Stages
  <2>2. call' = [call EXCEPT ![p] = live]
    BY <1>4 DEF CheckExpiry
  <2> HIDE DEF live
  <2> QED
    BY <1>2, <2>1, <2>2, CallKeeps
<1>5. CASE ~Expired(c.row) /\ c.op = "read"
  <2>1. call' = [call EXCEPT ![p] = Idle]
    BY <1>5 DEF CheckExpiry
  <2>2. Idle.at = "idle"
    BY DEF Idle
  <2> QED
    BY <1>2, <2>1, <2>2, IdleType, CallKeeps
<1> QED
  BY <1>3, <1>4, <1>5

(* A step that ends a call by a change of redge_keys. *)
LEMMA LastStatementKeeps ==
  ASSUME IInv, NEW p \in Procs, NEW newRows \in [Ids -> Row], Save(newRows),
         call' = [call EXCEPT ![p] = Idle],
         UNCHANGED <<members, now, del, sweep, torn>>,
         ASSUME NEW id \in Ids, id \notin torn, Has(id) # {}, rows[id].typ = "zset"
         PROVE  newRows[id].typ = "zset"
  PROVE  IInv'
<1>1. /\ rows' = newRows
      /\ volatile' \in SUBSET Ids
      /\ volatile \subseteq volatile'
      /\ ExpiryIsRecorded'
  BY SaveKeeps DEF IInv
<1>2. TypeOK'
  BY <1>1, IdleType DEF IInv, TypeOK
<1>3. DoomedIsVolatile'
  BY <1>1 DEF IInv, TypeOK, DoomedIsVolatile, Idle
<1>4. MembersHaveParent'
  BY <1>1 DEF IInv, GapInv, MembersHaveParent, Has
<1>5. DroppedIsEmpty'
  BY DEF IInv, GapInv, TypeOK, DroppedIsEmpty, Has, Idle
<1>6. DeletedIsSeen'
  BY DEF IInv, GapInv, DeletedIsSeen, Has
<1> QED
  BY <1>1, <1>2, <1>3, <1>4, <1>5, <1>6 DEF IInv, GapInv, GoneIsNamed

(* A step of a call that removes member rows only, or fails to. *)
LEMMA MembersStepKeeps ==
  ASSUME IInv, NEW p \in Procs, NEW mem \in [Members -> Scores \cup {Absent}],
         NEW c \in [op : Ops, at : Stages, id : Ids, row : Row],
         NEW gaps \in SUBSET Ids, torn \subseteq gaps,
         SaveMembers([members EXCEPT ![call[p].id] = mem], gaps),
         call' = [call EXCEPT ![p] = c],
         UNCHANGED <<rows, now, del, sweep, volatile>>,
         c.at \in {"dropMembers", "dropKey", "fetched"} => c.id \in volatile,
         c.at = "dropKey" => c.id = call[p].id /\ (mem = NoMembers \/ c.id \in gaps),
         \A m \in Members : mem[m] # Absent => members[call[p].id][m] # Absent
  PROVE  IInv'
<1> DEFINE newMembers == [members EXCEPT ![call[p].id] = mem]
<1>0. call[p].id \in Ids
  BY DEF IInv, TypeOK
<1>a. newMembers \in [Ids -> [Members -> Scores \cup {Absent}]]
  BY DEF IInv, TypeOK
<1>b. \A id \in Ids, m \in Members : newMembers[id][m] # Absent => members[id][m] # Absent
  BY <1>0 DEF IInv, TypeOK
<1>c. newMembers[call[p].id] = mem
  BY <1>0 DEF IInv, TypeOK
<1>d. SaveMembers(newMembers, gaps)
  OBVIOUS
<1> HIDE DEF newMembers
<1>e. /\ members' = newMembers
      /\ torn' \in SUBSET Ids
      /\ \A id \in Ids, m \in Members :
            newMembers[id][m] # Absent /\ id \notin torn' => id \notin gaps
  BY <1>a, <1>d, SaveMembersKeeps
<1>1. TypeOK'
  BY <1>a, <1>e DEF IInv, TypeOK
<1>2. DoomedIsVolatile'
  BY DEF IInv, TypeOK, DoomedIsVolatile
<1>3. ExpiryIsRecorded'
  BY DEF IInv, ExpiryIsRecorded
<1>4. MembersHaveParent'
  <2> SUFFICES ASSUME NEW id \in Ids, id \notin torn', NEW m \in Members,
                      newMembers[id][m] # Absent
               PROVE  rows[id].typ = "zset"
    BY <1>e DEF MembersHaveParent, Has
  <2>1. id \notin torn /\ members[id][m] # Absent
    BY <1>b, <1>e
  <2> QED
    BY <2>1, ParentOf
<1>5. DroppedIsEmpty'
  <2> SUFFICES ASSUME NEW q \in Procs, call'[q].at = "dropKey", call'[q].id \notin torn',
                      NEW m \in Members, newMembers[call'[q].id][m] # Absent
               PROVE  FALSE
    BY <1>e DEF DroppedIsEmpty, Has
  <2>0. call'[q].id \in Ids
    BY <1>1 DEF TypeOK
  <2>1. call'[q].id \notin gaps /\ members[call'[q].id][m] # Absent
    BY <1>b, <1>e, <2>0
  <2>2. CASE q = p
    <3>1. call'[q] = c
      BY <2>2 DEF IInv, TypeOK
    <3>2. mem = NoMembers
      BY <2>1, <3>1
    <3> QED
      BY <1>c, <3>1, <3>2 DEF NoMembers
  <2>3. CASE q # p
    <3>1. call'[q] = call[q]
      BY <2>3 DEF IInv, TypeOK
    <3> QED
      BY <2>1, <3>1 DEF IInv, GapInv, DroppedIsEmpty, Has
  <2> QED
    BY <2>2, <2>3
<1>6. DeletedIsSeen'
  <2> SUFFICES ASSUME NEW q \in Procs, NEW id \in del[q].ids, id \notin torn',
                      NEW m \in Members, newMembers[id][m] # Absent
               PROVE  <<id, m>> \in del[q].gone
    BY <1>e DEF DeletedIsSeen, Has
  <2>1. id \in Ids
    BY DEF IInv, TypeOK
  <2>2. id \notin torn /\ members[id][m] # Absent
    BY <1>b, <1>e, <2>1
  <2> QED
    BY <2>2 DEF IInv, GapInv, DeletedIsSeen, Has
<1> QED
  BY <1>1, <1>2, <1>3, <1>4, <1>5, <1>6 DEF IInv, GapInv, GoneIsNamed

LEMMA CallStepKeeps ==
  ASSUME IInv, NEW p \in Procs, CallStep(p)
  PROVE  IInv'
<1> DEFINE c == call[p]
           T == [op : Ops, at : Stages, id : Ids, row : Row]
<1>0. c \in T /\ c.id \in Ids /\ TypeOK
  BY DEF IInv, TypeOK
<1>1. ASSUME NEW op \in Ops, NEW id \in Ids, getLiveRow(p, op, id) PROVE IInv'
  BY <1>1, getLiveRowKeeps
<1>2. CASE CheckExpiry(p)
  BY <1>2, CheckExpiryKeeps
<1>b. torn \in SUBSET Ids /\ torn \subseteq torn
  BY <1>0 DEF TypeOK
<1>3. CASE LazyDropMembers(p)
  <2> DEFINE next == [c EXCEPT !.at = "dropKey"]
  <2>1. next \in T /\ next.id = c.id
    BY <1>0 DEF Stages
  <2>2. call' = [call EXCEPT ![p] = next]
    BY <1>0, <1>3 DEF LazyDropMembers
  <2>3. c.id \in volatile
    BY <1>3 DEF LazyDropMembers, IInv, DoomedIsVolatile
  <2>4. SaveMembers([members EXCEPT ![c.id] = NoMembers], torn)
        /\ UNCHANGED <<rows, now, del, sweep, volatile>>
    BY <1>3 DEF LazyDropMembers
  <2>5. \A m \in Members : NoMembers[m] = Absent
    BY DEF NoMembers
  <2> HIDE DEF next
  <2> QED
    BY <1>b, <2>1, <2>2, <2>3, <2>4, <2>5, NoMembersType, MembersStepKeeps
<1>4. CASE LazyDropKey(p)
  <2> DEFINE newRows == [rows EXCEPT ![c.id] = NoRow]
  <2>1. newRows \in [Ids -> Row]
    BY <1>0, RowTypes DEF TypeOK
  <2>2. c.id \in torn \/ Has(c.id) = {}
    BY <1>4 DEF LazyDropKey, IInv, GapInv, DroppedIsEmpty
  <2>3. ASSUME NEW id \in Ids, id \notin torn, Has(id) # {}, rows[id].typ = "zset"
        PROVE  newRows[id].typ = "zset"
    BY <1>0, <2>2, <2>3 DEF TypeOK
  <2>4. Save(newRows) /\ call' = [call EXCEPT ![p] = Idle]
        /\ UNCHANGED <<members, now, del, sweep, torn>>
    BY <1>4 DEF LazyDropKey
  <2> HIDE DEF newRows
  <2> QED
    BY <2>1, <2>3, <2>4, LastStatementKeeps
<1>5. ASSUME NEW expiry \in Nat, UpdateExpiry(p, expiry) PROVE IInv'
  <2> DEFINE newRows == [other \in Ids |->
                           IF ModelMatches(c.id, other) /\ Present(rows[other])
                           THEN [rows[other] EXCEPT !.exp = expiry, !.ver = c.row.ver + 1]
                           ELSE rows[other]]
  <2>0. c.row.ver + 1 \in Nat
    BY <1>0 DEF Row
  <2>1. newRows \in [Ids -> Row]
    BY <1>0, <2>0 DEF TypeOK, Row
  <2>3. ASSUME NEW id \in Ids, id \notin torn, Has(id) # {}, rows[id].typ = "zset"
        PROVE  newRows[id].typ = "zset"
    BY <1>0, <2>3 DEF TypeOK, Row
  <2>4. Save(newRows) /\ call' = [call EXCEPT ![p] = Idle]
        /\ UNCHANGED <<members, now, del, sweep, torn>>
    BY <1>5 DEF UpdateExpiry
  <2> HIDE DEF newRows
  <2> QED
    BY <2>1, <2>3, <2>4, LastStatementKeeps
<1>6. ASSUME NEW ttl \in TTLs \cup {0}, Expire(p, ttl) PROVE IInv'
  <2>1. \A t \in TTLs \cup {0} : t \in Nat
    BY ConstantsAssumption
  <2>2. ttl \in Nat
    BY <2>1, Zenon
  <2>3. now + ttl \in Nat
    BY <1>0, <2>2 DEF TypeOK
  <2> QED
    BY <1>5, <1>6, <2>3 DEF Expire
<1>7. CASE Persist(p)
  BY <1>5, <1>7 DEF Persist, Null
<1>8. ASSUME NEW S \in SUBSET Members, RemoveMembers(p, S) PROVE IInv'
  <2> DEFINE mem == [m \in Members |-> IF m \in S THEN Absent ELSE members[c.id][m]]
             bump == [c EXCEPT !.at = "bump"]
             next == IF S \cap Has(c.id) = {} THEN Idle ELSE bump
  <2>1. mem \in [Members -> Scores \cup {Absent}]
    BY <1>0 DEF TypeOK
  <2>2. bump \in T /\ bump.at = "bump"
    BY <1>0 DEF Stages
  <2>3. next \in T /\ next.at \in {"idle", "bump"}
    BY <2>2, IdleType DEF Idle
  <2>4. SaveMembers([members EXCEPT ![c.id] = mem], torn)
        /\ call' = [call EXCEPT ![p] = next]
        /\ UNCHANGED <<rows, now, del, sweep, volatile>>
    BY <1>0, <1>8 DEF RemoveMembers, TypeOK
  <2>5. \A m \in Members : mem[m] # Absent => members[c.id][m] # Absent
    OBVIOUS
  <2> HIDE DEF mem, next
  <2> QED
    BY <1>b, <2>1, <2>3, <2>4, <2>5, MembersStepKeeps
<1>9. ASSUME NEW S \in SUBSET Members, ZRem(p, S) PROVE IInv'
  BY <1>8, <1>9 DEF ZRem
<1>10. ASSUME NEW min \in Bounds, NEW max \in Bounds, ZRemRangeByScore(p, min, max)
       PROVE IInv'
  BY <1>8, <1>10 DEF ZRemRangeByScore, Has
<1>11. CASE BumpVersion(p)
  <2>0. c.row.ver + 1 \in Nat
    BY <1>0 DEF Row
  <2>1. Versioned(c.id, c.row.ver + 1) \in [Ids -> Row]
    BY <1>0, <2>0, VersionedType
  <2>2. ASSUME NEW id \in Ids, id \notin torn, Has(id) # {}, rows[id].typ = "zset"
        PROVE  Versioned(c.id, c.row.ver + 1)[id].typ = "zset"
    BY <1>0, <2>0, <2>2, VersionedKeepsTyp
  <2>3. Save(Versioned(c.id, c.row.ver + 1)) /\ call' = [call EXCEPT ![p] = Idle]
        /\ UNCHANGED <<members, now, del, sweep, torn>>
    BY <1>11 DEF BumpVersion
  <2> QED
    BY <2>1, <2>2, <2>3, LastStatementKeeps
<1>12. CASE StatementError(p)
  <2> DEFINE drop == [c EXCEPT !.at = "dropKey"]
             next == IF c.at = "dropMembers" THEN drop ELSE Idle
             gaps == IF c.at = "dropMembers" THEN torn \cup {c.id} ELSE torn
             mem == members[c.id]
  <2>1. drop \in T /\ drop.id = c.id
    BY <1>0 DEF Stages
  <2>2. next \in T
    BY <2>1, IdleType
  <2>3. next.at # "idle" => next.id = c.id /\ c.id \in volatile /\ c.id \in gaps
    BY <2>1 DEF IInv, DoomedIsVolatile, Idle
  <2>4. call' = [call EXCEPT ![p] = next]
        /\ UNCHANGED <<rows, now, del, sweep, volatile>>
    BY <1>0, <1>12 DEF StatementError
  <2>5. gaps \in SUBSET Ids /\ torn \subseteq gaps
    BY <1>0, <1>b
  <2>6. mem \in [Members -> Scores \cup {Absent}] /\ members = [members EXCEPT ![c.id] = mem]
    BY <1>0 DEF TypeOK
  <2>7. SaveMembers(members, gaps)
    BY <1>12 DEF StatementError
  <2>8. SaveMembers([members EXCEPT ![c.id] = mem], gaps)
    BY <2>6, <2>7
  <2>9. \A m \in Members : mem[m] # Absent => members[c.id][m] # Absent
    OBVIOUS
  <2> HIDE DEF next, gaps, mem
  <2> QED
    BY <2>2, <2>3, <2>4, <2>5, <2>6, <2>8, <2>9, MembersStepKeeps
<1> QED
  BY <1>1, <1>2, <1>3, <1>4, <1>6, <1>7, <1>9, <1>10, <1>11, <1>12 DEF CallStep

LEMMA CleanupDeleteKeeps ==
  ASSUME IInv, NEW k \in Cleaners, CleanupDelete(k)
  PROVE  IInv'
<1> DEFINE doomed == {id \in Ids : id[2] \in sweep[k] /\ Expired(rows[id])}
           newRows == [id \in Ids |-> IF id \in doomed THEN NoRow ELSE rows[id]]
           gaps == torn \cup doomed
<1>1. newRows \in [Ids -> Row]
  BY RowTypes DEF IInv, TypeOK
<1>2. Save(newRows) /\ SaveMembers(members, gaps)
      /\ now' = now /\ call' = call /\ del' = del /\ sweep' = [sweep EXCEPT ![k] = {}]
  BY DEF CleanupDelete
<1>3. gaps \in SUBSET Ids /\ sweep' \in [Cleaners -> SUBSET Keys]
      /\ members \in [Ids -> [Members -> Scores \cup {Absent}]]
  BY <1>2 DEF IInv, TypeOK
<1>4. ASSUME NEW id \in Ids, id \notin gaps, NEW m \in Members, members[id][m] # Absent
      PROVE  newRows[id].typ = "zset" /\ id \notin torn
  BY <1>4, ParentOf
<1> HIDE DEF newRows, gaps
<1>5. Fits(newRows, members, gaps)
  BY <1>4 DEF Fits
<1> QED
  BY <1>1, <1>2, <1>3, <1>5, TransactionKeeps

-----------------------------------------------------------------------------
(* DEL *)

(* A DEL has seen every member of its keys, and no other. *)
Seen(d) ==
    /\ \A id \in d.ids : \A m \in Has(id) : <<id, m>> \in d.gone
    /\ \A x \in d.gone : x[1] \in d.ids

(* A step that only changes how far a DEL is. *)
LEMMA DelKeeps ==
  ASSUME IInv, NEW p \in Procs, NEW d \in [ids : SUBSET Ids, gone : SUBSET (Ids \X Members)],
         del' = [del EXCEPT ![p] = d], Seen(d),
         UNCHANGED <<rows, members, now, call, sweep, volatile, torn>>
  PROVE  IInv'
<1>1. TypeOK'
  BY DEF IInv, TypeOK
<1>2. ExpiryIsRecorded' /\ DoomedIsVolatile' /\ MembersHaveParent' /\ DroppedIsEmpty'
  BY DEF IInv, GapInv, ExpiryIsRecorded, DoomedIsVolatile, MembersHaveParent,
         DroppedIsEmpty, Has
<1>3. DeletedIsSeen'
  <2> SUFFICES ASSUME NEW q \in Procs, NEW id \in del'[q].ids, id \notin torn,
                      NEW m \in Has(id)
               PROVE  <<id, m>> \in del'[q].gone
    BY DEF DeletedIsSeen, Has
  <2>1. CASE q = p
    BY <2>1 DEF IInv, TypeOK, Seen
  <2>2. CASE q # p
    BY <2>2 DEF IInv, GapInv, TypeOK, DeletedIsSeen
  <2> QED
    BY <2>1, <2>2
<1>4. GoneIsNamed'
  BY DEF IInv, TypeOK, GoneIsNamed, Seen
<1> QED
  BY <1>1, <1>2, <1>3, <1>4 DEF IInv, GapInv

LEMMA NoDelType == NoDel \in [ids : SUBSET Ids, gone : SUBSET (Ids \X Members)]
BY DEF NoDel

LEMMA DeleteMembersKeeps ==
  ASSUME IInv, NEW p \in Procs, NEW db \in DBs, NEW keys \in SUBSET Keys,
         DeleteMembers(p, db, keys)
  PROVE  IInv'
<1> DEFINE ids == {db} \X keys
           gone == {x \in ids \X Members : members[x[1]][x[2]] # Absent}
           d == [ids |-> ids, gone |-> gone]
<1>1. ids \in SUBSET Ids
  BY DEF Ids
<1>2. gone \in SUBSET (Ids \X Members)
  BY <1>1
<1>a. \A x \in gone : x[1] \in ids
  OBVIOUS
<1>3. \A id \in ids : \A m \in Has(id) : <<id, m>> \in gone
  BY DEF Has
<1>4. del' = [del EXCEPT ![p] = d]
      /\ UNCHANGED <<rows, members, now, call, sweep, volatile, torn>>
  BY DEF DeleteMembers
<1> HIDE DEF ids, gone
<1>5. d \in [ids : SUBSET Ids, gone : SUBSET (Ids \X Members)]
      /\ Seen(d)
  BY <1>1, <1>2, <1>3, <1>a DEF Seen
<1> HIDE DEF d
<1> QED
  BY <1>4, <1>5, DelKeeps

LEMMA DeleteErrorKeeps ==
  ASSUME IInv, NEW p \in Procs, DeleteError(p)
  PROVE  IInv'
<1>1. Seen(NoDel)
  BY DEF NoDel, Seen
<1>2. del' = [del EXCEPT ![p] = NoDel]
      /\ UNCHANGED <<rows, members, now, call, sweep, volatile, torn>>
  BY DEF DeleteError
<1> QED
  BY <1>1, <1>2, NoDelType, DelKeeps

LEMMA DeleteKeysKeeps ==
  ASSUME IInv, NEW p \in Procs, DeleteKeys(p)
  PROVE  IInv'
<1> DEFINE newRows == [id \in Ids |-> IF id \in del[p].ids THEN NoRow ELSE rows[id]]
           newMembers == [id \in Ids |-> [m \in Members |->
                            IF <<id, m>> \in del[p].gone THEN Absent ELSE members[id][m]]]
<1>0. torn \in SUBSET Ids
  BY DEF IInv, TypeOK
<1>1. newRows \in [Ids -> Row]
  BY RowTypes DEF IInv, TypeOK
<1>2. newMembers \in [Ids -> [Members -> Scores \cup {Absent}]]
  BY DEF IInv, TypeOK
<1>3. Save(newRows) /\ SaveMembers(newMembers, torn)
      /\ now' = now /\ call' = call /\ sweep' = sweep /\ del' = [del EXCEPT ![p] = NoDel]
  BY DEF DeleteKeys
<1>4. \A id \in Ids, m \in Members : newMembers[id][m] # Absent =>
         members[id][m] # Absent /\ <<id, m>> \notin del[p].gone
  OBVIOUS
<1>5. \A id \in Ids : id \notin del[p].ids => newRows[id] = rows[id]
  OBVIOUS
<1> HIDE DEF newRows, newMembers
<1>6. /\ rows' = newRows
      /\ volatile' \in SUBSET Ids
      /\ volatile \subseteq volatile'
      /\ ExpiryIsRecorded'
  BY <1>1, <1>3, SaveKeeps DEF IInv
<1>7. /\ members' = newMembers
      /\ torn' \in SUBSET Ids
      /\ \A id \in Ids, m \in Members :
            newMembers[id][m] # Absent /\ id \notin torn' => id \notin torn
  BY <1>0, <1>2, <1>3, SaveMembersKeeps
<1>8. TypeOK'
  BY <1>1, <1>2, <1>3, <1>6, <1>7, NoDelType DEF IInv, TypeOK
<1>9. DoomedIsVolatile'
  BY <1>3, <1>6 DEF IInv, DoomedIsVolatile
<1>10. MembersHaveParent'
  <2> SUFFICES ASSUME NEW id \in Ids, id \notin torn', NEW m \in Members,
                      newMembers[id][m] # Absent
               PROVE  newRows[id].typ = "zset"
    BY <1>6, <1>7 DEF MembersHaveParent, Has
  <2>1. id \notin torn /\ members[id][m] # Absent /\ <<id, m>> \notin del[p].gone
    BY <1>4, <1>7
  <2>2. id \notin del[p].ids
    BY <2>1 DEF IInv, GapInv, DeletedIsSeen, Has
  <2> QED
    BY <1>5, <2>1, <2>2, ParentOf
<1>11. DroppedIsEmpty'
  <2> SUFFICES ASSUME NEW q \in Procs, call[q].at = "dropKey", call[q].id \notin torn',
                      NEW m \in Members, newMembers[call[q].id][m] # Absent
               PROVE  FALSE
    BY <1>3, <1>7 DEF DroppedIsEmpty, Has
  <2>1. call[q].id \in Ids
    BY DEF IInv, TypeOK
  <2>2. call[q].id \notin torn /\ members[call[q].id][m] # Absent
    BY <1>4, <1>7, <2>1
  <2> QED
    BY <2>2 DEF IInv, GapInv, DroppedIsEmpty, Has
<1>12. DeletedIsSeen'
  <2> SUFFICES ASSUME NEW q \in Procs, NEW id \in del'[q].ids, id \notin torn',
                      NEW m \in Members, newMembers[id][m] # Absent
               PROVE  <<id, m>> \in del'[q].gone
    BY <1>7 DEF DeletedIsSeen, Has
  <2>1. q # p /\ del'[q] = del[q] /\ id \in Ids
    BY <1>3, <1>8 DEF IInv, TypeOK, NoDel
  <2>2. id \notin torn /\ members[id][m] # Absent
    BY <1>4, <1>7, <2>1
  <2> QED
    BY <2>1, <2>2 DEF IInv, GapInv, DeletedIsSeen, Has
<1>13. GoneIsNamed'
  BY <1>3 DEF IInv, TypeOK, GoneIsNamed, NoDel
<1> QED
  BY <1>6, <1>8, <1>9, <1>10, <1>11, <1>12, <1>13 DEF IInv, GapInv

-----------------------------------------------------------------------------
(* The theorems *)

LEMMA InitIInv == Init => IInv
<1> SUFFICES ASSUME Init PROVE IInv
  OBVIOUS
<1>1. TypeOK
  BY RowTypes, NoMembersType, IdleType, NoDelType DEF Init, TypeOK
<1>2. ExpiryIsRecorded /\ DoomedIsVolatile
  BY DEF Init, ExpiryIsRecorded, DoomedIsVolatile, NoRow, Idle, Null
<1>3. GapInv /\ GoneIsNamed
  BY DEF Init, GapInv, GoneIsNamed, MembersHaveParent, DroppedIsEmpty, DeletedIsSeen, Has,
         NoMembers, Idle, NoDel
<1> QED
  BY <1>1, <1>2, <1>3 DEF IInv

LEMMA StringStepKeeps == ASSUME IInv, StringStep PROVE IInv'
<1>0. Values \subseteq Ints \cup {Text}
  BY ConstantsAssumption
<1>1. ASSUME NEW id \in Ids, NEW value \in Values, NEW opts \in SetOptions,
             Set(id, value, opts)
      PROVE  IInv'
  <2> DEFINE data == [i \in {id} |-> value]
  <2>1. DOMAIN data \subseteq Ids /\ \A i \in DOMAIN data : data[i] \in Ints \cup {Text}
    BY <1>0
  <2>2. Upsert(data, opts)
    BY <1>1 DEF Set
  <2> HIDE DEF data
  <2> QED
    BY <2>1, <2>2, UpsertKeeps
<1>2. ASSUME NEW db \in DBs, NEW keys \in SUBSET Keys \ {{}},
             NEW pairs \in [keys -> Values], NEW opts \in MSetOptions,
             MSet(db, pairs, opts)
      PROVE  IInv'
  <2>0. opts \in SetOptions
    BY DEF MSetOptions
  <2> DEFINE data == [i \in {db} \X DOMAIN pairs |-> pairs[i[2]]]
  <2>1. DOMAIN data \subseteq Ids
    BY DEF Ids
  <2>2. \A i \in DOMAIN data : data[i] \in Ints \cup {Text}
    BY <1>0
  <2>3. Upsert(data, opts)
    BY <1>2 DEF MSet
  <2> HIDE DEF data
  <2> QED
    BY <2>0, <2>1, <2>2, <2>3, UpsertKeeps
<1>3. ASSUME NEW id \in Ids, GetDel(id) PROVE IInv'
  BY <1>3, GetDelKeeps
<1>4. ASSUME NEW id \in Ids, NEW delta \in {-1, 1}, IncrBy(id, delta) PROVE IInv'
  BY <1>4, IncrByKeeps
<1> QED
  BY <1>1, <1>2, <1>3, <1>4 DEF StringStep

LEMMA NextIInv == IInv /\ [Next]_vars => IInv'
<1> SUFFICES ASSUME IInv, [Next]_vars PROVE IInv'
  OBVIOUS
<1>1. CASE StringStep
  BY <1>1, StringStepKeeps
<1>2. CASE ZSetStep
  BY <1>2, ZWriteKeeps, zpopKeeps DEF ZSetStep, ZAdd, ZIncrBy
<1>3. ASSUME NEW p \in Procs, CallStep(p) PROVE IInv'
  BY <1>3, CallStepKeeps
<1>7. ASSUME NEW p \in Procs, DeleteStep(p) PROVE IInv'
  BY <1>7, DeleteMembersKeeps, DeleteKeysKeeps, DeleteErrorKeeps DEF DeleteStep
<1>4. ASSUME NEW c \in Cleaners, CleanupStep(c) PROVE IInv'
  <2>1. CASE CleanupDelete(c)
    BY <2>1, CleanupDeleteKeeps
  <2>2. CASE CleanupSelect(c) \/ CleanupError(c)
    <3>1. sweep' \in [Cleaners -> SUBSET Keys]
      <4>1. CASE CleanupSelect(c)
        <5>1. PICK S \in SUBSET ExpiredIds : sweep' = [sweep EXCEPT ![c] = {id[2] : id \in S}]
          BY <4>1 DEF CleanupSelect
        <5>2. {id[2] : id \in S} \in SUBSET Keys
          BY DEF ExpiredIds, Ids
        <5> QED
          BY <5>1, <5>2 DEF IInv, TypeOK
      <4>2. CASE CleanupError(c)
        BY <4>2 DEF CleanupError, IInv, TypeOK
      <4> QED
        BY <2>2, <4>1, <4>2
    <3>2. UNCHANGED <<rows, members, now, call, del, volatile, torn>>
      BY <2>2 DEF CleanupSelect, CleanupError
    <3> QED
      BY <3>1, <3>2 DEF IInv, GapInv, TypeOK, ExpiryIsRecorded, DoomedIsVolatile,
                        MembersHaveParent, DroppedIsEmpty, DeletedIsSeen, GoneIsNamed, Has
  <2> QED
    BY <1>4, <2>1, <2>2 DEF CleanupStep
<1>5. CASE Tick
  BY <1>5 DEF Tick, IInv, GapInv, TypeOK, ExpiryIsRecorded, DoomedIsVolatile,
              MembersHaveParent, DroppedIsEmpty, DeletedIsSeen, GoneIsNamed, Has
<1>6. CASE UNCHANGED vars
  BY <1>6 DEF vars, IInv, GapInv, TypeOK, ExpiryIsRecorded, DoomedIsVolatile,
              MembersHaveParent, DroppedIsEmpty, DeletedIsSeen, GoneIsNamed, Has
<1> QED
  BY <1>1, <1>2, <1>3, <1>4, <1>5, <1>6, <1>7 DEF Next

(* The inductive invariant holds throughout. *)
THEOREM Invariance == Spec => []IInv
BY InitIInv, NextIInv, PTL DEF Spec

(* Every variable keeps its type; counters stay within int64 (IncrBy). *)
THEOREM TypeCorrect == Spec => []TypeOK
<1>1. IInv => TypeOK
  BY DEF IInv
<1> QED
  BY <1>1, Invariance, PTL

(* Members have a sorted-set row, through every command, whatever expires  *)
(* and fails, unless the key met one of the gaps: a ZADD between the two   *)
(* DELETEs of a DEL or a lazy deletion, the failure of the first of the    *)
(* latter, or CleanupExpired, which leaves the members.                    *)
THEOREM OrphansOnlyFromGaps == Spec => []MembersHaveParent
<1>1. IInv => MembersHaveParent
  BY DEF IInv, GapInv
<1> QED
  BY <1>1, Invariance, PTL

LEMMA StringStepLoses ==
  ASSUME IInv, StringStep, NEW id \in Ids, ~Expired(rows[id]), Loses(id)
  PROVE  Removal(id)
<1>0. Fetched(id) = rows[id] /\ FetchedMembers(id) = members[id]
  BY LiveIsFetched
<1>1. ASSUME NEW data, NEW opts \in SetOptions, Upsert(data, opts) PROVE FALSE
  <2>1. members'[id] = members[id]
    BY <1>0, <1>1 DEF Upsert, SaveMembers
  <2>2. rows'[id] = rows[id] \/ rows'[id].typ = "string"
    BY <1>0, <1>1 DEF Upsert, Save, Written
  <2> QED
    BY <2>1, <2>2 DEF Loses, Present
<1>2. ASSUME NEW other \in Ids, GetDel(other) PROVE Removal(id)
  <2>1. CASE other = id
    BY <1>2, <2>1 DEF Removal
  <2>2. CASE other # id
    BY <1>2, <2>2 DEF GetDel, Save, SaveMembers, Loses, IInv, TypeOK
  <2> QED
    BY <2>1, <2>2
<1>3. ASSUME NEW other \in Ids, NEW delta \in {-1, 1}, IncrBy(other, delta) PROVE FALSE
  <2>1. members'[id] = members[id]
    BY <1>0, <1>3 DEF IncrBy, SaveMembers, IInv, TypeOK
  <2>2. rows'[id] = rows[id] \/ rows'[id].typ = "string"
    BY <1>3 DEF IncrBy, Save, IInv, TypeOK
  <2> QED
    BY <2>1, <2>2 DEF Loses, Present
<1> QED
  BY <1>1, <1>2, <1>3 DEF StringStep, Set, MSet, MSetOptions

LEMMA ZSetStepLoses ==
  ASSUME IInv, ZSetStep, NEW id \in Ids, ~Expired(rows[id]), Loses(id)
  PROVE  Removal(id)
<1>0. TypeOK /\ Fetched(id) = rows[id] /\ FetchedMembers(id) = members[id]
  BY LiveIsFetched DEF IInv
<1>1. ASSUME NEW other \in Ids, NEW m \in Members, NEW score \in Scores,
             ZWrite(other, m, score)
      PROVE  FALSE
  <2>0. score # Absent
    BY ConstantsAssumption
  <2>1. Fetched(other).ver + 1 \in Nat
    BY <1>0, FetchedType DEF Row
  <2>2. Present(rows[id]) => Present(rows'[id])
    <3>1. CASE Present(Fetched(other))
      BY <1>0, <1>1, <2>1, <3>1, VersionedKeepsTyp DEF ZWrite, Save, Present
    <3>2. CASE ~Present(Fetched(other))
      BY <1>0, <1>1, <3>2 DEF ZWrite, Save, Present, NewZSet, TypeOK
    <3> QED
      BY <3>1, <3>2
  <2>3. \A n \in Members : members[id][n] # Absent => members'[id][n] # Absent
    <3>1. CASE FetchedMembers(other)[m] = Absent
      <4>1. members' = [members EXCEPT ![other] = [FetchedMembers(other) EXCEPT ![m] = score]]
        BY <1>1, <3>1 DEF ZWrite, SaveMembers
      <4>2. FetchedMembers(other) \in [Members -> Scores \cup {Absent}]
        BY <1>0, FetchedType
      <4> QED
        BY <1>0, <2>0, <4>1, <4>2 DEF TypeOK
    <3>2. CASE FetchedMembers(other)[m] # Absent
      BY <1>0, <1>1, <2>0, <3>2 DEF ZWrite, SaveMembers, TypeOK
    <3> QED
      BY <3>1, <3>2
  <2> QED
    BY <2>2, <2>3 DEF Loses
<1>2. ASSUME NEW other \in Ids, NEW count \in 1 .. 2, NEW max \in BOOLEAN,
             zpop(other, count, max)
      PROVE  Removal(id)
  <2>1. CASE other = id
    BY <1>2, <2>1 DEF Removal
  <2>2. CASE other # id
    <3>0. rows[other].ver + 1 \in Nat
      BY <1>0 DEF TypeOK, Row
    <3>1. members'[id] = members[id]
      BY <1>0, <1>2, <2>2 DEF zpop, SaveMembers, TypeOK
    <3>2. rows'[id] = rows[id] \/ rows'[id] = Versioned(other, rows[other].ver + 1)[id]
      BY <1>0, <1>2, <2>2 DEF zpop, Save, TypeOK
    <3>3. rows'[id].typ = rows[id].typ
      BY <1>0, <3>0, <3>2, VersionedKeepsTyp
    <3> QED
      BY <3>1, <3>3 DEF Loses, Present
  <2> QED
    BY <2>1, <2>2
<1> QED
  BY <1>1, <1>2 DEF ZSetStep, ZAdd, ZIncrBy

LEMMA CallStepLoses ==
  ASSUME IInv, NEW p \in Procs, CallStep(p), NEW id \in Ids, Loses(id)
  PROVE  Removal(id) \/ (id \in volatile /\ LazyRemoval(id))
<1>0. TypeOK /\ call[p].id \in Ids
  BY DEF IInv, TypeOK
<1>1. ASSUME UNCHANGED <<rows, members>> PROVE FALSE
  BY <1>1 DEF Loses
<1>2. CASE LazyDropMembers(p) \/ LazyDropKey(p)
  <2>1. CASE id = call[p].id
    BY <1>2, <2>1 DEF LazyDropMembers, LazyDropKey, IInv, DoomedIsVolatile, LazyRemoval
  <2>2. CASE id # call[p].id
    BY <1>0, <1>2, <2>2 DEF LazyDropMembers, LazyDropKey, Save, SaveMembers, Loses, TypeOK
  <2> QED
    BY <2>1, <2>2
<1>3. ASSUME NEW expiry, UpdateExpiry(p, expiry) PROVE FALSE
  <2>0. rows[id] \in Row
    BY <1>0 DEF TypeOK
  <2>a. PICK new : rows'[id] \in {rows[id], [rows[id] EXCEPT !.exp = expiry, !.ver = new]}
    BY <1>3 DEF UpdateExpiry, Save
  <2>1. rows'[id].typ = rows[id].typ
    BY <2>0, <2>a DEF Row
  <2> QED
    BY <1>3, <2>1 DEF UpdateExpiry, Loses, Present
<1>4. ASSUME NEW S \in SUBSET Members, RemoveMembers(p, S) PROVE Removal(id)
  <2>1. CASE call[p].id = id
    BY <1>4, <2>1 DEF Removal
  <2>2. CASE call[p].id # id
    BY <1>0, <1>4, <2>2 DEF RemoveMembers, SaveMembers, Loses, TypeOK
  <2> QED
    BY <2>1, <2>2
<1>5. CASE BumpVersion(p)
  <2>1. call[p].row.ver + 1 \in Nat
    BY <1>0 DEF TypeOK, Row
  <2>2. rows'[id].typ = rows[id].typ
    BY <1>0, <1>5, <2>1, VersionedKeepsTyp DEF BumpVersion, Save
  <2> QED
    BY <1>5, <2>2 DEF BumpVersion, Loses, Present
<1>6. CASE \E op \in Ops, other \in Ids : getLiveRow(p, op, other)
  BY <1>1, <1>6 DEF getLiveRow
<1>7. CASE CheckExpiry(p) \/ StatementError(p)
  BY <1>1, <1>7 DEF CheckExpiry, StatementError, SaveMembers
<1> QED
  BY <1>2, <1>3, <1>4, <1>5, <1>6, <1>7
  DEF CallStep, Expire, Persist, ZRem, ZRemRangeByScore, Has

LEMMA DeleteStepLoses ==
  ASSUME NEW p \in Procs, DeleteStep(p), NEW id \in Ids, IInv, Loses(id)
  PROVE  Removal(id)
<1>1. CASE DeleteKeys(p)
  <2>1. CASE id \in del[p].ids
    BY <1>1, <2>1 DEF Removal
  <2>2. CASE id \notin del[p].ids
    <3>1. rows'[id] = rows[id]
      BY <1>1, <2>2 DEF DeleteKeys, Save
    <3>2. PICK m \in Members : members[id][m] # Absent /\ members'[id][m] = Absent
      BY <3>1 DEF Loses
    <3>3. <<id, m>> \in del[p].gone
      BY <1>1, <3>2 DEF DeleteKeys, SaveMembers
    <3> QED
      BY <2>2, <3>3 DEF IInv, GoneIsNamed
  <2> QED
    BY <2>1, <2>2
<1>2. CASE DeleteError(p) \/ UNCHANGED <<rows, members>>
  BY <1>2 DEF DeleteError, Loses
<1> QED
  BY <1>1, <1>2 DEF DeleteStep, DeleteMembers

LEMMA StepLoses ==
  ASSUME IInv, [Next]_vars
  PROVE  [\A id \in Ids : Loses(id) =>
             \/ Removal(id)
             \/ id \in volatile /\ (Expired(rows[id]) \/ LazyRemoval(id))]_vars
<1> SUFFICES ASSUME Next, NEW id \in Ids, Loses(id), ~Expired(rows[id])
             PROVE  Removal(id) \/ (id \in volatile /\ LazyRemoval(id))
  BY ExpiredIsVolatile
<1>1. CASE StringStep
  BY <1>1, StringStepLoses
<1>2. CASE ZSetStep
  BY <1>2, ZSetStepLoses
<1>3. ASSUME NEW p \in Procs, CallStep(p)
      PROVE  Removal(id) \/ (id \in volatile /\ LazyRemoval(id))
  BY <1>3, CallStepLoses
<1>4. ASSUME NEW p \in Procs, DeleteStep(p) PROVE Removal(id)
  BY <1>4, DeleteStepLoses
<1>5. ASSUME NEW c \in Cleaners, CleanupStep(c) PROVE FALSE
  BY <1>5 DEF CleanupStep, CleanupSelect, CleanupDelete, CleanupError, Save, SaveMembers, Loses
<1>6. CASE Tick
  BY <1>6 DEF Tick, Loses
<1> QED
  BY <1>1, <1>2, <1>3, <1>4, <1>5, <1>6 DEF Next

(* No interleaving of readers, cleanup passes and writers loses a key, or  *)
(* a member of a key, that never had an expiry time: only the commands     *)
(* that remove it do (GetDel, Delete, zpop, ZRem, ZRemRangeByScore). One   *)
(* that had an expiry time goes also when it is expired, or by a reader    *)
(* that saw it expired, and by nothing else.                               *)
THEOREM Durability == Spec => Durable
BY Invariance, StepLoses, PTL DEF Spec, Durable
=============================================================================
