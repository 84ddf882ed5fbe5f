--------------------------- MODULE L1CacheProofs ----------------------------
(***************************************************************************)
(* For every choice of the constants of L1Cache: an entry filled by a GET  *)
(* that nothing overtook agrees with the store unless an invalidation is   *)
(* pending, and no entry outlives DefaultTTL.                              *)
(*                                                                         *)
(* Coherent is not inductive: the same must hold of the insertions that    *)
(* wait in Ristretto's buffer, of which only the markers behind them count *)
(* as pending, and of the values that GETs have read and not yet cached.   *)
(***************************************************************************)
EXTENDS L1Cache, TLAPS

(* Entries, whether or not they are past their deadline. *)
CacheAgrees ==
    \A k \in Keys :
        Cached(k) /\ cache[k].origin = "clean" /\ ~Pending(k, 0) => Agrees(cache[k], db[k])

(* Insertions waiting in the buffer. *)
BufAgrees ==
    \A i \in DOMAIN buf, k \in Keys :
        /\ buf[i].key = k /\ ~IsMarker(buf[i]) /\ buf[i].origin = "clean"
        /\ ~Pending(k, i)
        => Agrees(buf[i], db[k])

(* Rows read by a GET, until a commit marks them. *)
ReadAgrees ==
    \A p \in Procs, k \in Keys :
        call[p].at = "read" /\ call[p].keys = {k} /\ call[p].origin = "clean" =>
            call[p].row = db[k]

BufBounded == \A i \in DOMAIN buf : buf[i].until <= now + DefaultTTL

(* A GET works on one key, and has read a value once it has read. *)
CallsWellFormed ==
    \A p \in Procs :
        call[p].at = "read" => call[p].row.val # NoValue /\ \E k \in Keys : call[p].keys = {k}

IInv ==
    /\ TypeOK
    /\ CacheAgrees /\ BufAgrees /\ ReadAgrees
    /\ BoundedLife /\ BufBounded
    /\ CallsWellFormed

-----------------------------------------------------------------------------
LEMMA Constants ==
  /\ NoRow \in Row /\ Idle \in Call
  /\ NoEntry.val = NoValue /\ NoEntry.until = 0
  /\ \A t \in TTLs \cup {0} : t \in Nat
BY CacheAssumption DEF NoRow, Row, Idle, Call, NoEntry, Null, Origins

LEMMA BufItems ==
  ASSUME TypeOK
  PROVE  /\ Len(buf) \in Nat /\ DOMAIN buf = 1 .. Len(buf)
         /\ \A i \in DOMAIN buf : i \in Nat /\ buf[i] \in Item
BY DEF TypeOK

(* What FillEntry makes of a row read by a GET. *)
LEMMA FillEntryFacts ==
  ASSUME TypeOK, CallsWellFormed, NEW p \in Procs, call[p].at = "read"
  PROVE  /\ FillEntry(call[p]) \in Entry
         /\ FillEntry(call[p]).until <= now + DefaultTTL
         /\ FillEntry(call[p]).val = call[p].row.val
         /\ FillEntry(call[p]).val # NoValue
         /\ FillEntry(call[p]).origin = "clean" =>
              call[p].origin = "clean" /\ Agrees(FillEntry(call[p]), call[p].row)
<1> DEFINE c == call[p]
           e == FillEntry(c)
           ttl == EntryTTL(Remaining(c.row))
<1>1. c \in Call /\ c.row \in Row /\ c.origin \in Origins /\ now \in Nat
  BY DEF TypeOK, Call
<1>2. c.row.exp \in Nat /\ c.row.val \in Values
  BY <1>1 DEF CallsWellFormed, Row
<1>3. DefaultTTL \in Nat /\ DefaultTTL > 0
  BY CacheAssumption
<1>4. Remaining(c.row) \in Int
  BY <1>1, <1>2 DEF Remaining
<1>5. ttl \in Nat /\ ttl <= DefaultTTL
  BY <1>3, <1>4 DEF EntryTTL
<1>6. e \in Entry /\ e.until = now + ttl /\ e.val = c.row.val
  BY <1>1, <1>2, <1>5 DEF FillEntry, Entry, Origins
<1>7. ASSUME e.origin = "clean" PROVE c.origin = "clean" /\ Agrees(e, c.row)
  <2>1. c.origin = "clean" /\ (c.row.exp # Null => c.row.exp > now)
    BY <1>1, <1>2, <1>7 DEF FillEntry, Null
  <2>2. c.row.exp # Null => ttl <= c.row.exp - now
    BY <1>1, <1>2, <1>3, <2>1 DEF EntryTTL, Remaining
  <2> QED
    BY <1>1, <1>2, <1>5, <1>6, <2>1, <2>2 DEF Agrees
<1>8. NoValue \notin Values
  BY CacheAssumption
<1> QED
  BY <1>1, <1>2, <1>3, <1>5, <1>6, <1>7, <1>8

-----------------------------------------------------------------------------
(* GET up to the fill: only the call changes, and it is not a writer's. *)
LEMMA GetCallKeeps ==
  ASSUME IInv, NEW p \in Procs, NEW c \in Call,
         call[p].at # "committed", c.at # "committed",
         call' = [call EXCEPT ![p] = c],
         c.at = "read" => /\ c.row.val # NoValue
                          /\ \E k \in Keys : c.keys = {k} /\ c.row = db[k],
         UNCHANGED <<db, cache, buf, now>>
  PROVE  IInv'
<1>1. TypeOK' /\ CallsWellFormed'
  BY DEF IInv, TypeOK, CallsWellFormed
<1>2. ReadAgrees'
  BY DEF IInv, TypeOK, ReadAgrees
<1>3. \A k \in Keys, i \in Nat : Pending(k, i)' <=> Pending(k, i)
  BY DEF IInv, TypeOK, Pending, IsMarker
<1>4. CacheAgrees'
  BY <1>3 DEF IInv, CacheAgrees, Cached, Agrees
<1>5. \A i \in DOMAIN buf : i \in Nat
  BY BufItems DEF IInv
<1>6. BufAgrees'
  BY <1>3, <1>5 DEF IInv, BufAgrees, IsMarker, Agrees
<1>7. BoundedLife' /\ BufBounded'
  BY DEF IInv, BoundedLife, BufBounded, Cached
<1> QED
  BY <1>1, <1>2, <1>4, <1>6, <1>7 DEF IInv

LEMMA GetMissKeeps ==
  ASSUME IInv, NEW p \in Procs, NEW k \in Keys, GetMiss(p, k)
  PROVE  IInv'
<1> DEFINE c == [Idle EXCEPT !.at = "missed", !.keys = {k}]
<1>1. c \in Call /\ c.at = "missed"
  BY Constants DEF Call, Idle
<1>2. call' = [call EXCEPT ![p] = c] /\ call[p].at = "idle" /\ UNCHANGED <<db, cache, buf, now>>
  BY DEF GetMiss
<1> HIDE DEF c
<1> QED
  BY <1>1, <1>2, GetCallKeeps

LEMMA StoreGetKeeps ==
  ASSUME IInv, NEW p \in Procs, NEW k \in Keys, StoreGet(p, k)
  PROVE  IInv'
<1> DEFINE r == [call[p] EXCEPT !.at = "read", !.row = db[k]]
           c == IF Live(db[k]) THEN r ELSE Idle
<1>1. call[p] \in Call /\ db[k] \in Row /\ call[p].keys = {k} /\ call[p].at = "missed"
  BY DEF IInv, TypeOK, StoreGet
<1>2. r \in Call /\ r.at = "read" /\ r.row = db[k] /\ r.keys = {k}
  BY <1>1 DEF Call
<1>3. c \in Call /\ c.at # "committed"
  BY <1>2, Constants DEF Idle
<1>4. c.at = "read" => c.row.val # NoValue /\ c.keys = {k} /\ c.row = db[k]
  BY <1>2 DEF Live, Idle
<1>5. call' = [call EXCEPT ![p] = c] /\ UNCHANGED <<db, cache, buf, now>>
  BY DEF StoreGet
<1> HIDE DEF c
<1> QED
  BY <1>1, <1>3, <1>4, <1>5, GetCallKeeps

LEMMA FillKeeps ==
  ASSUME IInv, NEW p \in Procs, NEW k \in Keys, Fill(p, k)
  PROVE  IInv'
<1> DEFINE e == FillEntry(call[p])
           item == Insertion(k, e)
<1>0. TypeOK /\ call[p].at = "read" /\ call[p].keys = {k} /\ Idle.at = "idle"
  BY DEF IInv, Fill, Idle
<1>1. /\ e \in Entry /\ e.until <= now + DefaultTTL /\ e.val # NoValue
      /\ e.origin = "clean" => Agrees(e, db[k])
  BY <1>0, FillEntryFacts DEF IInv, ReadAgrees
<1> HIDE DEF e
<1>2. /\ item \in Item /\ item.key = k /\ item.val = e.val /\ ~IsMarker(item)
      /\ item.until = e.until /\ item.origin = e.origin
  BY <1>1 DEF Insertion, Item, Entry, IsMarker
<1> HIDE DEF item
<1>3. call' = [call EXCEPT ![p] = Idle] /\ UNCHANGED <<db, now>>
  BY DEF Fill
<1>4. ReadAgrees' /\ CallsWellFormed' /\ call' \in [Procs -> Call]
  BY <1>0, <1>3, Constants DEF IInv, TypeOK, ReadAgrees, CallsWellFormed
<1>5. CASE cache' = [cache EXCEPT ![k] = e] /\ UNCHANGED buf
  <2>1. TypeOK'
    BY <1>1, <1>3, <1>4, <1>5 DEF IInv, TypeOK
  <2>2. \A j \in Keys, i \in Nat : Pending(j, i)' <=> Pending(j, i)
    BY <1>0, <1>3, <1>5 DEF TypeOK, Pending, IsMarker
  <2>3. CacheAgrees'
    BY <1>0, <1>1, <1>3, <1>5, <2>2 DEF IInv, TypeOK, CacheAgrees, Cached, Agrees
  <2>4. \A i \in DOMAIN buf : i \in Nat
    BY <1>0, BufItems
  <2>5. BufAgrees'
    BY <1>3, <1>5, <2>2, <2>4 DEF IInv, BufAgrees, IsMarker, Agrees
  <2>6. BoundedLife' /\ BufBounded'
    BY <1>0, <1>1, <1>3, <1>5 DEF IInv, TypeOK, BoundedLife, BufBounded, Cached
  <2> QED
    BY <1>4, <2>1, <2>3, <2>5, <2>6 DEF IInv
<1>6. CASE UNCHANGED cache /\ Len(buf) < MaxBuf /\ buf' = Append(buf, item)
  <2>0. /\ buf \in Seq(Item) /\ Len(buf) \in Nat /\ DOMAIN buf = 1 .. Len(buf)
        /\ buf' \in Seq(Item) /\ Len(buf') = Len(buf) + 1
        /\ DOMAIN buf' = 1 .. Len(buf) + 1
        /\ \A i \in 1 .. Len(buf) : buf'[i] = buf[i]
        /\ buf'[Len(buf) + 1] = item
    BY <1>0, <1>2, <1>6 DEF TypeOK
  <2>1. TypeOK'
    BY <1>3, <1>4, <1>6, <2>0, CacheAssumption DEF IInv, TypeOK
  <2>2. \A j \in Keys, i \in Nat : Pending(j, i) => Pending(j, i)'
    BY <1>0, <1>3, <2>0 DEF TypeOK, Pending, IsMarker
  <2>3. CacheAgrees'
    BY <1>3, <1>6, <2>2 DEF IInv, CacheAgrees, Cached, Agrees
  <2>5. BufAgrees'
    <3> SUFFICES ASSUME NEW i \in 1 .. Len(buf) + 1, NEW j \in Keys,
                        buf'[i].key = j, ~IsMarker(buf'[i]),
                        buf'[i].origin = "clean", ~Pending(j, i)'
                 PROVE  Agrees(buf'[i], db[j])
      BY <1>3, <2>0 DEF BufAgrees, IsMarker, Agrees
    <3>1. CASE i = Len(buf) + 1
      BY <1>1, <1>2, <2>0, <3>1 DEF Agrees
    <3>2. CASE i \in 1 .. Len(buf)
      BY <2>0, <2>2, <3>2 DEF IInv, BufAgrees
    <3> QED
      BY <2>0, <3>1, <3>2
  <2>6. BoundedLife' /\ BufBounded'
    BY <1>1, <1>2, <1>3, <1>6, <2>0 DEF IInv, BoundedLife, BufBounded, Cached
  <2> QED
    BY <1>4, <2>1, <2>3, <2>5, <2>6 DEF IInv
<1>7. CASE UNCHANGED <<cache, buf>>
  <2>1. call[p].at # "committed" /\ Idle.at # "committed" /\ Idle.at # "read"
    BY <1>0
  <2> QED
    BY <1>3, <1>7, <2>1, Constants, GetCallKeeps
<1> QED
  BY <1>5, <1>6, <1>7 DEF Fill, e, item

-----------------------------------------------------------------------------
(* Ristretto's steps *)

LEMMA ProcessItemKeeps ==
  ASSUME IInv, NEW admitted \in BOOLEAN, ProcessItem(admitted)
  PROVE  IInv'
<1> DEFINE item == buf[1]
           e == [val |-> item.val, until |-> item.until, origin |-> item.origin]
<1>0. TypeOK /\ UNCHANGED <<db, call, now>>
  BY DEF IInv, ProcessItem
<1>1. /\ buf \in Seq(Item) /\ Len(buf) \in Nat /\ Len(buf) >= 1
      /\ buf' \in Seq(Item) /\ Len(buf') = Len(buf) - 1
      /\ DOMAIN buf = 1 .. Len(buf) /\ DOMAIN buf' = 1 .. Len(buf) - 1
      /\ \A i \in 1 .. Len(buf) - 1 : buf'[i] = buf[i + 1]
      /\ Head(buf) = item
  BY <1>0 DEF ProcessItem, TypeOK
<1>2. item \in Item
  BY <1>1
<1>3. item.key \in Keys /\ (~IsMarker(item) => e \in Entry)
  BY <1>2 DEF Item, Entry, IsMarker
<1>4. cache' = IF admitted
               THEN [cache EXCEPT ![item.key] = IF IsMarker(item) THEN NoEntry ELSE e]
               ELSE cache
  BY <1>1 DEF ProcessItem
<1>5. IsMarker(item) => admitted
  BY <1>1 DEF ProcessItem
<1>6. TypeOK'
  BY <1>0, <1>1, <1>3, <1>4, CacheAssumption DEF TypeOK
<1>7. \A k \in Keys, i \in Nat : Pending(k, i + 1) => Pending(k, i)'
  <2> SUFFICES ASSUME NEW k \in Keys, NEW i \in Nat, Pending(k, i + 1)
               PROVE  Pending(k, i)'
    OBVIOUS
  <2>1. CASE \E p \in Procs : call[p].at = "committed" /\ k \in call[p].keys
    BY <1>0, <2>1 DEF Pending
  <2>2. ASSUME NEW j \in DOMAIN buf, j > i + 1, buf[j].key = k, buf[j].val = NoValue
        PROVE  Pending(k, i)'
    <3>1. j - 1 \in DOMAIN buf' /\ j - 1 > i /\ buf'[j - 1] = buf[j]
      BY <1>1, <2>2
    <3> QED
      BY <2>2, <3>1 DEF Pending, IsMarker
  <2> QED
    BY <2>1, <2>2 DEF Pending, IsMarker
<1>8. \A k \in Keys : Pending(k, 0) /\ ~(k = item.key /\ IsMarker(item)) => Pending(k, 0)'
  <2> SUFFICES ASSUME NEW k \in Keys, Pending(k, 0), ~(k = item.key /\ IsMarker(item))
               PROVE  Pending(k, 0)'
    OBVIOUS
  <2>1. CASE \E p \in Procs : call[p].at = "committed" /\ k \in call[p].keys
    BY <1>0, <2>1 DEF Pending
  <2>2. ASSUME NEW j \in DOMAIN buf, buf[j].key = k, buf[j].val = NoValue
        PROVE  Pending(k, 0)'
    <3>0. j # 1
      BY <2>2 DEF IsMarker
    <3>1. j - 1 \in DOMAIN buf' /\ j - 1 > 0 /\ buf'[j - 1] = buf[j]
      BY <1>1, <3>0
    <3> QED
      BY <2>2, <3>1 DEF Pending, IsMarker
  <2> QED
    BY <2>1, <2>2 DEF Pending, IsMarker
<1>9. e.val = item.val /\ e.until = item.until /\ e.origin = item.origin
  OBVIOUS
<1> HIDE DEF item, e
<1>10. CacheAgrees'
  <2> SUFFICES ASSUME NEW k \in Keys, cache'[k].val # NoValue,
                      cache'[k].origin = "clean", ~Pending(k, 0)'
               PROVE  Agrees(cache'[k], db[k])
    BY <1>0 DEF CacheAgrees, Cached, Agrees
  <2>1. CASE k = item.key /\ admitted
    <3>1. ~IsMarker(item) /\ cache'[k] = e
      BY <1>0, <1>3, <1>4, <2>1, Constants DEF TypeOK
    <3>2. ~Pending(k, 1)
      BY <1>7
    <3>3. buf[1] = item /\ 1 \in DOMAIN buf
      BY <1>1 DEF item
    <3>4. Agrees(item, db[k])
      BY <1>9, <2>1, <3>1, <3>2, <3>3 DEF IInv, BufAgrees
    <3> QED
      BY <1>9, <3>1, <3>4 DEF Agrees
  <2>2. CASE ~(k = item.key /\ admitted)
    <3>1. cache'[k] = cache[k]
      BY <1>0, <1>4, <2>2 DEF TypeOK
    <3>2. ~Pending(k, 0)
      BY <1>5, <1>8, <2>2
    <3> QED
      BY <3>1, <3>2 DEF IInv, CacheAgrees, Cached
  <2> QED
    BY <2>1, <2>2
<1>11. BufAgrees'
  <2> SUFFICES ASSUME NEW i \in 1 .. Len(buf) - 1, NEW k \in Keys,
                      buf'[i].key = k, ~IsMarker(buf'[i]),
                      buf'[i].origin = "clean", ~Pending(k, i)'
               PROVE  Agrees(buf'[i], db[k])
    BY <1>0, <1>1 DEF BufAgrees, IsMarker, Agrees
  <2>1. ~Pending(k, i + 1) /\ i + 1 \in DOMAIN buf /\ buf'[i] = buf[i + 1]
    BY <1>1, <1>7
  <2> QED
    BY <2>1 DEF IInv, BufAgrees
<1>12. BufBounded'
  <2> SUFFICES ASSUME NEW i \in 1 .. Len(buf) - 1
               PROVE  buf'[i].until <= now + DefaultTTL
    BY <1>0, <1>1 DEF BufBounded
  <2>1. i + 1 \in DOMAIN buf /\ buf'[i] = buf[i + 1]
    BY <1>1
  <2> QED
    BY <2>1 DEF IInv, BufBounded
<1>13. BoundedLife'
  <2>1. item.until <= now + DefaultTTL
    BY <1>1 DEF IInv, BufBounded, item
  <2> QED
    BY <1>0, <1>3, <1>4, <1>9, <2>1, Constants DEF IInv, TypeOK, BoundedLife, Cached
<1>14. ReadAgrees' /\ CallsWellFormed'
  BY <1>0 DEF IInv, ReadAgrees, CallsWellFormed
<1> QED
  BY <1>6, <1>10, <1>11, <1>12, <1>13, <1>14 DEF IInv

LEMMA EvictKeeps ==
  ASSUME IInv, NEW k \in Keys, Evict(k)
  PROVE  IInv'
<1>0. TypeOK /\ UNCHANGED <<db, buf, call, now>> /\ cache' = [cache EXCEPT ![k] = NoEntry]
  BY DEF IInv, Evict
<1>1. TypeOK'
  BY <1>0 DEF TypeOK
<1>2. \A j \in Keys, i \in Nat : Pending(j, i)' <=> Pending(j, i)
  BY <1>0 DEF Pending, IsMarker
<1>3. CacheAgrees' /\ BoundedLife'
  BY <1>0, <1>2, Constants DEF IInv, TypeOK, CacheAgrees, BoundedLife, Cached, Agrees
<1>4. BufAgrees' /\ BufBounded'
  BY <1>0, <1>2, BufItems DEF IInv, BufAgrees, BufBounded, IsMarker, Agrees
<1>5. ReadAgrees' /\ CallsWellFormed'
  BY <1>0 DEF IInv, ReadAgrees, CallsWellFormed
<1> QED
  BY <1>1, <1>3, <1>4, <1>5 DEF IInv

-----------------------------------------------------------------------------
(* Writers *)

(* Marking a call as overtaken changes only its origin. *)
LEMMA OutdatedFacts ==
  ASSUME TypeOK, NEW ks \in SUBSET Keys, NEW o \in Origins, NEW q \in Procs
  PROVE  LET c == Outdated(call, ks, o)[q]
         IN  /\ c \in Call
             /\ c.at = call[q].at /\ c.keys = call[q].keys /\ c.row = call[q].row
             /\ c.origin = IF call[q].at = "read" /\ call[q].keys \subseteq ks
                           THEN o ELSE call[q].origin
<1>1. call[q] \in Call
  BY DEF TypeOK
<1>2. CASE call[q].at = "read" /\ call[q].keys \subseteq ks
  <2>1. Outdated(call, ks, o)[q] = [call[q] EXCEPT !.origin = o]
    BY <1>2 DEF Outdated
  <2> QED
    BY <1>1, <1>2, <2>1 DEF Call
<1>3. CASE ~(call[q].at = "read" /\ call[q].keys \subseteq ks)
  <2>1. Outdated(call, ks, o)[q] = call[q]
    BY <1>3 DEF Outdated
  <2> QED
    BY <1>1, <1>3, <2>1
<1> QED
  BY <1>2, <1>3

LEMMA CommitKeeps ==
  ASSUME IInv, NEW p \in Procs, NEW ks \in SUBSET Keys, NEW new \in [ks -> Row],
         Commit(p, ks, new)
  PROVE  IInv'
<1> DEFINE c == [Idle EXCEPT !.at = "committed", !.keys = ks]
<1>0. TypeOK /\ UNCHANGED <<cache, buf, now>> /\ call[p].at = "idle"
      /\ db' = [k \in Keys |-> IF k \in ks THEN new[k] ELSE db[k]]
      /\ call' = [Outdated(call, ks, "raced") EXCEPT ![p] = c]
  BY DEF IInv, Commit
<1>1. c \in Call /\ c.at = "committed" /\ c.keys = ks
  BY Constants DEF Call, Idle
<1> HIDE DEF c
<1>2. call'[p] = c
  BY <1>0 DEF Outdated
<1>3. \A q \in Procs \ {p} :
         /\ call'[q] \in Call
         /\ call'[q].at = call[q].at /\ call'[q].keys = call[q].keys
         /\ call'[q].row = call[q].row
         /\ call'[q].origin = IF call[q].at = "read" /\ call[q].keys \subseteq ks
                              THEN "raced" ELSE call[q].origin
  <2> SUFFICES ASSUME NEW q \in Procs, q # p
               PROVE  /\ call'[q] \in Call
                      /\ call'[q].at = call[q].at /\ call'[q].keys = call[q].keys
                      /\ call'[q].row = call[q].row
                      /\ call'[q].origin = IF call[q].at = "read" /\ call[q].keys \subseteq ks
                                           THEN "raced" ELSE call[q].origin
    OBVIOUS
  <2>1. call'[q] = Outdated(call, ks, "raced")[q]
    BY <1>0 DEF Outdated
  <2>2. "raced" \in Origins
    BY DEF Origins
  <2> QED
    BY <1>0, <2>1, <2>2, OutdatedFacts
<1>4. TypeOK'
  <2>1. call' \in [Procs -> Call]
    BY <1>0, <1>1, <1>2, <1>3 DEF Outdated
  <2>2. db' \in [Keys -> Row]
    BY <1>0 DEF TypeOK
  <2> QED
    BY <1>0, <2>1, <2>2 DEF TypeOK
<1>5. \A k \in Keys, i \in Nat : Pending(k, i) \/ k \in ks => Pending(k, i)'
  BY <1>0, <1>1, <1>2, <1>3 DEF Pending, IsMarker
<1>6. CacheAgrees' /\ BoundedLife'
  BY <1>0, <1>5 DEF IInv, CacheAgrees, BoundedLife, Cached, Agrees
<1>7. BufAgrees' /\ BufBounded'
  BY <1>0, <1>5, BufItems DEF IInv, BufAgrees, BufBounded, IsMarker, Agrees
<1>8. ReadAgrees'
  <2> SUFFICES ASSUME NEW q \in Procs, NEW k \in Keys, call'[q].at = "read",
                      call'[q].keys = {k}, call'[q].origin = "clean"
               PROVE  call'[q].row = db'[k]
    BY DEF ReadAgrees
  <2>1. q \in Procs \ {p}
    BY <1>1, <1>2
  <2>2. call[q].at = "read" /\ call[q].keys = {k}
    BY <1>3, <2>1
  <2>3. k \notin ks /\ call[q].origin = "clean"
    BY <1>3, <2>1, <2>2
  <2> QED
    BY <1>0, <1>3, <2>1, <2>2, <2>3 DEF IInv, ReadAgrees
<1>9. CallsWellFormed'
  <2> SUFFICES ASSUME NEW q \in Procs, call'[q].at = "read"
               PROVE  call'[q].row.val # NoValue /\ \E k \in Keys : call'[q].keys = {k}
    BY DEF CallsWellFormed
  <2>1. q \in Procs \ {p}
    BY <1>1, <1>2
  <2> QED
    BY <1>3, <2>1 DEF IInv, CallsWellFormed
<1> QED
  BY <1>4, <1>6, <1>7, <1>8, <1>9 DEF IInv

LEMMA InvalidateKeeps ==
  ASSUME IInv, NEW p \in Procs, NEW k \in Keys, Invalidate(p, k)
  PROVE  IInv'
<1> DEFINE rest == [call[p] EXCEPT !.keys = call[p].keys \ {k}]
           c == IF call[p].keys = {k} THEN Idle ELSE rest
           m == Marker(k)
<1>0. TypeOK /\ call[p].at = "committed" /\ k \in call[p].keys /\ Len(buf) < MaxBuf
      /\ cache' = [cache EXCEPT ![k] = NoEntry] /\ buf' = Append(buf, m)
      /\ call' = [call EXCEPT ![p] = c] /\ UNCHANGED <<db, now>>
  BY DEF IInv, Invalidate
<1>1. rest \in Call /\ rest.at = "committed" /\ rest.keys = call[p].keys \ {k}
  BY <1>0 DEF TypeOK, Call
<1>2. c \in Call /\ c.at # "read"
  BY <1>1, Constants DEF Idle
<1>3. \A j \in Keys \ {k} : j \in call[p].keys => c.at = "committed" /\ j \in c.keys
  BY <1>1
<1>4. m \in Item /\ m.key = k /\ IsMarker(m) /\ m.until = 0
  BY DEF Marker, Insertion, NoEntry, Item, IsMarker, Origins
<1> HIDE DEF c, m
<1>5. /\ Len(buf) \in Nat /\ DOMAIN buf = 1 .. Len(buf)
      /\ buf' \in Seq(Item) /\ Len(buf') = Len(buf) + 1
      /\ DOMAIN buf' = 1 .. Len(buf) + 1
      /\ \A i \in 1 .. Len(buf) : buf'[i] = buf[i]
      /\ buf'[Len(buf) + 1] = m
  BY <1>0, <1>4 DEF TypeOK
<1>6. TypeOK'
  BY <1>0, <1>2, <1>5, CacheAssumption DEF TypeOK
<1>7. \A j \in Keys \ {k}, i \in Nat : Pending(j, i) => Pending(j, i)'
  <2> SUFFICES ASSUME NEW j \in Keys, j # k, NEW i \in Nat, Pending(j, i)
               PROVE  Pending(j, i)'
    OBVIOUS
  <2>1. ASSUME NEW q \in Procs, call[q].at = "committed", j \in call[q].keys
        PROVE  call'[q].at = "committed" /\ j \in call'[q].keys
    BY <1>0, <1>3, <2>1 DEF TypeOK
  <2>2. ASSUME NEW n \in DOMAIN buf, n > i, buf[n].key = j, IsMarker(buf[n])
        PROVE  n \in DOMAIN buf' /\ buf'[n] = buf[n]
    BY <1>5
  <2> QED
    BY <2>1, <2>2 DEF Pending, IsMarker
<1>8. \A i \in 1 .. Len(buf) : Pending(k, i)'
  BY <1>4, <1>5 DEF Pending, IsMarker
<1>9. CacheAgrees' /\ BoundedLife'
  BY <1>0, <1>7, Constants DEF IInv, TypeOK, CacheAgrees, BoundedLife, Cached, Agrees
<1>10. BufAgrees'
  <2> SUFFICES ASSUME NEW i \in 1 .. Len(buf) + 1, NEW j \in Keys,
                      buf'[i].key = j, ~IsMarker(buf'[i]),
                      buf'[i].origin = "clean", ~Pending(j, i)'
               PROVE  Agrees(buf'[i], db[j])
    BY <1>0, <1>5 DEF BufAgrees, IsMarker, Agrees
  <2>1. i \in 1 .. Len(buf) /\ j # k
    BY <1>4, <1>5, <1>8
  <2>2. ~Pending(j, i) /\ buf'[i] = buf[i] /\ i \in DOMAIN buf
    BY <1>5, <1>7, <2>1
  <2> QED
    BY <2>2 DEF IInv, BufAgrees
<1>11. BufBounded'
  <2>1. DefaultTTL \in Nat /\ now \in Nat
    BY <1>0, CacheAssumption DEF TypeOK
  <2> QED
    BY <1>0, <1>4, <1>5, <2>1 DEF IInv, BufBounded
<1>12. ReadAgrees' /\ CallsWellFormed'
  BY <1>0, <1>2 DEF IInv, TypeOK, ReadAgrees, CallsWellFormed
<1> QED
  BY <1>6, <1>9, <1>10, <1>11, <1>12 DEF IInv

LEMMA ForeignWriteKeeps ==
  ASSUME IInv, NEW k \in Keys, NEW row \in Row, ForeignWrite(k, row)
  PROVE  IInv'
<1>0. TypeOK /\ now' = now /\ db' = [db EXCEPT ![k] = row]
      /\ call' = Outdated(call, {k}, "foreign") /\ "foreign" \in Origins
  BY DEF IInv, ForeignWrite, Origins
<1>1. /\ Len(buf) \in Nat /\ DOMAIN buf = 1 .. Len(buf)
      /\ \A i \in DOMAIN buf : i \in Nat /\ buf[i] \in Item
  BY <1>0, BufItems
<1>2. DOMAIN buf' = DOMAIN buf /\ \A i \in DOMAIN buf :
         /\ buf'[i] \in Item
         /\ buf'[i].key = buf[i].key /\ buf'[i].val = buf[i].val
         /\ buf'[i].until = buf[i].until
         /\ buf'[i].origin = IF buf[i].key = k /\ ~IsMarker(buf[i])
                             THEN "foreign" ELSE buf[i].origin
  BY <1>0, <1>1 DEF ForeignWrite, Item
<1>3. buf' \in Seq(Item) /\ Len(buf') = Len(buf)
  <2>1. buf' = [i \in 1 .. Len(buf) |-> buf'[i]]
    BY <1>1 DEF ForeignWrite
  <2>2. \A i \in 1 .. Len(buf) : buf'[i] \in Item
    BY <1>1, <1>2
  <2> QED
    BY <1>1, <2>1, <2>2
<1>4. \A j \in Keys :
         /\ cache'[j].val = cache[j].val /\ cache'[j].until = cache[j].until
         /\ cache'[j] \in Entry \cup {NoEntry}
         /\ j # k => cache'[j] = cache[j]
         /\ Cached(k) => cache'[k].origin = "foreign"
  <2>1. cache[k] \in Entry \cup {NoEntry}
    BY <1>0 DEF TypeOK
  <2>2. CASE Cached(k)
    <3>1. cache[k] \in Entry
      BY <2>1, <2>2, Constants DEF Cached
    <3> QED
      BY <1>0, <2>2, <3>1 DEF ForeignWrite, Entry, TypeOK
  <2>3. CASE ~Cached(k)
    <3>1. cache' = cache
      <4>1. cache[k].val = NoValue
        BY <2>3 DEF Cached
      <4>2. cache[k] = NoEntry
        BY <2>1, <4>1, CacheAssumption DEF Entry
      <4>3. cache' = [cache EXCEPT ![k] = [NoEntry EXCEPT !.origin = NoEntry.origin]]
        BY <2>3, <4>2 DEF ForeignWrite
      <4>4. [NoEntry EXCEPT !.origin = NoEntry.origin] = NoEntry
        BY DEF NoEntry
      <4> QED
        BY <1>0, <4>2, <4>3, <4>4 DEF TypeOK
    <3> QED
      BY <1>0, <2>3, <3>1 DEF TypeOK
  <2> QED
    BY <2>2, <2>3
<1>5. \A q \in Procs :
         /\ call'[q] \in Call
         /\ call'[q].at = call[q].at /\ call'[q].keys = call[q].keys
         /\ call'[q].row = call[q].row
         /\ call'[q].origin = IF call[q].at = "read" /\ call[q].keys \subseteq {k}
                              THEN "foreign" ELSE call[q].origin
  BY <1>0, OutdatedFacts
<1>6. TypeOK'
  <2>1. call' \in [Procs -> Call]
    BY <1>0, <1>5 DEF Outdated
  <2>2. cache' \in [Keys -> Entry \cup {NoEntry}]
    BY <1>0, <1>4 DEF ForeignWrite, TypeOK
  <2> QED
    BY <1>0, <1>3, <2>1, <2>2 DEF TypeOK
<1>7. \A j \in Keys, i \in Nat : Pending(j, i) => Pending(j, i)'
  BY <1>1, <1>2, <1>5 DEF Pending, IsMarker
<1>8. CacheAgrees' /\ BoundedLife'
  <2>1. \A j \in Keys : j # k => db'[j] = db[j]
    BY <1>0 DEF TypeOK
  <2> QED
    BY <1>0, <1>4, <1>7, <2>1 DEF IInv, CacheAgrees, BoundedLife, Cached, Agrees
<1>9. BufAgrees' /\ BufBounded'
  <2>1. \A j \in Keys : j # k => db'[j] = db[j]
    BY <1>0 DEF TypeOK
  <2>2. BufAgrees'
    <3> SUFFICES ASSUME NEW i \in DOMAIN buf, NEW j \in Keys,
                        buf'[i].key = j, ~IsMarker(buf'[i]),
                        buf'[i].origin = "clean", ~Pending(j, i)'
                 PROVE  Agrees(buf'[i], db'[j])
      BY <1>2 DEF BufAgrees, IsMarker, Agrees
    <3>1. j # k /\ buf[i].key = j /\ ~IsMarker(buf[i]) /\ buf[i].origin = "clean"
      BY <1>2 DEF IsMarker
    <3>2. Agrees(buf[i], db[j])
      BY <1>1, <1>7, <3>1 DEF IInv, BufAgrees
    <3> QED
      BY <1>2, <2>1, <3>1, <3>2 DEF Agrees
  <2>3. BufBounded'
    BY <1>0, <1>2 DEF IInv, BufBounded
  <2> QED
    BY <2>2, <2>3
<1>10. ReadAgrees'
  <2> SUFFICES ASSUME NEW q \in Procs, NEW j \in Keys, call'[q].at = "read",
                      call'[q].keys = {j}, call'[q].origin = "clean"
               PROVE  call'[q].row = db'[j]
    BY DEF ReadAgrees
  <2>1. call[q].at = "read" /\ call[q].keys = {j} /\ call[q].origin = "clean" /\ j # k
    BY <1>5
  <2>2. db'[j] = db[j]
    BY <1>0, <2>1 DEF TypeOK
  <2> QED
    BY <1>5, <2>1, <2>2 DEF IInv, ReadAgrees
<1>11. CallsWellFormed'
  BY <1>5 DEF IInv, CallsWellFormed
<1> QED
  BY <1>6, <1>8, <1>9, <1>10, <1>11 DEF IInv

-----------------------------------------------------------------------------
(* The theorems *)

LEMMA InitIInv == Init => IInv
<1> SUFFICES ASSUME Init PROVE IInv
  OBVIOUS
<1>1. TypeOK
  BY Constants, CacheAssumption DEF Init, TypeOK
<1>2. /\ CacheAgrees /\ BufAgrees /\ ReadAgrees
      /\ BoundedLife /\ BufBounded /\ CallsWellFormed
  BY DEF Init, CacheAgrees, BufAgrees, ReadAgrees, BoundedLife, BufBounded,
         CallsWellFormed, Cached, NoEntry, Idle
<1> QED
  BY <1>1, <1>2 DEF IInv

LEMMA NoEffectKeeps ==
  ASSUME IInv, NEW p \in Procs, NEW k \in Keys, NoEffect(p, k)
  PROVE  IInv'
<1> DEFINE c == [Idle EXCEPT !.at = "committed", !.keys = {k}]
<1>1. c \in Call /\ c.at = "committed"
  BY Constants DEF Call, Idle
<1>2. call' = [call EXCEPT ![p] = c] /\ call[p].at = "idle" /\ UNCHANGED <<db, cache, buf, now>>
  BY DEF NoEffect
<1> HIDE DEF c
<1>3. TypeOK' /\ CallsWellFormed' /\ ReadAgrees'
  BY <1>1, <1>2 DEF IInv, TypeOK, CallsWellFormed, ReadAgrees
<1>4. \A j \in Keys, i \in Nat : Pending(j, i) => Pending(j, i)'
  BY <1>2 DEF IInv, TypeOK, Pending, IsMarker
<1>5. \A i \in DOMAIN buf : i \in Nat
  BY BufItems DEF IInv
<1>6. CacheAgrees'
  BY <1>2, <1>4 DEF IInv, CacheAgrees, Cached, Agrees
<1>7. BufAgrees'
  BY <1>2, <1>4, <1>5 DEF IInv, BufAgrees, IsMarker, Agrees
<1>8. BoundedLife' /\ BufBounded'
  BY <1>2 DEF IInv, BoundedLife, BufBounded, Cached
<1> QED
  BY <1>3, <1>6, <1>7, <1>8 DEF IInv

LEMMA SetRowsType ==
  ASSUME TypeOK, NEW ks \in SUBSET Keys, NEW v \in Values, NEW ttl \in TTLs \cup {0}
  PROVE  SetRows(ks, v, ttl) \in [ks -> Row]
<1>1. \A t \in TTLs \cup {0} : t \in Nat
  BY Constants
<1>2. ttl \in Nat
  BY <1>1, Zenon
<1> QED
  BY <1>2 DEF TypeOK, SetRows, Row, Null

LEMMA WriteStepKeeps == ASSUME IInv, NEW p \in Procs, WriteStep(p) PROVE IInv'
<1>0. TypeOK /\ now \in Nat
  BY DEF IInv, TypeOK
<1>1. ASSUME NEW ks \in SUBSET Keys, NEW v \in Values, NEW ttl \in TTLs \cup {0},
             Set(p, ks, v, ttl)
      PROVE  IInv'
  BY <1>0, <1>1, SetRowsType, CommitKeeps DEF Set
<1>2. ASSUME NEW ks \in SUBSET Keys, Del(p, ks) PROVE IInv'
  <2>1. [k \in ks |-> NoRow] \in [ks -> Row]
    BY Constants
  <2> QED
    BY <1>2, <2>1, CommitKeeps DEF Del
<1>3. ASSUME NEW k \in Keys, NEW row \in Row, Commit(p, {k}, [i \in {k} |-> row]) PROVE IInv'
  <2>1. [i \in {k} |-> row] \in [{k} -> Row] /\ {k} \in SUBSET Keys
    OBVIOUS
  <2> QED
    BY <1>3, <2>1, CommitKeeps
<1>4. \A k \in Keys : db[k] \in Row /\ db[k].exp \in Nat
  BY <1>0 DEF TypeOK, Row
<1>5. ASSUME NEW k \in Keys, NEW v \in Values, IncrBy(p, k, v) PROVE IInv'
  <2>1. [val |-> v, exp |-> IF Live(db[k]) THEN db[k].exp ELSE Null] \in Row
    BY <1>4 DEF Row, Null
  <2> QED
    BY <1>3, <1>5, <2>1 DEF IncrBy
<1>6. ASSUME NEW k \in Keys, NEW ttl \in TTLs \cup {0}, Expire(p, k, ttl) PROVE IInv'
  <2>1. \A t \in TTLs \cup {0} : t \in Nat
    BY Constants
  <2>2. ttl \in Nat
    BY <2>1, Zenon
  <2>3. [db[k] EXCEPT !.exp = now + ttl] \in Row
    BY <1>0, <1>4, <2>2 DEF Row
  <2> QED
    BY <1>3, <1>6, <2>3 DEF Expire
<1>7. ASSUME NEW k \in Keys, Persist(p, k) PROVE IInv'
  <2>1. [db[k] EXCEPT !.exp = Null] \in Row
    BY <1>4 DEF Row, Null
  <2> QED
    BY <1>3, <1>7, <2>1 DEF Persist
<1> QED
  BY <1>1, <1>2, <1>5, <1>6, <1>7, NoEffectKeeps, InvalidateKeeps DEF WriteStep

LEMMA NextIInv == IInv /\ [Next]_vars => IInv'
<1> SUFFICES ASSUME IInv, [Next]_vars PROVE IInv'
  OBVIOUS
<1>1. ASSUME NEW p \in Procs, GetStep(p) PROVE IInv'
  <2>1. CASE StoreGetError(p)
    BY <2>1, GetCallKeeps, Constants DEF StoreGetError, Idle
  <2> QED
    BY <1>1, <2>1, GetMissKeeps, StoreGetKeeps, FillKeeps DEF GetStep
<1>2. ASSUME NEW p \in Procs, WriteStep(p) PROVE IInv'
  BY <1>2, WriteStepKeeps
<1>3. CASE RistrettoStep
  BY <1>3, ProcessItemKeeps, EvictKeeps DEF RistrettoStep
<1>4. ASSUME NEW k \in Keys, NEW v \in Values, NEW ttl \in TTLs \cup {0},
             ForeignWrite(k, SetRows({k}, v, ttl)[k])
      PROVE  IInv'
  <2>1. SetRows({k}, v, ttl) \in [{k} -> Row]
    BY SetRowsType DEF IInv
  <2>2. SetRows({k}, v, ttl)[k] \in Row
    BY <2>1
  <2> QED
    BY <1>4, <2>2, ForeignWriteKeeps
<1>5. ASSUME NEW k \in Keys, ForeignWrite(k, NoRow) PROVE IInv'
  BY <1>5, Constants, ForeignWriteKeeps
<1>6. CASE Tick
  <2>1. UNCHANGED <<db, cache, buf, call>> /\ now' = now + 1
    BY <1>6 DEF Tick
  <2>2. \A k \in Keys, i \in Nat : Pending(k, i)' <=> Pending(k, i)
    BY <2>1 DEF Pending, IsMarker
  <2>3. TypeOK' /\ ReadAgrees' /\ CallsWellFormed'
    BY <2>1 DEF IInv, TypeOK, ReadAgrees, CallsWellFormed
  <2>4. CacheAgrees' /\ BufAgrees'
    BY <2>1, <2>2, BufItems DEF IInv, CacheAgrees, BufAgrees, Cached, IsMarker, Agrees
  <2>5. DefaultTTL \in Nat /\ now \in Nat
        /\ (\A k \in Keys : cache[k].until \in Nat)
        /\ \A i \in DOMAIN buf : buf[i].until \in Nat
    <3>1. \A k \in Keys : cache[k] \in Entry \cup {NoEntry}
      BY DEF IInv, TypeOK
    <3>2. \A i \in DOMAIN buf : buf[i] \in Item
      BY BufItems DEF IInv
    <3> QED
      BY <3>1, <3>2, CacheAssumption DEF IInv, TypeOK, Entry, NoEntry, Item
  <2>6. BoundedLife' /\ BufBounded'
    BY <2>1, <2>5 DEF IInv, BoundedLife, BufBounded, Cached
  <2> QED
    BY <2>3, <2>4, <2>6 DEF IInv
<1>7. CASE UNCHANGED vars
  <2>1. \A k \in Keys, i \in Nat : Pending(k, i)' <=> Pending(k, i)
    BY <1>7 DEF vars, Pending, IsMarker
  <2>2. CacheAgrees' /\ BufAgrees'
    BY <1>7, <2>1, BufItems DEF vars, IInv, CacheAgrees, BufAgrees, Cached, IsMarker, Agrees
  <2> QED
    BY <1>7, <2>2 DEF vars, IInv, TypeOK, ReadAgrees, BoundedLife, BufBounded,
                      CallsWellFormed, Cached
<1> QED
  BY <1>1, <1>2, <1>3, <1>4, <1>5, <1>6, <1>7 DEF Next

(* The inductive invariant holds throughout. *)
THEOREM Invariance == Spec => []IInv
BY InitIInv, NextIInv, PTL DEF Spec

(* Every variable keeps its type, Ristretto's buffer its bound. *)
THEOREM TypeCorrect == Spec => []TypeOK
<1>1. IInv => TypeOK
  BY DEF IInv
<1> QED
  BY <1>1, Invariance, PTL

(* Invalidating after every commit keeps the cache coherent with the       *)
(* store, except for entries of GETs that a write or the expiry overtook   *)
(* and for writes that never invalidate.                                   *)
THEOREM Coherence == Spec => []Coherent
<1>1. IInv => Coherent
  BY DEF IInv, CacheAgrees, Coherent, Visible
<1> QED
  BY <1>1, Invariance, PTL

(* Even those entries are gone DefaultTTL after they were made. *)
THEOREM LifeIsBounded == Spec => []BoundedLife
<1>1. IInv => BoundedLife
  BY DEF IInv
<1> QED
  BY <1>1, Invariance, PTL
=============================================================================
