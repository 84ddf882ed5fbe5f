------------------------------ MODULE L1Cache -------------------------------
(***************************************************************************)
(* The process-local L1 cache in front of the store: Router.get            *)
(* (internal/command/router.go) fills it on a miss, every handler that     *)
(* writes a key commits to the store first and deletes the cache entry     *)
(* afterwards (router.go, storeapi and admin servers), and                 *)
(* internal/cache/memory.go bounds the life of an entry.                   *)
(*                                                                         *)
(* The store is the map db of rows; a call on it is atomic. The cache is   *)
(* Ristretto, modelled from its use: a new entry goes through a bounded    *)
(* FIFO buffer, an existing one is overwritten at once, Del removes the    *)
(* entry at once and again when its marker leaves the buffer.              *)
(***************************************************************************)
EXTENDS Integers, Sequences

CONSTANTS
    Keys,           \* the cache keys "db:key"
    Values,         \* string values
    NoValue,        \* marks a key without a row
    Procs,          \* connections (RESP and HTTP handlers) of this process
    TTLs,           \* positive TTLs of SET EX and EXPIRE
    DefaultTTL,     \* Options.DefaultTTL of the cache
    MaxBuf,         \* capacity of Ristretto's buffer (bound)
    MaxTime         \* bound on the clock

ASSUME CacheAssumption ==
    /\ NoValue \notin Values
    /\ TTLs \subseteq Nat \ {0}
    /\ DefaultTTL \in Nat \ {0}
    /\ MaxBuf \in Nat \ {0}
    /\ MaxTime \in Nat

VARIABLES
    db,         \* the store: the row of each key
    cache,      \* Ristretto's map
    buf,        \* Ristretto's buffer of pending insertions and deletions
    call,       \* what each connection is doing
    now         \* the clock

vars == <<db, cache, buf, call, now>>

Null == 0
Row == [val : Values \cup {NoValue}, exp : Nat]
NoRow == [val |-> NoValue, exp |-> Null]

Live(row) == row.val # NoValue /\ (row.exp # Null => row.exp > now)

(* How an entry came to be, a history field the code does not have:        *)
(*   "clean"    nothing happened between the read of the store and Set     *)
(*   "raced"    a write of this process committed between the two          *)
(*   "late"     the row expired between the two                            *)
(*   "foreign"  the row was since written without invalidation             *)
Origins == {"clean", "raced", "late", "foreign"}

(* An entry is visible until Ristretto's clock is after its deadline. *)
Entry == [val : Values, until : Nat, origin : Origins]
NoEntry == [val |-> NoValue, until |-> 0, origin |-> "clean"]
Cached(k) == cache[k].val # NoValue
Visible(k) == Cached(k) /\ now <= cache[k].until

(* Items of the buffer: insertions, and the markers of deletions. *)
Item == [key : Keys, val : Values \cup {NoValue}, until : Nat, origin : Origins]
Insertion(k, e) == [key |-> k, val |-> e.val, until |-> e.until, origin |-> e.origin]
Marker(k) == Insertion(k, NoEntry)
IsMarker(item) == item.val = NoValue

Idle == [at |-> "idle", keys |-> {}, row |-> NoRow, origin |-> "clean"]
Call == [at : {"idle", "missed", "read", "committed"}, keys : SUBSET Keys,
         row : Row, origin : Origins]

-----------------------------------------------------------------------------
(* GET *)

(* A hit changes nothing. A miss goes on to the store. *)
GetMiss(p, k) ==
    /\ call[p].at = "idle"
    /\ ~Visible(k)
    /\ call' = [call EXCEPT ![p] = [Idle EXCEPT !.at = "missed", !.keys = {k}]]
    /\ UNCHANGED <<db, cache, buf, now>>

StoreGet(p, k) ==
    /\ call[p].at = "missed" /\ call[p].keys = {k}
    /\ call' = [call EXCEPT ![p] = IF Live(db[k])
                                   THEN [@ EXCEPT !.at = "read", !.row = db[k]]
                                   ELSE Idle]
    /\ UNCHANGED <<db, cache, buf, now>>

(* store.Get failed: the error is returned and the cache left alone. *)
StoreGetError(p) ==
    /\ call[p].at = "missed"
    /\ call' = [call EXCEPT ![p] = Idle]
    /\ UNCHANGED <<db, cache, buf, now>>

(* time.Until the expiry time, or 0 for a row without one *)
Remaining(row) == IF row.exp = Null THEN 0 ELSE row.exp - now

(* Mutant of EntryTTL: a longer TTL is kept. *)
EntryTTLUncapped(ttl) == IF ttl <= 0 THEN DefaultTTL ELSE ttl

(* Memory.Set: a TTL that is not positive, or is longer, becomes the default. *)
EntryTTL(ttl) == IF ttl <= 0 \/ ttl > DefaultTTL THEN DefaultTTL ELSE ttl

FillEntry(c) ==
    [val |-> c.row.val,
     until |-> now + EntryTTL(Remaining(c.row)),
     origin |-> IF c.origin = "clean" /\ c.row.exp # Null /\ c.row.exp <= now
                THEN "late" ELSE c.origin]

(* Mutant of Fill: an insertion is queued also when the buffer is full. *)
FillUnbounded(p, k) ==
    /\ call[p].at = "read" /\ call[p].keys = {k}
    /\ buf' = Append(buf, Insertion(k, FillEntry(call[p])))
    /\ call' = [call EXCEPT ![p] = Idle]
    /\ UNCHANGED <<db, cache, now>>

(* cache.Set, that is SetWithTTL: an entry that is there is overwritten;   *)
(* a new one is queued, or dropped when the buffer is full.                *)
Fill(p, k) ==
    /\ call[p].at = "read" /\ call[p].keys = {k}
    /\ IF Cached(k)
       THEN cache' = [cache EXCEPT ![k] = FillEntry(call[p])] /\ UNCHANGED buf
       ELSE /\ UNCHANGED cache
            /\ buf' = IF Len(buf) < MaxBuf
                      THEN Append(buf, Insertion(k, FillEntry(call[p])))
                      ELSE buf
    /\ call' = [call EXCEPT ![p] = Idle]
    /\ UNCHANGED <<db, now>>

-----------------------------------------------------------------------------
(* Ristretto's own goroutine *)

(* processItems: the policy may reject an insertion. *)
ProcessItem(admitted) ==
    /\ buf # <<>>
    /\ LET item == Head(buf)
       IN  /\ IsMarker(item) => admitted
           /\ cache' = IF admitted
                       THEN [cache EXCEPT ![item.key] =
                               IF IsMarker(item) THEN NoEntry
                               ELSE [val |-> item.val, until |-> item.until,
                                     origin |-> item.origin]]
                       ELSE cache
    /\ buf' = Tail(buf)
    /\ UNCHANGED <<db, call, now>>

(* Eviction for room, or of an entry past its deadline. *)
Evict(k) ==
    /\ Cached(k)
    /\ cache' = [cache EXCEPT ![k] = NoEntry]
    /\ UNCHANGED <<db, buf, call, now>>

-----------------------------------------------------------------------------
(* Writers *)

(* The calls whose value read from one of the keys is no longer current. *)
Outdated(calls, ks, origin) ==
    [q \in Procs |-> IF calls[q].at = "read" /\ calls[q].keys \subseteq ks
                     THEN [calls[q] EXCEPT !.origin = origin]
                     ELSE calls[q]]

(* The store commits new rows for the keys ks; the handler then invalidates them. *)
Commit(p, ks, new) ==
    /\ call[p].at = "idle"
    /\ db' = [k \in Keys |-> IF k \in ks THEN new[k] ELSE db[k]]
    /\ call' = [Outdated(call, ks, "raced") EXCEPT
                  ![p] = [Idle EXCEPT !.at = "committed", !.keys = ks]]
    /\ UNCHANGED <<cache, buf, now>>

(* A store call that reports no error and changes nothing, such as SETNX   *)
(* of a key that exists or EXPIRE of one that does not: Del follows too.   *)
NoEffect(p, k) ==
    /\ call[p].at = "idle"
    /\ call' = [call EXCEPT ![p] = [Idle EXCEPT !.at = "committed", !.keys = {k}]]
    /\ UNCHANGED <<db, cache, buf, now>>

(* SET, SETEX, SETNX, GETSET and MSET; ttl = 0 for none. *)
SetRows(ks, v, ttl) == [k \in ks |-> [val |-> v, exp |-> IF ttl > 0 THEN now + ttl ELSE Null]]
Set(p, ks, v, ttl) == Commit(p, ks, SetRows(ks, v, ttl))

(* DEL and GETDEL *)
Del(p, ks) == Commit(p, ks, [k \in ks |-> NoRow])

(* INCR, DECR, INCRBY, DECRBY, and SET with KEEPTTL: the expiry time stays. *)
IncrBy(p, k, v) ==
    Commit(p, {k}, [i \in {k} |-> [val |-> v, exp |-> IF Live(db[k]) THEN db[k].exp ELSE Null]])

(* Mutant of Expire: the handler does not go on to cache.Del. *)
ExpireWithoutDel(p, k, ttl) ==
    /\ call[p].at = "idle" /\ Live(db[k])
    /\ db' = [db EXCEPT ![k].exp = now + ttl]
    /\ call' = Outdated(call, {k}, "raced")
    /\ UNCHANGED <<cache, buf, now>>

Expire(p, k, ttl) ==
    Live(db[k]) /\ Commit(p, {k}, [i \in {k} |-> [db[k] EXCEPT !.exp = now + ttl]])

Persist(p, k) ==
    Live(db[k]) /\ Commit(p, {k}, [i \in {k} |-> [db[k] EXCEPT !.exp = Null]])

(* cache.Del for one of the keys; the handler answers after the last. *)
Invalidate(p, k) ==
    /\ call[p].at = "committed" /\ k \in call[p].keys
    /\ Len(buf) < MaxBuf
    /\ cache' = [cache EXCEPT ![k] = NoEntry]
    /\ buf' = Append(buf, Marker(k))
    /\ call' = [call EXCEPT ![p] = IF @.keys = {k} THEN Idle
                                   ELSE [@ EXCEPT !.keys = call[p].keys \ {k}]]
    /\ UNCHANGED <<db, now>>

(* A write that no Del of this process follows: another Redge instance, or *)
(* a store call that reported an error after it took effect (mapErr and    *)
(* writeStoreError return before the invalidation).                        *)
ForeignWrite(k, row) ==
    /\ db' = [db EXCEPT ![k] = row]
    /\ cache' = [cache EXCEPT ![k].origin = IF Cached(k) THEN "foreign" ELSE @]
    /\ buf' = [i \in DOMAIN buf |-> IF buf[i].key = k /\ ~IsMarker(buf[i])
                                    THEN [buf[i] EXCEPT !.origin = "foreign"]
                                    ELSE buf[i]]
    /\ call' = Outdated(call, {k}, "foreign")
    /\ UNCHANGED now

Tick ==
    /\ now < MaxTime
    /\ now' = now + 1
    /\ UNCHANGED <<db, cache, buf, call>>

-----------------------------------------------------------------------------
Init ==
    /\ db = [k \in Keys |-> NoRow]
    /\ cache = [k \in Keys |-> NoEntry]
    /\ buf = <<>>
    /\ call = [p \in Procs |-> Idle]
    /\ now = 1

GetStep(p) ==
    \/ \E k \in Keys : GetMiss(p, k) \/ StoreGet(p, k) \/ Fill(p, k)
    \/ StoreGetError(p)

WriteStep(p) ==
    \/ \E ks \in SUBSET Keys \ {{}}, v \in Values, ttl \in TTLs \cup {0} : Set(p, ks, v, ttl)
    \/ \E ks \in SUBSET Keys \ {{}} : Del(p, ks)
    \/ \E k \in Keys, v \in Values : IncrBy(p, k, v)
    \/ \E k \in Keys, ttl \in TTLs \cup {0} : Expire(p, k, ttl)
    \/ \E k \in Keys : Persist(p, k)
    \/ \E k \in Keys : NoEffect(p, k) \/ Invalidate(p, k)

RistrettoStep ==
    \/ \E admitted \in BOOLEAN : ProcessItem(admitted)
    \/ \E k \in Keys : Evict(k)

Next ==
    \/ \E p \in Procs : GetStep(p) \/ WriteStep(p)
    \/ RistrettoStep
    \/ \E k \in Keys, v \in Values, ttl \in TTLs \cup {0} :
          ForeignWrite(k, SetRows({k}, v, ttl)[k])
    \/ \E k \in Keys : ForeignWrite(k, NoRow)
    \/ Tick

Spec == Init /\ [][Next]_vars

-----------------------------------------------------------------------------
(* Properties *)

TypeOK ==
    /\ db \in [Keys -> Row]
    /\ cache \in [Keys -> Entry \cup {NoEntry}]
    /\ buf \in Seq(Item) /\ Len(buf) <= MaxBuf
    /\ call \in [Procs -> Call]
    /\ now \in Nat \ {0}

(* A write of key k is committed and its invalidation is still to come,    *)
(* from a handler or from the buffer after position i.                     *)
Pending(k, i) ==
    \/ \E p \in Procs : call[p].at = "committed" /\ k \in call[p].keys
    \/ \E j \in DOMAIN buf : j > i /\ buf[j].key = k /\ IsMarker(buf[j])

(* The value is that of the row, and does not outlive it. *)
Agrees(e, row) == e.val = row.val /\ (row.exp # Null => e.until <= row.exp)

(* A hit serves the value of the store, whatever GETs, writers, evictions  *)
(* and expiries are interleaved, unless an invalidation is pending or the  *)
(* entry was filled by a GET that a write or the expiry overtook, or was   *)
(* written elsewhere. This is what Del after every commit achieves         *)
(* (router.get, Memory.Set, Memory.Del).                                   *)
Coherent ==
    \A k \in Keys :
        Visible(k) /\ cache[k].origin = "clean" /\ ~Pending(k, 0) =>
            Agrees(cache[k], db[k])

(* No entry outlives the configured TTL, however long the row lives: an    *)
(* entry is served for at most DefaultTTL after it was made (Memory.Set).  *)
BoundedLife == \A k \in Keys : Cached(k) => cache[k].until <= now + DefaultTTL
=============================================================================
