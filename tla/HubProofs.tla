----------------------------- MODULE HubProofs ------------------------------
(***************************************************************************)
(* Proofs about Hub: the inductive invariant, the safety invariants it     *)
(* gives, and that the hub implements Feed.                                *)
(***************************************************************************)
EXTENDS Hub, SequenceTheorems, FiniteSetTheorems, TLAPS

(* Connection c took id out of the map and has yet to close its channel. *)
Closer(c, id) ==
    conn[c].at \in {"unsub", "dropping"} /\ conn[c].id = id /\ conn[c].found

(* What a connection knows: the id it answers for has no goroutine yet,    *)
(* the one it removes is out of the map, and its own map names ids that    *)
(* were given to it.                                                       *)
ConnOK(c) ==
    /\ conn[c].at \notin {"unsub", "dropping"} => ~conn[c].found
    /\ conn[c].at = "reply" =>
          /\ conn[c].id \in SubIds
          /\ sub[conn[c].id] # Unused /\ sub[conn[c].id].owner = c
          /\ fw[conn[c].id].at = "none"
    /\ conn[c].at \in {"unsub", "dropping"} =>
          /\ conn[c].id \in SubIds \ hub
          /\ fw[conn[c].id].at # "none"
    /\ conn[c].at = "closed" => conn[c].subs = {}
    /\ \A id \in conn[c].subs : sub[id] # Unused /\ sub[id].owner = c
    /\ Cardinality(conn[c].subs) <= MaxSubs

(* The life of an id: unused, registered but not answered, in the map,     *)
(* taken out by exactly one connection, closed.                            *)
IdOK(id) ==
    /\ sub[id] = Unused =>
          id \notin hub /\ fw[id].at = "none" /\ closes[id] = 0 /\ chan[id] = <<>>
    /\ sub[id] # Unused /\ fw[id].at = "none" =>
          /\ id \in hub
          /\ conn[sub[id].owner].at = "reply" /\ conn[sub[id].owner].id = id
    /\ id \in hub =>
          closes[id] = 0 /\ fw[id].at # "ended" /\ id \in conn[sub[id].owner].subs
    /\ id \notin hub /\ sub[id] # Unused =>
          closes[id] = 1 \/ \E c \in Conns : Closer(c, id)
    /\ \A c \in Conns : Closer(c, id) => closes[id] = 0
    /\ \A c, d \in Conns : Closer(c, id) /\ Closer(d, id) => c = d

(* What a subscription was handed begins with the answer once there is a   *)
(* goroutine, holds events of the collection, and each writer's in order.  *)
HandedOK(id) ==
    LET seq == Handed(id)
    IN  /\ got[id] # <<>> => Head(got[id]) = Reply
        /\ got[id] = <<>> <=> fw[id].at \in {"none", "ended"}
        /\ \A i \in DOMAIN seq :
              /\ seq[i] = Reply => i = 1 /\ got[id] # <<>>
              /\ seq[i] # Reply => /\ seq[i] \in 1..Len(events)
                                   /\ events[seq[i]].col = sub[id].col
        /\ \A i, j \in DOMAIN seq :
              i < j /\ seq[i] # Reply /\ events[seq[i]].by = events[seq[j]].by
                  => seq[i] < seq[j]

(* A Publish holds the latest event of its writer, and no channel that it  *)
(* has yet to send to was handed it.                                       *)
PubOK(a) ==
    /\ pub[a].at = "idle" => pub[a] = Quiet
    /\ pub[a].at # "idle" =>
          /\ pub[a].n \in 1..Len(events)
          /\ events[pub[a].n].by = a
          /\ \A m \in 1..Len(events) : events[m].by = a => m <= pub[a].n
          /\ a \in Conns => conn[a].at = "open"
    /\ pub[a].at = "committed" =>
          \A id \in SubIds : \A i \in DOMAIN Handed(id) : Handed(id)[i] # pub[a].n
    /\ pub[a].at = "sending" =>
          \A id \in pub[a].targets :
              /\ sub[id] # Unused
              /\ sub[id].col = events[pub[a].n].col
              /\ \A i \in DOMAIN Handed(id) : Handed(id)[i] # pub[a].n

(* Complete, also of the events whose Publish is past this subscription. *)
Reached(id, n) ==
    n \in dropped[id] \/ \E i \in DOMAIN Handed(id) : Handed(id)[i] = n

Past(id, n) ==
    \A a \in Actors : pub[a].n = n => pub[a].at = "sending" /\ id \notin pub[a].targets

PastReached ==
    \A id \in hub : \A n \in (sub[id].since + 1)..Len(events) :
        events[n].col = sub[id].col /\ n \notin aborted /\ Past(id, n) => Reached(id, n)

HubInv ==
    /\ TypeOK
    /\ \A c \in Conns : ConnOK(c)
    /\ \A id \in SubIds : IdOK(id)
    /\ \A id \in SubIds : HandedOK(id)
    /\ \A a \in Actors : PubOK(a)
    /\ PastReached

-----------------------------------------------------------------------------
(* Sequences *)

(* Taking the head of the channel moves it between two parts. *)
LEMMA TakeSame ==
    ASSUME NEW g \in Seq(Nat), NEW c \in Seq(Nat), c # <<>>
    PROVE  g \o <<Head(c)>> \o Tail(c) = g \o <<>> \o c
<1>1. Head(c) \in Nat /\ Tail(c) \in Seq(Nat)
  BY HeadTailProperties
<1>2. <<Head(c)>> \in Seq(Nat) /\ <<>> \in Seq(Nat)
  BY <1>1
<1>3. <<Head(c)>> \o Tail(c) = c
  <2>1. <<Head(c)>> \o Tail(c) \in Seq(Nat)
    BY <1>1, <1>2, ConcatProperties
  <2>2. Len(<<Head(c)>> \o Tail(c)) = Len(c)
    BY <1>1, <1>2, ConcatProperties, HeadTailProperties, LenProperties, EmptySeq
  <2>3. \A i \in 1..Len(c) : (<<Head(c)>> \o Tail(c))[i] = c[i]
    BY <1>1, <1>2, ConcatProperties, HeadTailProperties, LenProperties, EmptySeq
  <2> QED BY <2>1, <2>2, <2>3, SeqEqual
<1>4. g \o <<Head(c)>> \o Tail(c) = g \o c
  BY <1>1, <1>2, <1>3, ConcatAssociative
<1>5. g \o <<>> = g
  BY ConcatEmptySeq
<1> QED BY <1>4, <1>5

(* Writing what the goroutine holds moves it to what was written. *)
LEMMA WriteSame ==
    ASSUME NEW g \in Seq(Nat), NEW c \in Seq(Nat), NEW n \in Nat
    PROVE  Append(g, n) \o <<>> \o c = g \o <<n>> \o c
<1>1. Append(g, n) \in Seq(Nat) /\ <<n>> \in Seq(Nat) /\ <<>> \in Seq(Nat)
  OBVIOUS
<1>2. Append(g, n) \o <<>> = Append(g, n)
  BY <1>1, ConcatEmptySeq
<1>3. g \o <<n>> = Append(g, n)
  <2>1. g \o <<n>> \in Seq(Nat)
    BY <1>1, ConcatProperties
  <2>2. Len(g \o <<n>>) = Len(Append(g, n))
    BY <1>1, ConcatProperties
  <2>3. \A i \in 1..Len(g \o <<n>>) : (g \o <<n>>)[i] = Append(g, n)[i]
    BY <1>1, ConcatProperties
  <2> QED BY <1>1, <2>1, <2>2, <2>3, SeqEqual
<1> QED BY <1>2, <1>3

(* A send appends to the whole. *)
LEMMA SendLast ==
    ASSUME NEW s \in Seq(Nat), NEW c \in Seq(Nat), NEW n \in Nat
    PROVE  s \o Append(c, n) = Append(s \o c, n)
<1>1. s \o c \in Seq(Nat) /\ Append(c, n) \in Seq(Nat)
  BY ConcatProperties
<1>2. s \o Append(c, n) \in Seq(Nat) /\ Append(s \o c, n) \in Seq(Nat)
  BY <1>1, ConcatProperties
<1>3. Len(s \o Append(c, n)) = Len(Append(s \o c, n))
  BY <1>1, ConcatProperties
<1>4. /\ Len(s) \in Nat /\ Len(c) \in Nat /\ Len(Append(c, n)) = Len(c) + 1
      /\ Len(s \o c) = Len(s) + Len(c) /\ Len(s \o Append(c, n)) = Len(s) + Len(c) + 1
  BY <1>1, ConcatProperties, LenProperties
<1>5. ASSUME NEW i \in 1..Len(s \o Append(c, n))
      PROVE  (s \o Append(c, n))[i] = Append(s \o c, n)[i]
  <2>1. (s \o Append(c, n))[i] = IF i <= Len(s) THEN s[i] ELSE Append(c, n)[i - Len(s)]
    <3>1. PICK t \in Seq(Nat) : t = Append(c, n)
      BY <1>1
    <3>2. \A j \in 1..(Len(s) + Len(t)) : (s \o t)[j] = IF j <= Len(s) THEN s[j] ELSE t[j - Len(s)]
      BY ConcatProperties
    <3>3. i \in 1..(Len(s) + Len(t))
      BY <3>1, <1>4
    <3> QED BY <3>1, <3>2, <3>3
  <2>2. CASE i <= Len(s) + Len(c)
    <3>1. Append(s \o c, n)[i] = (s \o c)[i]
      BY <1>1, <1>4, <2>2
    <3>2. (s \o c)[i] = IF i <= Len(s) THEN s[i] ELSE c[i - Len(s)]
      BY <1>4, <2>2, ConcatProperties
    <3>3. ~(i <= Len(s)) => Append(c, n)[i - Len(s)] = c[i - Len(s)]
      BY <1>4, <2>2
    <3> QED BY <2>1, <3>1, <3>2, <3>3
  <2>3. CASE i = Len(s) + Len(c) + 1
    <3>1. Append(s \o c, n)[i] = n
      BY <1>1, <1>4, <2>3
    <3>2. Append(c, n)[i - Len(s)] = n /\ ~(i <= Len(s))
      BY <1>4, <2>3
    <3> QED BY <2>1, <3>1, <3>2
  <2> QED BY <1>4, <2>2, <2>3
<1> QED BY <1>2, <1>3, <1>5, SeqEqual

-----------------------------------------------------------------------------
(* What a step does to what a subscription was handed *)

LEMMA HandedType ==
    ASSUME TypeOK, NEW id \in SubIds
    PROVE  /\ Handed(id) \in Seq(Nat)
           /\ Len(Handed(id)) \in Nat
           /\ DOMAIN Handed(id) = 1..Len(Handed(id))
           /\ \A i \in DOMAIN Handed(id) : Handed(id)[i] \in Nat
<1> DEFINE m == IF fw[id].at = "writing" THEN <<fw[id].n>> ELSE <<>>
<1>1. got[id] \in Seq(Nat) /\ chan[id] \in Seq(Nat) /\ fw[id].n \in Nat
  BY DEF TypeOK
<1>2. m \in Seq(Nat)
  BY <1>1
<1>3. Handed(id) = got[id] \o m \o chan[id]
  BY DEF Handed
<1>4. Handed(id) \in Seq(Nat)
  <2> HIDE DEF m
  <2> QED BY <1>1, <1>2, <1>3, ConcatProperties
<1> QED BY <1>4, LenProperties, ElementOfSeq

LEMMA HandedSame ==
    ASSUME NEW id \in SubIds, got'[id] = got[id], fw'[id] = fw[id], chan'[id] = chan[id]
    PROVE  Handed(id)' = Handed(id)
BY DEF Handed

LEMMA HandedTake ==
    ASSUME TypeOK, NEW id \in SubIds, Take(id)
    PROVE  Handed(id)' = Handed(id)
<1>1. got[id] \in Seq(Nat) /\ chan[id] \in Seq(Nat)
  BY DEF TypeOK
<1>2. /\ got'[id] = got[id] /\ chan[id] # <<>> /\ chan'[id] = Tail(chan[id])
      /\ fw[id].at = "select" /\ fw'[id].at = "writing" /\ fw'[id].n = Head(chan[id])
  BY DEF Take, TypeOK
<1>3. Handed(id)' = got[id] \o <<Head(chan[id])>> \o Tail(chan[id])
  BY <1>2 DEF Handed
<1>4. Handed(id) = got[id] \o <<>> \o chan[id]
  BY <1>2 DEF Handed
<1> QED BY <1>1, <1>2, <1>3, <1>4, TakeSame

LEMMA HandedWrite ==
    ASSUME TypeOK, NEW id \in SubIds, Write(id)
    PROVE  Handed(id)' = Handed(id)
<1>1. got[id] \in Seq(Nat) /\ chan[id] \in Seq(Nat) /\ fw[id].n \in Nat
  BY DEF TypeOK
<1>2. /\ got'[id] = Append(got[id], fw[id].n) /\ chan'[id] = chan[id]
      /\ fw[id].at = "writing" /\ fw'[id].at = "select"
  BY DEF Write, TypeOK
<1>3. Handed(id)' = Append(got[id], fw[id].n) \o <<>> \o chan[id]
  BY <1>2 DEF Handed
<1>4. Handed(id) = got[id] \o <<fw[id].n>> \o chan[id]
  BY <1>2 DEF Handed
<1> QED BY <1>1, <1>3, <1>4, WriteSame

LEMMA HandedSend ==
    ASSUME TypeOK, NEW id \in SubIds, NEW n \in Nat, chan'[id] = Append(chan[id], n),
           got'[id] = got[id], fw'[id] = fw[id]
    PROVE  Handed(id)' = Append(Handed(id), n)
<1> DEFINE m == IF fw[id].at = "writing" THEN <<fw[id].n>> ELSE <<>>
<1>1. got[id] \in Seq(Nat) /\ chan[id] \in Seq(Nat) /\ fw[id].n \in Nat
  BY DEF TypeOK
<1>2. m \in Seq(Nat)
  BY <1>1
<1>3. Handed(id) = (got[id] \o m) \o chan[id] /\ Handed(id)' = (got[id] \o m) \o Append(chan[id], n)
  BY DEF Handed
<1> HIDE DEF m
<1>4. got[id] \o m \in Seq(Nat)
  BY <1>1, <1>2, ConcatProperties
<1> QED BY <1>1, <1>3, <1>4, SendLast

(* The answer comes before what waits in the channel already. *)
LEMMA HandedReply ==
    ASSUME TypeOK, NEW id \in SubIds, got[id] = <<>>, fw[id].at = "none",
           got'[id] = <<Reply>>, fw'[id].at = "select", chan'[id] = chan[id]
    PROVE  /\ Handed(id)' \in Seq(Nat)
           /\ Len(Handed(id)') = Len(Handed(id)) + 1
           /\ Handed(id)'[1] = Reply
           /\ \A i \in DOMAIN Handed(id) : Handed(id)'[i + 1] = Handed(id)[i]
           /\ \A i \in DOMAIN Handed(id)' : i # 1 =>
                 i - 1 \in DOMAIN Handed(id) /\ Handed(id)'[i] = Handed(id)[i - 1]
<1>1. chan[id] \in Seq(Nat) /\ <<>> \in Seq(Nat) /\ <<Reply>> \in Seq(Nat)
  BY DEF TypeOK, Reply
<1>2. Handed(id) = <<>> \o <<>> \o chan[id] /\ Handed(id)' = <<Reply>> \o <<>> \o chan[id]
  BY DEF Handed
<1>3. Handed(id) = chan[id] /\ Handed(id)' = <<Reply>> \o chan[id]
  BY <1>1, <1>2, ConcatEmptySeq
<1>4. /\ Len(chan[id]) \in Nat /\ DOMAIN chan[id] = 1..Len(chan[id]) /\ Len(<<Reply>>) = 1
      /\ <<Reply>>[1] = Reply
  BY <1>1, LenProperties
<1>5. /\ <<Reply>> \o chan[id] \in Seq(Nat)
      /\ Len(<<Reply>> \o chan[id]) = 1 + Len(chan[id])
      /\ \A i \in 1..(1 + Len(chan[id])) :
            (<<Reply>> \o chan[id])[i] = IF i <= 1 THEN <<Reply>>[i] ELSE chan[id][i - 1]
  BY <1>1, <1>4, ConcatProperties
<1>6. DOMAIN (<<Reply>> \o chan[id]) = 1..(1 + Len(chan[id]))
  BY <1>5, LenProperties
<1> QED BY <1>3, <1>4, <1>5, <1>6

-----------------------------------------------------------------------------
(* Types *)

ConnType ==
    [at : ConnStates, subs : SUBSET SubIds, id : SubIds \cup {NoSub}, found : BOOLEAN]
FwType == [at : {"none", "select", "writing", "ended"}, n : Nat]
PubType == [at : {"idle", "committed", "sending"}, n : Nat, targets : SUBSET SubIds]

LEMMA MoveFw ==
    ASSUME TypeOK, NEW id \in SubIds, NEW s \in {"none", "select", "writing", "ended"},
           fw' = [fw EXCEPT ![id].at = s]
    PROVE  /\ fw' \in [SubIds -> FwType]
           /\ fw'[id].at = s
           /\ \A d \in SubIds : d # id => fw'[d] = fw[d]
<1>1. fw \in [SubIds -> FwType]
  BY DEF TypeOK, FwType
<1> QED BY <1>1 DEF FwType

(* A step of one connection. *)
Only(c) == \A d \in Conns : d # c => conn'[d] = conn[d]

LEMMA RemoveConn ==
    ASSUME TypeOK, NEW c \in Conns, NEW id \in SubIds, NEW next \in ConnStates,
           Remove(c, id, next)
    PROVE  /\ conn' \in [Conns -> ConnType] /\ Only(c)
           /\ conn'[c].at = next /\ conn'[c].id = id /\ conn'[c].subs = conn[c].subs
           /\ conn'[c].found <=> id \in hub
<1>1. conn \in [Conns -> ConnType]
  BY DEF TypeOK, ConnType
<1>2. conn' = [conn EXCEPT ![c].at = next, ![c].id = id, ![c].found = id \in hub]
  BY DEF Remove
<1>3. conn' \in [Conns -> ConnType]
  <2>1. ASSUME NEW b \in BOOLEAN
        PROVE  [conn EXCEPT ![c].at = next, ![c].id = id, ![c].found = b] \in [Conns -> ConnType]
    BY <1>1 DEF ConnType
  <2>2. (id \in hub) \in BOOLEAN
    OBVIOUS
  <2> QED BY <1>2, <2>1, <2>2, Zenon
<1> QED BY <1>1, <1>2, <1>3 DEF ConnType, Only

LEMMA CloseConn ==
    ASSUME TypeOK, NEW c \in Conns, NEW next \in ConnStates, CloseChannel(c, next)
    PROVE  /\ conn' \in [Conns -> ConnType] /\ Only(c)
           /\ conn'[c].at = next /\ conn'[c].id = NoSub /\ ~conn'[c].found
           /\ conn'[c].subs = conn[c].subs \ {conn[c].id}
<1>1. conn \in [Conns -> ConnType]
  BY DEF TypeOK, ConnType
<1>2. conn' = [conn EXCEPT ![c] = [Accepted EXCEPT !.at = next,
                                    !.subs = conn[c].subs \ {conn[c].id}]]
  BY DEF CloseChannel
<1>3. conn'[c] = [at |-> next, subs |-> conn[c].subs \ {conn[c].id}, id |-> NoSub, found |-> FALSE]
  BY <1>1, <1>2 DEF Accepted
<1>4. conn'[c] \in ConnType
  BY <1>1, <1>3 DEF ConnType
<1> QED BY <1>1, <1>2, <1>3, <1>4 DEF Only

(* ReadFails, Cancel and a panic change where the read loop is, only. *)
LEMMA MoveConn ==
    ASSUME TypeOK, NEW c \in Conns, NEW next \in ConnStates,
           conn' = [conn EXCEPT ![c].at = next]
    PROVE  /\ conn' \in [Conns -> ConnType] /\ Only(c)
           /\ conn'[c].at = next /\ conn'[c].id = conn[c].id
           /\ conn'[c].subs = conn[c].subs /\ conn'[c].found = conn[c].found
<1>1. conn \in [Conns -> ConnType]
  BY DEF TypeOK, ConnType
<1> QED BY <1>1 DEF ConnType, Only

LEMMA SubscribeConn ==
    ASSUME TypeOK, NEW c \in Conns, NEW id \in SubIds, NEW col \in Collections,
           Subscribe(c, id, col)
    PROVE  /\ conn' \in [Conns -> ConnType] /\ Only(c)
           /\ conn'[c].at = "reply" /\ conn'[c].id = id
           /\ conn'[c].subs = conn[c].subs \cup {id} /\ conn'[c].found = conn[c].found
<1>1. conn \in [Conns -> ConnType]
  BY DEF TypeOK, ConnType
<1>2. conn' = [conn EXCEPT ![c].at = "reply", ![c].id = id, ![c].subs = conn[c].subs \cup {id}]
  BY DEF Subscribe
<1> QED BY <1>1, <1>2 DEF ConnType, Only, ConnStates

LEMMA ReplyConn ==
    ASSUME TypeOK, NEW c \in Conns, SubscribeReply(c)
    PROVE  /\ conn' \in [Conns -> ConnType] /\ Only(c)
           /\ conn'[c].at = "open" /\ conn'[c].id = NoSub
           /\ conn'[c].subs = conn[c].subs /\ conn'[c].found = conn[c].found
<1>1. conn \in [Conns -> ConnType]
  BY DEF TypeOK, ConnType
<1>2. conn' = [conn EXCEPT ![c].at = "open", ![c].id = NoSub]
  BY DEF SubscribeReply
<1> QED BY <1>1, <1>2 DEF ConnType, Only, ConnStates


LEMMA SendingType ==
    ASSUME NEW n \in Nat, NEW T \in SUBSET SubIds
    PROVE  Sending(n, T) \in PubType
BY DEF Sending, Quiet, PubType

LEMMA TypeStep ==
    ASSUME TypeOK, Next, \A c \in Conns : ConnOK(c), \A a \in Actors : PubOK(a)
    PROVE  TypeOK'
<1> USE DEF TypeOK
<1>1. ASSUME NEW c \in Conns, NEW id \in SubIds, NEW next \in ConnStates, Remove(c, id, next)
      PROVE  TypeOK'
  BY <1>1, RemoveConn DEF Remove, ConnType
<1>2. ASSUME NEW c \in Conns, NEW next \in ConnStates, CloseChannel(c, next),
             conn[c].at \in {"unsub", "dropping"}
      PROVE  TypeOK'
  <2>1. conn[c].id \in SubIds
    BY <1>2 DEF ConnOK
  <2>2. closes' \in [SubIds -> Nat]
    BY <1>2, <2>1 DEF CloseChannel
  <2> QED BY <1>2, <2>2, CloseConn DEF CloseChannel, ConnType
<1>3. ASSUME NEW c \in Conns, ConnStep(c)
      PROVE  TypeOK'
  <2>1. CASE ReadFails(c)
    BY <2>1, MoveConn DEF ReadFails, ConnStates, ConnType
  <2>2. CASE Cancel(c)
    BY <2>2, MoveConn DEF Cancel, ConnStates, ConnType
  <2>3. CASE SubscribeReply(c)
    <3>1. conn[c].id \in SubIds
      BY <2>3 DEF SubscribeReply, ConnOK
    <3>2. got' \in [SubIds -> Seq(Nat)]
      BY <2>3, <3>1 DEF SubscribeReply, Reply
    <3>3. fw' \in [SubIds -> FwType]
      BY <2>3, <3>1, MoveFw DEF SubscribeReply
    <3> QED BY <2>3, <3>2, <3>3, ReplyConn DEF SubscribeReply, FwType, ConnType
  <2>4. CASE UnsubscribeReply(c)
    BY <2>4, <1>2 DEF UnsubscribeReply, ConnStates
  <2>5. CASE Dropped(c)
    BY <2>5, <1>2 DEF Dropped, ConnStates
  <2>6. ASSUME NEW id \in SubIds, NEW col \in Collections, Subscribe(c, id, col)
        PROVE  TypeOK'
    <3>1. [col |-> col, owner |-> c, since |-> Len(events)] \in
              [col : Collections, owner : Conns, since : Nat]
      BY LenProperties
    <3>2. sub' \in [SubIds -> [col : Collections, owner : Conns, since : Nat] \cup {Unused}]
      BY <2>6, <3>1 DEF Subscribe
    <3> QED BY <2>6, <3>2, SubscribeConn DEF Subscribe, ConnType
  <2>7. ASSUME NEW id \in SubIds, Unsubscribe(c, id) \/ DropOne(c, id)
        PROVE  TypeOK'
    BY <2>7, <1>1 DEF Unsubscribe, DropOne, ConnStates
  <2> QED BY <1>3, <2>1, <2>2, <2>3, <2>4, <2>5, <2>6, <2>7 DEF ConnStep
<1>4. ASSUME NEW a \in Writers, PublishStep(a)
      PROVE  TypeOK'
  <2>0. a \in Actors
    BY DEF Actors
  <2>1. ASSUME NEW col \in Collections, Commit(a, col)
        PROVE  TypeOK'
    <3>1. events' \in Seq([by : Writers, col : Collections]) /\ Len(events) + 1 \in Nat
      BY <2>1 DEF Commit
    <3>2. pub' \in [Actors -> PubType]
      BY <2>0, <2>1, <3>1 DEF Commit, Quiet, PubType
    <3> QED BY <2>1, <3>1, <3>2 DEF Commit, PubType
  <2>2. CASE Snapshot(a)
    <3>1. PICK T \in SUBSET SubIds : pub' = [pub EXCEPT ![a] = Sending(pub[a].n, T)]
      BY <2>2 DEF Snapshot
    <3>2. Sending(pub[a].n, T) \in PubType
      BY <2>0, SendingType DEF PubType
    <3>3. pub' \in [Actors -> PubType]
      BY <2>0, <3>1, <3>2 DEF PubType
    <3> QED BY <2>2, <3>3 DEF Snapshot, PubType
  <2>3. ASSUME NEW id \in SubIds, Send(a, id)
        PROVE  TypeOK'
    <3>1. pub[a].n \in Nat /\ pub[a].targets \ {id} \in SUBSET SubIds
      BY <2>0
    <3>2. Sending(pub[a].n, pub[a].targets \ {id}) \in
              PubType
      BY <3>1, SendingType
    <3>3. pub' \in [Actors -> PubType]
      BY <2>0, <2>3, <3>2 DEF Send, PubType
    <3>4. /\ chan' \in [SubIds -> Seq(Nat)] /\ \A s \in SubIds : Len(chan'[s]) <= ChanCap
          /\ dropped' \in [SubIds -> SUBSET Nat]
      <4>1. CASE Len(chan[id]) < ChanCap
        <5>1. chan' = [chan EXCEPT ![id] = Append(chan[id], pub[a].n)] /\ dropped' = dropped
          BY <2>3, <4>1 DEF Send
        <5>2. Append(chan[id], pub[a].n) \in Seq(Nat)
          BY <3>1
        <5>3. Len(Append(chan[id], pub[a].n)) <= ChanCap
          BY <3>1, <4>1, HubAssumption
        <5> QED BY <5>1, <5>2, <5>3
      <4>2. CASE ~(Len(chan[id]) < ChanCap)
        <5>1. dropped' = [dropped EXCEPT ![id] = dropped[id] \cup {pub[a].n}] /\ chan' = chan
          BY <2>3, <4>2 DEF Send
        <5> QED BY <3>1, <5>1
      <4> QED BY <4>1, <4>2
    <3> QED BY <2>3, <3>3, <3>4 DEF Send, PubType
  <2>4. ASSUME NEW id \in SubIds, SendPanics(a, id)
        PROVE  TypeOK'
    <3>1. pub' \in [Actors -> PubType]
      BY <2>0, <2>4 DEF SendPanics, Quiet, PubType
    <3>2. conn' \in [Conns -> ConnType]
      <4>1. CASE a \in Conns
        BY <2>4, <4>1, MoveConn DEF SendPanics, ConnStates
      <4>2. CASE a \notin Conns
        BY <2>4, <4>2 DEF SendPanics, ConnType
      <4> QED BY <4>1, <4>2
    <3>3. aborted' \subseteq Nat
      BY <2>0, <2>4 DEF SendPanics
    <3> QED BY <2>4, <3>1, <3>2, <3>3 DEF SendPanics, ConnType, PubType
  <2> QED BY <1>4, <2>1, <2>2, <2>3, <2>4 DEF PublishStep
<1>5. ASSUME NEW id \in SubIds, ForwardStep(id)
      PROVE  TypeOK'
  <2>1. CASE Take(id)
    <3>1. Head(chan[id]) \in Nat /\ Tail(chan[id]) \in Seq(Nat) /\ Len(Tail(chan[id])) <= ChanCap
      <4>1. chan[id] \in Seq(Nat) /\ chan[id] # <<>> /\ Len(chan[id]) <= ChanCap
        BY <2>1 DEF Take
      <4> QED BY <4>1, HeadTailProperties, LenProperties, HubAssumption
    <3>2. fw' \in [SubIds -> FwType]
      BY <2>1, <3>1 DEF Take, FwType
    <3>3. chan' \in [SubIds -> Seq(Nat)] /\ \A s \in SubIds : Len(chan'[s]) <= ChanCap
      BY <2>1, <3>1 DEF Take
    <3> QED BY <2>1, <3>2, <3>3 DEF Take, FwType
  <2>2. CASE Write(id)
    <3>1. got' \in [SubIds -> Seq(Nat)] /\ fw' \in [SubIds -> FwType]
      BY <2>2 DEF Write, FwType
    <3> QED BY <2>2, <3>1 DEF Write, FwType
  <2>3. CASE End(id)
    <3>1. chan' \in [SubIds -> Seq(Nat)] /\ \A s \in SubIds : Len(chan'[s]) <= ChanCap
      BY <2>3, HubAssumption DEF End
    <3>2. fw' \in [SubIds -> FwType]
      BY <2>3, MoveFw DEF End
    <3> QED BY <2>3, <3>1, <3>2 DEF End, FwType
  <2> QED BY <1>5, <2>1, <2>2, <2>3 DEF ForwardStep
<1> QED BY <1>3, <1>4, <1>5 DEF Next

-----------------------------------------------------------------------------
(* Connections and ids *)

Life == (\A c \in Conns : ConnOK(c)) /\ (\A id \in SubIds : IdOK(id))

LEMMA OwnerType ==
    ASSUME TypeOK, NEW id \in SubIds, sub[id] # Unused
    PROVE  sub[id].owner \in Conns /\ sub[id].since \in Nat /\ sub[id].col \in Collections
BY DEF TypeOK

LEMMA LifeRemove ==
    ASSUME TypeOK, Life, NEW c \in Conns, NEW id \in SubIds, NEW next \in {"unsub", "dropping"},
           conn[c].at \in {"open", "closing"}, fw[id].at # "none", Remove(c, id, next)
    PROVE  Life'
<1>1. hub' = hub \ {id} /\ UNCHANGED <<sub, closes, fw, chan>>
  BY DEF Remove
<1>2. /\ Only(c) /\ conn'[c].at = next /\ conn'[c].id = id /\ conn'[c].subs = conn[c].subs
      /\ conn'[c].found <=> id \in hub
  BY RemoveConn DEF ConnStates
<1>3. \A d \in Conns : d # c => \A s \in SubIds : Closer(d, s)' <=> Closer(d, s)
  BY <1>2 DEF Closer, Only
<1>4. \A s \in SubIds : ~Closer(c, s) /\ (Closer(c, s)' <=> s = id /\ id \in hub)
  BY <1>2 DEF Closer
<1>5. ASSUME NEW d \in Conns PROVE ConnOK(d)'
  <2>1. ConnOK(d)
    BY DEF Life
  <2>2. CASE d = c
    BY <1>1, <1>2, <2>1, <2>2 DEF ConnOK
  <2>3. CASE d # c
    BY <1>1, <1>2, <2>1, <2>3 DEF ConnOK, Only
  <2> QED BY <2>2, <2>3
<1>6. ASSUME NEW s \in SubIds PROVE IdOK(s)'
  <2>1. IdOK(s) /\ \A d \in Conns : ConnOK(d)
    BY DEF Life
  <2>2. (sub[s] = Unused => s \notin hub /\ fw[s].at = "none" /\ closes[s] = 0 /\ chan[s] = <<>>)'
    BY <1>1, <2>1 DEF IdOK, Unused
  <2>3. (sub[s] # Unused /\ fw[s].at = "none" =>
            s \in hub /\ conn[sub[s].owner].at = "reply" /\ conn[sub[s].owner].id = s)'
    <3> SUFFICES ASSUME sub[s] # Unused, fw[s].at = "none"
                 PROVE  s \in hub' /\ conn'[sub[s].owner].at = "reply" /\ conn'[sub[s].owner].id = s
      BY <1>1 DEF Unused
    <3>1. s \in hub /\ conn[sub[s].owner].at = "reply" /\ conn[sub[s].owner].id = s
      BY <2>1 DEF IdOK
    <3>2. sub[s].owner \in Conns /\ sub[s].owner # c
      BY <3>1, OwnerType
    <3> QED BY <1>1, <1>2, <3>1, <3>2 DEF Only
  <2>4. (s \in hub => closes[s] = 0 /\ fw[s].at # "ended" /\ s \in conn[sub[s].owner].subs)'
    <3> SUFFICES ASSUME s \in hub
                 PROVE  closes[s] = 0 /\ fw[s].at # "ended" /\ s \in conn'[sub[s].owner].subs
      BY <1>1
    <3>1. closes[s] = 0 /\ fw[s].at # "ended" /\ s \in conn[sub[s].owner].subs /\ sub[s] # Unused
      BY <2>1 DEF IdOK
    <3>2. sub[s].owner \in Conns
      BY <3>1, OwnerType
    <3> QED BY <1>2, <3>1, <3>2 DEF Only
  <2>5. (s \notin hub /\ sub[s] # Unused => closes[s] = 1 \/ \E d \in Conns : Closer(d, s))'
    <3> SUFFICES ASSUME s \notin hub', sub[s] # Unused
                 PROVE  closes[s] = 1 \/ \E d \in Conns : Closer(d, s)'
      BY <1>1 DEF Unused
    <3>1. CASE s \in hub
      BY <1>1, <1>4, <3>1
    <3>2. CASE s \notin hub
      BY <1>3, <1>4, <2>1, <3>2 DEF IdOK
    <3> QED BY <3>1, <3>2
  <2>6. \A d \in Conns : Closer(d, s)' => closes'[s] = 0
    BY <1>1, <1>3, <1>4, <2>1 DEF IdOK
  <2>7. \A d, e \in Conns : Closer(d, s)' /\ Closer(e, s)' => d = e
    <3>1. \A d \in Conns : Closer(d, s) => s \notin hub
      BY <2>1 DEF ConnOK, Closer
    <3> QED BY <1>3, <1>4, <2>1, <3>1 DEF IdOK
  <2> QED BY <2>2, <2>3, <2>4, <2>5, <2>6, <2>7 DEF IdOK
<1> QED BY <1>5, <1>6 DEF Life

LEMMA FewerSubs ==
    ASSUME NEW S \in SUBSET SubIds, NEW T \in SUBSET S, Cardinality(S) <= MaxSubs
    PROVE  Cardinality(T) <= MaxSubs
<1>1. IsFiniteSet(S) /\ MaxSubs \in Nat
  BY HubAssumption, FS_Subset
<1>2. Cardinality(T) <= Cardinality(S) /\ Cardinality(S) \in Nat /\ Cardinality(T) \in Nat
  BY <1>1, FS_Subset, FS_CardinalityType
<1> QED BY <1>1, <1>2

LEMMA LifeClose ==
    ASSUME TypeOK, Life, NEW c \in Conns, NEW next \in {"open", "closing"},
           conn[c].at \in {"unsub", "dropping"}, CloseChannel(c, next)
    PROVE  Life'
<1>1. UNCHANGED <<hub, sub, fw, chan>>
  BY DEF CloseChannel
<1>2. /\ Only(c) /\ conn'[c].at = next /\ ~conn'[c].found
      /\ conn'[c].subs = conn[c].subs \ {conn[c].id}
  BY CloseConn DEF ConnStates
<1>3. PICK id \in SubIds \ hub : id = conn[c].id /\ fw[id].at # "none"
  BY DEF Life, ConnOK
<1>4. \A d \in Conns : d # c => \A s \in SubIds : Closer(d, s)' <=> Closer(d, s)
  BY <1>2 DEF Closer, Only
<1>5. \A s \in SubIds : ~Closer(c, s)' /\ (Closer(c, s) <=> s = id /\ conn[c].found)
  BY <1>2, <1>3 DEF Closer
<1>6. \A s \in SubIds : s # id => closes'[s] = closes[s]
  BY <1>3 DEF CloseChannel, TypeOK
<1>7. closes'[id] = IF conn[c].found THEN closes[id] + 1 ELSE closes[id]
  BY <1>3 DEF CloseChannel, TypeOK
<1>8. ASSUME NEW d \in Conns PROVE ConnOK(d)'
  <2>1. ConnOK(d) /\ conn[d].subs \in SUBSET SubIds
    BY DEF Life, TypeOK
  <2>2. CASE d = c
    <3>1. Cardinality(conn'[c].subs) <= MaxSubs
      BY <1>2, <2>1, <2>2, FewerSubs DEF ConnOK
    <3> QED BY <1>1, <1>2, <2>1, <2>2, <3>1 DEF ConnOK
  <2>3. CASE d # c
    BY <1>1, <1>2, <2>1, <2>3 DEF ConnOK, Only
  <2> QED BY <2>2, <2>3
<1>9. ASSUME NEW s \in SubIds PROVE IdOK(s)'
  <2>1. IdOK(s) /\ closes[s] \in Nat
    BY DEF Life, TypeOK
  <2>2. (sub[s] = Unused => s \notin hub /\ fw[s].at = "none" /\ closes[s] = 0 /\ chan[s] = <<>>)'
    BY <1>1, <1>3, <1>6, <2>1 DEF IdOK, Unused
  <2>3. (sub[s] # Unused /\ fw[s].at = "none" =>
            s \in hub /\ conn[sub[s].owner].at = "reply" /\ conn[sub[s].owner].id = s)'
    <3> SUFFICES ASSUME sub[s] # Unused, fw[s].at = "none"
                 PROVE  s \in hub /\ conn'[sub[s].owner].at = "reply" /\ conn'[sub[s].owner].id = s
      BY <1>1 DEF Unused
    <3>1. s \in hub /\ conn[sub[s].owner].at = "reply" /\ conn[sub[s].owner].id = s
      BY <2>1 DEF IdOK
    <3>2. sub[s].owner \in Conns /\ sub[s].owner # c
      BY <3>1, OwnerType
    <3> QED BY <1>2, <3>1, <3>2 DEF Only
  <2>4. (s \in hub => closes[s] = 0 /\ fw[s].at # "ended" /\ s \in conn[sub[s].owner].subs)'
    <3> SUFFICES ASSUME s \in hub
                 PROVE  closes'[s] = 0 /\ fw[s].at # "ended" /\ s \in conn'[sub[s].owner].subs
      BY <1>1
    <3>1. closes[s] = 0 /\ fw[s].at # "ended" /\ s \in conn[sub[s].owner].subs /\ sub[s] # Unused
      BY <2>1 DEF IdOK
    <3>2. sub[s].owner \in Conns /\ s # id
      BY <1>3, <3>1, OwnerType
    <3> QED BY <1>2, <1>3, <1>6, <3>1, <3>2 DEF Only
  <2>5. (s \notin hub /\ sub[s] # Unused => closes[s] = 1 \/ \E d \in Conns : Closer(d, s))'
    <3> SUFFICES ASSUME s \notin hub, sub[s] # Unused
                 PROVE  closes'[s] = 1 \/ \E d \in Conns : Closer(d, s)'
      BY <1>1 DEF Unused
    <3>1. Closer(c, s) => closes'[s] = 1
      BY <1>5, <1>7, <2>1 DEF IdOK
    <3>2. closes[s] = 1 => ~Closer(c, s)
      BY <2>1 DEF IdOK
    <3>3. ~Closer(c, s) => closes'[s] = closes[s]
      BY <1>5, <1>6, <1>7
    <3> QED BY <1>4, <2>1, <3>1, <3>2, <3>3 DEF IdOK
  <2>6. \A d \in Conns : Closer(d, s)' => closes'[s] = 0
    BY <1>4, <1>5, <1>6, <1>7, <2>1 DEF IdOK
  <2>7. \A d, e \in Conns : Closer(d, s)' /\ Closer(e, s)' => d = e
    BY <1>4, <1>5, <2>1 DEF IdOK
  <2> QED BY <2>2, <2>3, <2>4, <2>5, <2>6, <2>7 DEF IdOK
<1> QED BY <1>8, <1>9 DEF Life

LEMMA LifeMove ==
    ASSUME TypeOK, Life, NEW c \in Conns, NEW next \in {"closing", "closed"},
           conn[c].at \in {"open", "closing"}, next = "closed" => conn[c].subs = {},
           conn' = [conn EXCEPT ![c].at = next], UNCHANGED <<hub, sub, closes, fw, chan>>
    PROVE  Life'
<1>1. /\ Only(c) /\ conn'[c].at = next /\ conn'[c].id = conn[c].id
      /\ conn'[c].subs = conn[c].subs /\ conn'[c].found = conn[c].found
  BY MoveConn DEF ConnStates
<1>2. \A d \in Conns : \A s \in SubIds : Closer(d, s)' <=> Closer(d, s)
  BY <1>1 DEF Closer, Only
<1>3. ASSUME NEW d \in Conns PROVE ConnOK(d)'
  <2>1. ConnOK(d)
    BY DEF Life
  <2>2. CASE d = c
    BY <1>1, <2>1, <2>2 DEF ConnOK
  <2>3. CASE d # c
    BY <1>1, <2>1, <2>3 DEF ConnOK, Only
  <2> QED BY <2>2, <2>3
<1>4. ASSUME NEW s \in SubIds PROVE IdOK(s)'
  <2>1. IdOK(s)
    BY DEF Life
  <2>2. (sub[s] # Unused /\ fw[s].at = "none" =>
            s \in hub /\ conn[sub[s].owner].at = "reply" /\ conn[sub[s].owner].id = s)'
    <3> SUFFICES ASSUME sub[s] # Unused, fw[s].at = "none"
                 PROVE  s \in hub /\ conn'[sub[s].owner].at = "reply" /\ conn'[sub[s].owner].id = s
      BY DEF Unused
    <3>1. s \in hub /\ conn[sub[s].owner].at = "reply" /\ conn[sub[s].owner].id = s
      BY <2>1 DEF IdOK
    <3>2. sub[s].owner \in Conns /\ sub[s].owner # c
      BY <3>1, OwnerType
    <3> QED BY <1>1, <3>1, <3>2 DEF Only
  <2>3. s \in hub => s \in conn'[sub[s].owner].subs
    <3> SUFFICES ASSUME s \in hub PROVE s \in conn'[sub[s].owner].subs
      OBVIOUS
    <3>1. s \in conn[sub[s].owner].subs /\ sub[s] # Unused
      BY <2>1 DEF IdOK
    <3>2. sub[s].owner \in Conns
      BY <3>1, OwnerType
    <3> QED BY <1>1, <3>1, <3>2 DEF Only
  <2> QED BY <1>2, <2>1, <2>2, <2>3 DEF IdOK, Unused
<1> QED BY <1>3, <1>4 DEF Life

LEMMA LifeSubscribe ==
    ASSUME TypeOK, Life, NEW c \in Conns, NEW id \in SubIds, NEW col \in Collections,
           Subscribe(c, id, col)
    PROVE  Life'
<1>1. /\ hub' = hub \cup {id} /\ UNCHANGED <<closes, fw, chan>> /\ sub[id] = Unused
      /\ conn[c].at = "open" /\ Cardinality(conn[c].subs) < MaxSubs
  BY DEF Subscribe, Serving
<1>2. /\ Only(c) /\ conn'[c].at = "reply" /\ conn'[c].id = id
      /\ conn'[c].subs = conn[c].subs \cup {id} /\ conn'[c].found = conn[c].found
  BY SubscribeConn
<1>3. /\ sub'[id] # Unused /\ sub'[id].owner = c
      /\ \A s \in SubIds : s # id => sub'[s] = sub[s]
  BY HubAssumption DEF Subscribe, TypeOK, Unused
<1>4. \A d \in Conns : \A s \in SubIds : Closer(d, s)' <=> Closer(d, s)
  BY <1>1, <1>2 DEF Closer, Only
<1>5. id \notin hub /\ fw[id].at = "none" /\ closes[id] = 0
  BY <1>1 DEF Life, IdOK
<1>6. ASSUME NEW d \in Conns PROVE ConnOK(d)'
  <2>1. ConnOK(d) /\ conn[d].subs \in SUBSET SubIds
    BY DEF Life, TypeOK
  <2>2. id \notin conn[d].subs
    BY <1>1, <2>1 DEF ConnOK
  <2>3. CASE d = c
    <3>1. Cardinality(conn'[c].subs) <= MaxSubs
      <4>1. IsFiniteSet(conn[c].subs) /\ MaxSubs \in Nat
        BY <2>1, <2>3, HubAssumption, FS_Subset
      <4>2. Cardinality(conn[c].subs) \in Nat
        BY <4>1, FS_CardinalityType
      <4>3. Cardinality(conn[c].subs \cup {id}) = Cardinality(conn[c].subs) + 1
        BY <2>2, <2>3, <4>1, FS_AddElement
      <4> QED BY <1>1, <1>2, <4>1, <4>2, <4>3
    <3>2. \A s \in conn'[c].subs : sub'[s] # Unused /\ sub'[s].owner = c
      BY <1>2, <1>3, <2>1, <2>2, <2>3 DEF ConnOK
    <3> QED BY <1>1, <1>2, <1>3, <1>5, <2>1, <2>3, <3>1, <3>2 DEF ConnOK, Unused
  <2>4. CASE d # c
    <3>1. conn'[d] = conn[d]
      BY <1>2, <2>4 DEF Only
    <3>2. \A s \in conn[d].subs : sub'[s] # Unused /\ sub'[s].owner = d
      BY <1>3, <2>1, <2>2 DEF ConnOK
    <3>3. conn[d].at = "reply" => sub'[conn[d].id] # Unused /\ sub'[conn[d].id].owner = d
      <4>1. conn[d].at = "reply" => conn[d].id # id
        BY <1>1, <2>1 DEF ConnOK
      <4> QED BY <1>3, <2>1, <4>1 DEF ConnOK
    <3>4. conn[d].at \in {"unsub", "dropping"} => conn[d].id # id
      BY <1>5, <2>1 DEF ConnOK
    <3> QED BY <1>1, <2>1, <3>1, <3>2, <3>3, <3>4 DEF ConnOK, Unused
  <2> QED BY <2>3, <2>4
<1>7. ASSUME NEW s \in SubIds PROVE IdOK(s)'
  <2>1. IdOK(s)
    BY DEF Life
  <2>2. CASE s = id
    <3>1. \A d \in Conns : ~Closer(d, id)
      BY <1>5 DEF Life, ConnOK, Closer
    <3> QED BY <1>1, <1>2, <1>3, <1>4, <1>5, <2>2, <3>1 DEF IdOK, Unused
  <2>3. CASE s # id
    <3>1. sub'[s] = sub[s] /\ (s \in hub' <=> s \in hub)
      BY <1>1, <1>3, <2>3
    <3>2. sub[s] # Unused /\ fw[s].at = "none" =>
             s \in hub /\ conn'[sub[s].owner].at = "reply" /\ conn'[sub[s].owner].id = s
      <4> SUFFICES ASSUME sub[s] # Unused, fw[s].at = "none"
                   PROVE  s \in hub /\ conn'[sub[s].owner].at = "reply" /\ conn'[sub[s].owner].id = s
        OBVIOUS
      <4>1. s \in hub /\ conn[sub[s].owner].at = "reply" /\ conn[sub[s].owner].id = s
        BY <2>1 DEF IdOK
      <4>2. sub[s].owner \in Conns /\ sub[s].owner # c
        BY <1>1, <4>1, OwnerType
      <4> QED BY <1>2, <4>1, <4>2 DEF Only
    <3>3. s \in hub => s \in conn'[sub[s].owner].subs
      <4> SUFFICES ASSUME s \in hub PROVE s \in conn'[sub[s].owner].subs
        OBVIOUS
      <4>1. s \in conn[sub[s].owner].subs /\ sub[s] # Unused
        BY <2>1 DEF IdOK
      <4>2. sub[s].owner \in Conns
        BY <4>1, OwnerType
      <4> QED BY <1>2, <4>1, <4>2 DEF Only
    <3> QED BY <1>1, <1>4, <2>1, <3>1, <3>2, <3>3 DEF IdOK, Unused
  <2> QED BY <2>2, <2>3
<1> QED BY <1>6, <1>7 DEF Life

LEMMA LifeReply ==
    ASSUME TypeOK, Life, NEW c \in Conns, SubscribeReply(c)
    PROVE  Life'
<1>1. UNCHANGED <<hub, sub, closes, chan>> /\ conn[c].at = "reply"
  BY DEF SubscribeReply
<1>2. /\ Only(c) /\ conn'[c].at = "open"
      /\ conn'[c].subs = conn[c].subs /\ conn'[c].found = conn[c].found
  BY ReplyConn
<1>3. PICK id \in SubIds : id = conn[c].id /\ sub[id] # Unused /\ fw[id].at = "none"
  BY <1>1 DEF Life, ConnOK
<1>4. fw'[id].at = "select" /\ \A s \in SubIds : s # id => fw'[s] = fw[s]
  BY <1>3, MoveFw DEF SubscribeReply
<1>5. id \in hub /\ sub[id].owner \in Conns /\ conn[sub[id].owner].id = id
  BY <1>3, OwnerType DEF Life, IdOK
<1>6. \A d \in Conns : \A s \in SubIds : Closer(d, s)' <=> Closer(d, s)
  BY <1>1, <1>2 DEF Closer, Only
<1>7. \A d \in Conns : d # c /\ conn[d].at = "reply" => conn[d].id # id
  BY <1>1, <1>3 DEF Life, ConnOK
<1>8. ASSUME NEW d \in Conns PROVE ConnOK(d)'
  <2>1. ConnOK(d)
    BY DEF Life
  <2>2. CASE d = c
    BY <1>1, <1>2, <2>1, <2>2 DEF ConnOK, Unused
  <2>3. CASE d # c
    <3>1. conn'[d] = conn[d]
      BY <1>2, <2>3 DEF Only
    <3>2. conn[d].at = "reply" => fw'[conn[d].id].at = "none"
      BY <1>4, <1>7, <2>1, <2>3 DEF ConnOK
    <3>3. conn[d].at \in {"unsub", "dropping"} => fw'[conn[d].id].at # "none"
      BY <1>4, <2>1 DEF ConnOK
    <3> QED BY <1>1, <2>1, <3>1, <3>2, <3>3 DEF ConnOK, Unused
  <2> QED BY <2>2, <2>3
<1>9. ASSUME NEW s \in SubIds PROVE IdOK(s)'
  <2>1. IdOK(s)
    BY DEF Life
  <2>2. s # id => (sub[s] # Unused /\ fw'[s].at = "none" =>
            s \in hub /\ conn'[sub[s].owner].at = "reply" /\ conn'[sub[s].owner].id = s)
    <3> SUFFICES ASSUME s # id, sub[s] # Unused, fw[s].at = "none"
                 PROVE  s \in hub /\ conn'[sub[s].owner].at = "reply" /\ conn'[sub[s].owner].id = s
      BY <1>4
    <3>1. s \in hub /\ conn[sub[s].owner].at = "reply" /\ conn[sub[s].owner].id = s
      BY <2>1 DEF IdOK
    <3>2. sub[s].owner \in Conns /\ sub[s].owner # c
      BY <1>3, <3>1, OwnerType
    <3> QED BY <1>2, <3>1, <3>2 DEF Only
  <2>3. s \in hub => s \in conn'[sub[s].owner].subs
    <3> SUFFICES ASSUME s \in hub PROVE s \in conn'[sub[s].owner].subs
      OBVIOUS
    <3>1. s \in conn[sub[s].owner].subs /\ sub[s] # Unused
      BY <2>1 DEF IdOK
    <3>2. sub[s].owner \in Conns
      BY <3>1, OwnerType
    <3> QED BY <1>2, <3>1, <3>2 DEF Only
  <2>4. s # id => fw'[s] = fw[s]
    BY <1>4
  <2> QED BY <1>1, <1>3, <1>4, <1>6, <2>1, <2>2, <2>3, <2>4 DEF IdOK, Unused
<1> QED BY <1>8, <1>9 DEF Life

LEMMA LifeForward ==
    ASSUME TypeOK, Life, UNCHANGED <<hub, sub, closes, conn>>,
           \A s \in SubIds : fw'[s].at = "none" <=> fw[s].at = "none",
           \A s \in SubIds : s \in hub => fw'[s].at # "ended",
           \A s \in SubIds : sub[s] = Unused => chan'[s] = <<>>
    PROVE  Life'
<1>1. \A d \in Conns : \A s \in SubIds : Closer(d, s)' <=> Closer(d, s)
  BY DEF Closer
<1>2. ASSUME NEW d \in Conns PROVE ConnOK(d)'
  BY DEF Life, ConnOK, Unused
<1>3. ASSUME NEW s \in SubIds PROVE IdOK(s)'
  <2>1. IdOK(s)
    BY DEF Life
  <2> QED BY <1>1, <2>1 DEF IdOK, Unused
<1> QED BY <1>2, <1>3 DEF Life

-----------------------------------------------------------------------------
(* What the subscriptions were handed and what the publishers hold *)

Feeds ==
    /\ \A id \in SubIds : HandedOK(id)
    /\ \A a \in Actors : PubOK(a)
    /\ PastReached

(* A connection in a Publish is not moved by its read loop. *)
Busy == \A c \in Conns : conn[c].at = "open" /\ pub[c].at # "idle" => conn'[c].at = "open"

(* The steps that leave every Handed as it was. *)
LEMMA FeedsKept ==
    ASSUME TypeOK, Feeds, Busy, UNCHANGED <<sub, pub, events, aborted, dropped>>, hub' \subseteq hub,
           \A s \in SubIds :
              /\ Handed(s)' = Handed(s)
              /\ got'[s] = <<>> <=> got[s] = <<>>
              /\ got'[s] # <<>> => Head(got'[s]) = Reply
              /\ fw'[s].at \in {"none", "ended"} <=> fw[s].at \in {"none", "ended"}
    PROVE  Feeds'
<1>1. ASSUME NEW s \in SubIds PROVE HandedOK(s)'
  <2>1. HandedOK(s)
    BY DEF Feeds
  <2> QED BY <2>1 DEF HandedOK
<1>2. ASSUME NEW a \in Actors PROVE PubOK(a)'
  <2>1. PubOK(a)
    BY DEF Feeds
  <2>2. a \in Conns /\ pub[a].at # "idle" => conn'[a].at = "open"
    BY <2>1 DEF PubOK, Busy
  <2>3. pub[a].targets \in SUBSET SubIds
    BY DEF TypeOK
  <2> QED BY <2>1, <2>2, <2>3 DEF PubOK, Quiet, Unused
<1>3. ASSUME NEW s \in SubIds, NEW n PROVE (Reached(s, n)' <=> Reached(s, n)) /\ (Past(s, n)' <=> Past(s, n))
  BY DEF Reached, Past
<1>4. PastReached'
  <2>1. hub \subseteq SubIds
    BY DEF TypeOK
  <2> QED BY <1>3, <2>1 DEF Feeds, PastReached
<1> QED BY <1>1, <1>2, <1>4 DEF Feeds

LEMMA FeedsSubscribe ==
    ASSUME TypeOK, Feeds, Life, NEW c \in Conns, NEW id \in SubIds, NEW col \in Collections,
           Subscribe(c, id, col)
    PROVE  Feeds'
<1>1. /\ hub' = hub \cup {id} /\ UNCHANGED <<fw, chan, got, pub, events, aborted, dropped>>
      /\ sub[id] = Unused /\ pub[c].at = "idle"
  BY DEF Subscribe, Serving
<1>2. sub'[id].since = Len(events) /\ \A s \in SubIds : s # id => sub'[s] = sub[s]
  BY DEF Subscribe, TypeOK
<1>3. \A s \in SubIds : Handed(s)' = Handed(s)
  BY <1>1, HandedSame
<1>4. DOMAIN Handed(id) = {}
  <2>1. chan[id] = <<>> /\ fw[id].at = "none"
    BY <1>1 DEF Life, IdOK
  <2>2. got[id] = <<>>
    BY <2>1 DEF Feeds, HandedOK
  <2>3. Handed(id) = <<>> \o <<>> \o <<>>
    BY <2>1, <2>2 DEF Handed
  <2>4. Handed(id) = <<>>
    BY <2>3, ConcatEmptySeq
  <2> QED BY <2>4
<1>5. ASSUME NEW s \in SubIds PROVE HandedOK(s)'
  <2>1. HandedOK(s)
    BY DEF Feeds
  <2>2. CASE s = id
    BY <1>1, <1>3, <1>4, <2>1, <2>2 DEF HandedOK
  <2>3. CASE s # id
    BY <1>1, <1>2, <1>3, <2>1, <2>3 DEF HandedOK
  <2> QED BY <2>2, <2>3
<1>6. ASSUME NEW a \in Actors PROVE PubOK(a)'
  <2>1. PubOK(a)
    BY DEF Feeds
  <2>2. a \in Conns /\ pub[a].at # "idle" => conn'[a].at = "open"
    BY <1>1, <2>1, SubscribeConn DEF PubOK, Only
  <2>3. pub[a].targets \in SUBSET SubIds
    BY DEF TypeOK
  <2>4. pub[a].at = "sending" => \A s \in pub[a].targets : s # id
    BY <1>1, <2>1 DEF PubOK
  <2>5. pub[a].at = "sending" =>
            \A s \in pub[a].targets : sub'[s] # Unused /\ sub'[s].col = events[pub[a].n].col
    BY <1>2, <2>1, <2>3, <2>4 DEF PubOK
  <2> QED BY <1>1, <1>3, <2>1, <2>2, <2>3, <2>5 DEF PubOK, Quiet, Unused
<1>7. ASSUME NEW s \in SubIds, NEW n PROVE (Reached(s, n)' <=> Reached(s, n)) /\ (Past(s, n)' <=> Past(s, n))
  BY <1>1, <1>3 DEF Reached, Past
<1>8. PastReached'
  <2> SUFFICES ASSUME NEW s \in hub', NEW n \in (sub'[s].since + 1)..Len(events),
                      events[n].col = sub'[s].col, n \notin aborted, Past(s, n)'
               PROVE  Reached(s, n)'
    BY <1>1 DEF PastReached
  <2>1. s \in SubIds /\ Len(events) \in Nat
    BY <1>1, LenProperties DEF TypeOK
  <2>2. s # id
    <3>1. s = id => n \in (Len(events) + 1)..Len(events)
      BY <1>2
    <3> QED BY <2>1, <3>1
  <2>3. s \in hub /\ sub'[s] = sub[s]
    BY <1>1, <1>2, <2>1, <2>2
  <2> QED BY <1>7, <2>1, <2>3 DEF Feeds, PastReached
<1> QED BY <1>5, <1>6, <1>8 DEF Feeds

LEMMA FeedsReply ==
    ASSUME TypeOK, TypeOK', Feeds, Life, NEW c \in Conns, SubscribeReply(c)
    PROVE  Feeds'
<1>1. UNCHANGED <<hub, sub, chan, pub, events, aborted, dropped>> /\ conn[c].at = "reply"
  BY DEF SubscribeReply
<1>2. PICK id \in SubIds : id = conn[c].id /\ sub[id] # Unused /\ fw[id].at = "none"
  BY <1>1 DEF Life, ConnOK
<1>3. fw'[id].at = "select" /\ \A s \in SubIds : s # id => fw'[s] = fw[s]
  BY <1>2, MoveFw DEF SubscribeReply
<1>4. got[id] = <<>>
  BY <1>2 DEF Feeds, HandedOK
<1>5. got'[id] = <<Reply>> /\ \A s \in SubIds : s # id => got'[s] = got[s]
  <2>1. got' = [got EXCEPT ![id] = Append(got[id], Reply)]
    BY <1>2 DEF SubscribeReply
  <2>2. Append(<<>>, Reply) = <<Reply>>
    OBVIOUS
  <2> QED BY <1>4, <2>1, <2>2 DEF TypeOK
<1>6. \A s \in SubIds : s # id => Handed(s)' = Handed(s)
  BY <1>1, <1>3, <1>5, HandedSame
<1>7. /\ Handed(id)' \in Seq(Nat)
      /\ Len(Handed(id)') = Len(Handed(id)) + 1
      /\ Handed(id)'[1] = Reply
      /\ \A i \in DOMAIN Handed(id) : Handed(id)'[i + 1] = Handed(id)[i]
      /\ \A i \in DOMAIN Handed(id)' : i # 1 =>
            i - 1 \in DOMAIN Handed(id) /\ Handed(id)'[i] = Handed(id)[i - 1]
  BY <1>1, <1>2, <1>3, <1>4, <1>5, HandedReply
<1>8. /\ DOMAIN Handed(id) = 1..Len(Handed(id)) /\ Len(Handed(id)) \in Nat
      /\ DOMAIN Handed(id)' = 1..(Len(Handed(id)) + 1)
      /\ \A i \in DOMAIN Handed(id) : Handed(id)[i] \in Nat
  BY <1>7, HandedType, LenProperties
<1>9. \A i \in DOMAIN Handed(id) : Handed(id)[i] # Reply
  BY <1>4 DEF Feeds, HandedOK
<1>10. \A n : n # Reply => ((\E i \in DOMAIN Handed(id)' : Handed(id)'[i] = n)
                              <=> (\E i \in DOMAIN Handed(id) : Handed(id)[i] = n))
  <2> SUFFICES ASSUME NEW n, n # Reply
               PROVE  (\E i \in DOMAIN Handed(id)' : Handed(id)'[i] = n)
                        <=> (\E i \in DOMAIN Handed(id) : Handed(id)[i] = n)
    OBVIOUS
  <2>1. ASSUME NEW i \in DOMAIN Handed(id)', Handed(id)'[i] = n
        PROVE  \E j \in DOMAIN Handed(id) : Handed(id)[j] = n
    BY <1>7, <2>1
  <2>2. ASSUME NEW i \in DOMAIN Handed(id), Handed(id)[i] = n
        PROVE  \E j \in DOMAIN Handed(id)' : Handed(id)'[j] = n
    <3>1. i + 1 \in DOMAIN Handed(id)'
      BY <1>8
    <3> QED BY <1>7, <2>2, <3>1
  <2> QED BY <2>1, <2>2
<1>11. ASSUME NEW s \in SubIds PROVE HandedOK(s)'
  <2>1. HandedOK(s)
    BY DEF Feeds
  <2>2. CASE s = id
    <3>1. got'[id] # <<>> /\ Head(got'[id]) = Reply
      BY <1>5
    <3>2. ASSUME NEW i \in DOMAIN Handed(id)'
          PROVE  /\ Handed(id)'[i] = Reply => i = 1
                 /\ Handed(id)'[i] # Reply => /\ Handed(id)'[i] \in 1..Len(events)
                                              /\ events[Handed(id)'[i]].col = sub[id].col
      BY <1>7, <1>9, <2>1, <2>2 DEF HandedOK
    <3>3. ASSUME NEW i \in DOMAIN Handed(id)', NEW j \in DOMAIN Handed(id)', i < j,
                 Handed(id)'[i] # Reply, events[Handed(id)'[i]].by = events[Handed(id)'[j]].by
          PROVE  Handed(id)'[i] < Handed(id)'[j]
      <4>1. i # 1 /\ j # 1 /\ i \in Nat /\ j \in Nat
        BY <1>7, <1>8, <3>3
      <4>2. /\ i - 1 \in DOMAIN Handed(id) /\ Handed(id)'[i] = Handed(id)[i - 1]
            /\ j - 1 \in DOMAIN Handed(id) /\ Handed(id)'[j] = Handed(id)[j - 1]
        BY <1>7, <4>1
      <4>3. i - 1 < j - 1
        BY <3>3, <4>1
      <4> QED BY <2>1, <2>2, <3>3, <4>2, <4>3 DEF HandedOK
    <3> QED BY <1>1, <1>3, <2>2, <3>1, <3>2, <3>3 DEF HandedOK
  <2>3. CASE s # id
    BY <1>1, <1>3, <1>5, <1>6, <2>1, <2>3 DEF HandedOK
  <2> QED BY <2>2, <2>3
<1>12. ASSUME NEW s \in SubIds, NEW n, n # Reply
       PROVE  (\E i \in DOMAIN Handed(s)' : Handed(s)'[i] = n)
                <=> (\E i \in DOMAIN Handed(s) : Handed(s)[i] = n)
  BY <1>6, <1>10, <1>12
<1>13. ASSUME NEW a \in Actors PROVE PubOK(a)'
  <2>1. PubOK(a) /\ Len(events) \in Nat
    BY LenProperties DEF Feeds, TypeOK
  <2>2. a \in Conns /\ pub[a].at # "idle" => conn'[a].at = "open"
    BY <1>1, <2>1, ReplyConn DEF PubOK, Only
  <2>3. pub[a].targets \in SUBSET SubIds
    BY DEF TypeOK
  <2>4. pub[a].at # "idle" => pub[a].n # Reply
    BY <2>1 DEF PubOK, Reply
  <2>5. pub[a].at = "committed" =>
           \A s \in SubIds : \A i \in DOMAIN Handed(s)' : Handed(s)'[i] # pub[a].n
    <3> SUFFICES ASSUME pub[a].at = "committed", NEW s \in SubIds
                 PROVE  ~\E i \in DOMAIN Handed(s)' : Handed(s)'[i] = pub[a].n
      OBVIOUS
    <3>1. ~\E i \in DOMAIN Handed(s) : Handed(s)[i] = pub[a].n
      BY <2>1 DEF PubOK
    <3> QED BY <1>12, <2>4, <3>1
  <2>6. pub[a].at = "sending" =>
           \A s \in pub[a].targets : \A i \in DOMAIN Handed(s)' : Handed(s)'[i] # pub[a].n
    BY <1>12, <2>1, <2>3, <2>4 DEF PubOK
  <2> QED BY <1>1, <2>1, <2>2, <2>5, <2>6 DEF PubOK, Quiet, Unused
<1>14. PastReached'
  <2>1. hub \subseteq SubIds /\ Len(events) \in Nat
    BY LenProperties DEF TypeOK
  <2> SUFFICES ASSUME NEW s \in hub, NEW n \in (sub[s].since + 1)..Len(events),
                      events[n].col = sub[s].col, n \notin aborted, Past(s, n)'
               PROVE  Reached(s, n)'
    BY <1>1 DEF PastReached
  <2>2. sub[s] # Unused
    BY <2>1 DEF Life, IdOK
  <2>3. n # Reply
    BY <2>1, <2>2, OwnerType DEF Reply
  <2>4. Past(s, n)
    BY <1>1 DEF Past
  <2>5. Reached(s, n)
    BY <2>4 DEF Feeds, PastReached
  <2> QED BY <1>1, <1>12, <2>1, <2>3, <2>5 DEF Reached
<1> QED BY <1>11, <1>13, <1>14 DEF Feeds

LEMMA FeedsCommit ==
    ASSUME TypeOK, Feeds, Life, NEW a \in Writers, NEW col \in Collections, Commit(a, col)
    PROVE  Feeds'
<1>1. /\ UNCHANGED <<hub, sub, chan, fw, conn, aborted, dropped, got>>
      /\ pub[a].at = "idle" /\ (a \in Conns => conn[a].at = "open")
  BY DEF Commit
<1>2. a \in Actors
  BY DEF Actors
<1>3. PICK L \in Nat : L = Len(events)
  BY LenProperties DEF TypeOK
<1>4. /\ Len(events') = L + 1 /\ events'[L + 1].by = a
      /\ \A m \in 1..L : events'[m] = events[m]
  BY <1>3 DEF Commit, TypeOK
<1>5. /\ pub'[a].at = "committed" /\ pub'[a].n = L + 1 /\ pub'[a].targets = {}
      /\ \A b \in Actors : b # a => pub'[b] = pub[b]
  BY <1>2, <1>3 DEF Commit, Quiet, TypeOK
<1>6. \A s \in SubIds : Handed(s)' = Handed(s)
  BY <1>1, HandedSame
<1>7. ASSUME NEW s \in SubIds
      PROVE  \A i \in DOMAIN Handed(s) : Handed(s)[i] = Reply \/ Handed(s)[i] \in 1..L
  BY <1>3 DEF Feeds, HandedOK
<1>8. ASSUME NEW s \in SubIds PROVE HandedOK(s)'
  <2>1. HandedOK(s) /\ DOMAIN Handed(s) = 1..Len(Handed(s)) /\ Len(Handed(s)) \in Nat
    BY HandedType DEF Feeds
  <2>2. ASSUME NEW i \in DOMAIN Handed(s), Handed(s)[i] # Reply
        PROVE  Handed(s)[i] \in 1..(L + 1) /\ events'[Handed(s)[i]].col = sub[s].col
    BY <1>3, <1>4, <1>7, <2>1, <2>2 DEF HandedOK
  <2>3. ASSUME NEW i \in DOMAIN Handed(s), NEW j \in DOMAIN Handed(s), i < j, Handed(s)[i] # Reply,
               events'[Handed(s)[i]].by = events'[Handed(s)[j]].by
        PROVE  Handed(s)[i] < Handed(s)[j]
    <3>1. Handed(s)[j] # Reply
      BY <2>1, <2>3 DEF HandedOK
    <3>2. events'[Handed(s)[i]] = events[Handed(s)[i]] /\ events'[Handed(s)[j]] = events[Handed(s)[j]]
      BY <1>4, <1>7, <2>3, <3>1
    <3> QED BY <2>1, <2>3, <3>2 DEF HandedOK
  <2> QED BY <1>1, <1>4, <1>6, <2>1, <2>2, <2>3 DEF HandedOK
<1>9. ASSUME NEW b \in Actors PROVE PubOK(b)'
  <2>1. PubOK(b)
    BY DEF Feeds
  <2>2. CASE b = a
    <3>1. \A m \in 1..(L + 1) : m <= L + 1
      OBVIOUS
    <3>2. \A s \in SubIds : \A i \in DOMAIN Handed(s) : Handed(s)[i] # L + 1
      BY <1>7 DEF Reply
    <3>3. L + 1 \in 1..(L + 1)
      OBVIOUS
    <3> QED BY <1>1, <1>4, <1>5, <1>6, <2>2, <3>1, <3>2, <3>3 DEF PubOK
  <2>3. CASE b # a
    <3>1. pub'[b] = pub[b] /\ pub[b].targets \in SUBSET SubIds
      BY <1>5, <2>3 DEF TypeOK
    <3>2. CASE pub[b].at = "idle"
      BY <2>1, <3>1, <3>2 DEF PubOK, Quiet
    <3>3. CASE pub[b].at # "idle"
      <4>1. pub[b].n \in 1..L /\ pub[b].n \in 1..(L + 1)
        BY <1>3, <2>1, <3>3 DEF PubOK
      <4>2. events'[pub[b].n] = events[pub[b].n]
        BY <1>4, <4>1
      <4>3. \A m \in 1..(L + 1) : events'[m].by = b => m <= pub[b].n
        BY <1>3, <1>4, <2>1, <2>3, <3>3 DEF PubOK
      <4> QED BY <1>1, <1>4, <1>6, <2>1, <3>1, <3>3, <4>1, <4>2, <4>3 DEF PubOK, Unused
    <3> QED BY <3>2, <3>3
  <2> QED BY <2>2, <2>3
<1>10. PastReached'
  <2>1. hub \subseteq SubIds
    BY DEF TypeOK
  <2> SUFFICES ASSUME NEW s \in hub, NEW n \in (sub[s].since + 1)..(L + 1),
                      events'[n].col = sub[s].col, n \notin aborted, Past(s, n)'
               PROVE  Reached(s, n)'
    BY <1>1, <1>4 DEF PastReached
  <2>2. sub[s].since \in Nat
    BY <2>1, OwnerType DEF Life, IdOK
  <2>3. n # L + 1
    BY <1>2, <1>5 DEF Past
  <2>4. n \in (sub[s].since + 1)..L /\ n \in 1..L /\ n # 0
    BY <2>2, <2>3
  <2>5. Past(s, n)
    <3>1. pub[a].n = 0
      BY <1>1, <1>2 DEF Feeds, PubOK, Quiet
    <3> QED BY <1>2, <1>5, <2>4, <3>1 DEF Past
  <2>6. Reached(s, n)
    BY <1>3, <1>4, <2>4, <2>5 DEF Feeds, PastReached
  <2> QED BY <1>1, <1>6, <2>1, <2>6 DEF Reached
<1> QED BY <1>8, <1>9, <1>10 DEF Feeds

LEMMA FeedsSnapshot ==
    ASSUME TypeOK, Feeds, Life, NEW a \in Writers, Snapshot(a)
    PROVE  Feeds'
<1>1. /\ UNCHANGED <<hub, sub, chan, fw, conn, events, aborted, dropped, got>>
      /\ pub[a].at = "committed"
  BY DEF Snapshot
<1>2. a \in Actors
  BY DEF Actors
<1>3. PICK T \in SUBSET hub :
         /\ T = {id \in hub : sub[id].col = events[pub[a].n].col}
         /\ pub' = [pub EXCEPT ![a] = Sending(pub[a].n, T)]
  BY DEF Snapshot
<1>4. \A b \in Actors : b # a => pub'[b] = pub[b]
  BY <1>2, <1>3 DEF TypeOK
<1>5. pub'[a] = Sending(pub[a].n, T)
  BY <1>2, <1>3 DEF TypeOK
<1>6. \A s \in SubIds : Handed(s)' = Handed(s)
  BY <1>1, HandedSame
<1>7. ASSUME NEW s \in SubIds PROVE HandedOK(s)'
  BY <1>1, <1>6 DEF Feeds, HandedOK
<1>8. ASSUME NEW b \in Actors PROVE PubOK(b)'
  <2>1. PubOK(b)
    BY DEF Feeds
  <2>2. CASE b = a
    <3>1. CASE T = {}
      BY <1>5, <2>2, <3>1 DEF PubOK, Sending, Quiet
    <3>2. CASE T # {}
      <4>1. pub'[a].at = "sending" /\ pub'[a].n = pub[a].n /\ pub'[a].targets = T
        BY <1>5, <3>2 DEF Sending
      <4>2. \A s \in T : s \in SubIds /\ sub[s] # Unused /\ sub[s].col = events[pub[a].n].col
        BY <1>3 DEF Life, IdOK, TypeOK
      <4> QED BY <1>1, <1>6, <2>1, <2>2, <4>1, <4>2 DEF PubOK, Unused
    <3> QED BY <3>1, <3>2
  <2>3. CASE b # a
    <3>1. pub'[b] = pub[b] /\ pub[b].targets \in SUBSET SubIds
      BY <1>4, <2>3 DEF TypeOK
    <3> QED BY <1>1, <1>6, <2>1, <3>1 DEF PubOK, Quiet, Unused
  <2> QED BY <2>2, <2>3
<1>9. PastReached'
  <2>1. hub \subseteq SubIds
    BY DEF TypeOK
  <2> SUFFICES ASSUME NEW s \in hub, NEW n \in (sub[s].since + 1)..Len(events),
                      events[n].col = sub[s].col, n \notin aborted, Past(s, n)'
               PROVE  Reached(s, n)'
    BY <1>1 DEF PastReached
  <2>2. n # pub[a].n
    <3> SUFFICES ASSUME n = pub[a].n PROVE FALSE
      OBVIOUS
    <3>1. s \in T
      BY <1>3
    <3>2. pub'[a].n = n /\ pub'[a].targets = T
      BY <1>5, <3>1 DEF Sending
    <3> QED BY <1>2, <3>1, <3>2 DEF Past
  <2>3. Past(s, n)
    BY <1>4, <2>2 DEF Past
  <2>4. Reached(s, n)
    BY <2>3 DEF Feeds, PastReached
  <2> QED BY <1>1, <1>6, <2>1, <2>4 DEF Reached
<1> QED BY <1>7, <1>8, <1>9 DEF Feeds

LEMMA FeedsPanic ==
    ASSUME TypeOK, Feeds, NEW a \in Writers, NEW id \in SubIds, SendPanics(a, id)
    PROVE  Feeds'
<1>1. UNCHANGED <<hub, sub, chan, fw, events, dropped, got>> /\ aborted' = aborted \cup {pub[a].n}
  BY DEF SendPanics
<1>2. a \in Actors
  BY DEF Actors
<1>3. pub'[a] = Quiet /\ \A b \in Actors : b # a => pub'[b] = pub[b]
  BY <1>2 DEF SendPanics, TypeOK
<1>4. \A b \in Conns : b # a => conn'[b] = conn[b]
  BY DEF SendPanics, TypeOK
<1>5. \A s \in SubIds : Handed(s)' = Handed(s)
  BY <1>1, HandedSame
<1>6. ASSUME NEW s \in SubIds PROVE HandedOK(s)'
  BY <1>1, <1>5 DEF Feeds, HandedOK
<1>7. ASSUME NEW b \in Actors PROVE PubOK(b)'
  <2>1. PubOK(b)
    BY DEF Feeds
  <2>2. CASE b = a
    BY <1>3, <2>2 DEF PubOK, Quiet
  <2>3. CASE b # a
    <3>1. pub'[b] = pub[b] /\ pub[b].targets \in SUBSET SubIds /\ (b \in Conns => conn'[b] = conn[b])
      BY <1>3, <1>4, <2>3 DEF TypeOK
    <3> QED BY <1>1, <1>5, <2>1, <3>1 DEF PubOK, Quiet, Unused
  <2> QED BY <2>2, <2>3
<1>8. PastReached'
  <2>1. hub \subseteq SubIds
    BY DEF TypeOK
  <2> SUFFICES ASSUME NEW s \in hub, NEW n \in (sub[s].since + 1)..Len(events),
                      events[n].col = sub[s].col, n \notin aborted', Past(s, n)'
               PROVE  Reached(s, n)'
    BY <1>1 DEF PastReached
  <2>2. n # pub[a].n /\ n \notin aborted
    BY <1>1
  <2>3. Past(s, n)
    BY <1>3, <2>2 DEF Past
  <2>4. Reached(s, n)
    BY <2>2, <2>3 DEF Feeds, PastReached
  <2> QED BY <1>1, <1>5, <2>1, <2>4 DEF Reached
<1> QED BY <1>6, <1>7, <1>8 DEF Feeds

LEMMA FeedsEnd ==
    ASSUME TypeOK, Feeds, Life, NEW id \in SubIds \ hub, End(id)
    PROVE  Feeds'
<1>1. UNCHANGED <<hub, sub, conn, pub, events, aborted>>
  BY DEF End
<1>2. fw'[id].at = "ended" /\ \A s \in SubIds : s # id => fw'[s] = fw[s]
  BY MoveFw DEF End
<1>3. /\ chan'[id] = <<>> /\ got'[id] = <<>>
      /\ \A s \in SubIds : s # id =>
            chan'[s] = chan[s] /\ got'[s] = got[s] /\ dropped'[s] = dropped[s]
  BY DEF End, TypeOK
<1>4. \A s \in SubIds : s # id => Handed(s)' = Handed(s)
  BY <1>2, <1>3, HandedSame
<1>5. DOMAIN Handed(id)' = {}
  <2>1. Handed(id)' = <<>> \o <<>> \o <<>>
    BY <1>2, <1>3 DEF Handed
  <2>2. Handed(id)' = <<>>
    BY <2>1, ConcatEmptySeq
  <2> QED BY <2>2
<1>6. ASSUME NEW s \in SubIds PROVE HandedOK(s)'
  <2>1. CASE s = id
    BY <1>2, <1>3, <1>5, <2>1 DEF HandedOK
  <2>2. CASE s # id
    BY <1>1, <1>2, <1>3, <1>4, <2>2 DEF Feeds, HandedOK
  <2> QED BY <2>1, <2>2
<1>7. ASSUME NEW a \in Actors PROVE PubOK(a)'
  <2>1. PubOK(a) /\ pub[a].targets \in SUBSET SubIds
    BY DEF Feeds, TypeOK
  <2>2. pub[a].at = "committed" =>
           \A s \in SubIds : \A i \in DOMAIN Handed(s)' : Handed(s)'[i] # pub[a].n
    BY <1>4, <1>5, <2>1 DEF PubOK
  <2>3. pub[a].at = "sending" =>
           \A s \in pub[a].targets : \A i \in DOMAIN Handed(s)' : Handed(s)'[i] # pub[a].n
    BY <1>4, <1>5, <2>1 DEF PubOK
  <2> QED BY <1>1, <2>1, <2>2, <2>3 DEF PubOK, Quiet, Unused
<1>8. PastReached'
  <2>1. \A s \in hub : s \in SubIds /\ s # id
    BY DEF TypeOK
  <2>2. \A s \in hub : \A n : (Reached(s, n)' <=> Reached(s, n)) /\ (Past(s, n)' <=> Past(s, n))
    BY <1>1, <1>3, <1>4, <2>1 DEF Reached, Past
  <2> QED BY <1>1, <2>2 DEF Feeds, PastReached
<1> QED BY <1>6, <1>7, <1>8 DEF Feeds

LEMMA FeedsSend ==
    ASSUME TypeOK, Feeds, Life, NEW a \in Writers, NEW id \in SubIds, Send(a, id)
    PROVE  Feeds'
<1>1. /\ UNCHANGED <<hub, sub, fw, conn, events, aborted, got>>
      /\ pub[a].at = "sending" /\ id \in pub[a].targets
  BY DEF Send
<1>2. a \in Actors
  BY DEF Actors
<1>3. pub'[a] = Sending(pub[a].n, pub[a].targets \ {id}) /\ \A b \in Actors : b # a => pub'[b] = pub[b]
  BY <1>2 DEF Send, TypeOK
<1>4. PICK L \in Nat : L = Len(events)
  BY LenProperties DEF TypeOK
<1>5. PICK n \in 1..L :
         /\ n = pub[a].n /\ events[n].by = a /\ sub[id].col = events[n].col
         /\ \A m \in 1..L : events[m].by = a => m <= n
         /\ \A i \in DOMAIN Handed(id) : Handed(id)[i] # n
  BY <1>1, <1>2, <1>4 DEF Feeds, PubOK
<1>6. \A s \in SubIds : s # id => chan'[s] = chan[s] /\ dropped[s] \subseteq dropped'[s]
  BY DEF Send, TypeOK
<1>7. \A s \in SubIds : s # id => Handed(s)' = Handed(s)
  BY <1>1, <1>6, HandedSame
<1>8. dropped[id] \subseteq dropped'[id]
  BY DEF Send, TypeOK
<1>9. DOMAIN Handed(id) = 1..Len(Handed(id)) /\ Len(Handed(id)) \in Nat /\ Handed(id) \in Seq(Nat)
  BY HandedType
<1>10. \/ /\ Handed(id)' \in Seq(Nat)
          /\ DOMAIN Handed(id)' = 1..(Len(Handed(id)) + 1)
          /\ Handed(id)'[Len(Handed(id)) + 1] = n
          /\ \A i \in 1..Len(Handed(id)) : Handed(id)'[i] = Handed(id)[i]
       \/ Handed(id)' = Handed(id) /\ n \in dropped'[id]
  <2>1. CASE Len(chan[id]) < ChanCap
    <3>1. chan'[id] = Append(chan[id], n)
      BY <1>5, <2>1 DEF Send, TypeOK
    <3>2. Handed(id)' = Append(Handed(id), n)
      BY <1>1, <3>1, HandedSend
    <3>3. PICK h \in Seq(Nat) : h = Handed(id)
      BY <1>9
    <3>4. /\ Append(h, n) \in Seq(Nat) /\ Len(Append(h, n)) = Len(h) + 1
          /\ Append(h, n)[Len(h) + 1] = n /\ \A i \in 1..Len(h) : Append(h, n)[i] = h[i]
      OBVIOUS
    <3>5. DOMAIN Append(h, n) = 1..(Len(h) + 1)
      BY <3>4, LenProperties
    <3> QED BY <3>2, <3>3, <3>4, <3>5
  <2>2. CASE ~(Len(chan[id]) < ChanCap)
    <3>1. chan' = chan /\ dropped' = [dropped EXCEPT ![id] = dropped[id] \cup {pub[a].n}]
      BY <2>2 DEF Send
    <3>2. Handed(id)' = Handed(id)
      BY <1>1, <3>1, HandedSame
    <3> QED BY <1>5, <3>1, <3>2 DEF TypeOK
  <2> QED BY <2>1, <2>2
<1>11. \A m : m # n => ((\E i \in DOMAIN Handed(id)' : Handed(id)'[i] = m)
                          <=> (\E i \in DOMAIN Handed(id) : Handed(id)[i] = m))
  <2>1. CASE Handed(id)' = Handed(id)
    BY <2>1
  <2>2. CASE /\ DOMAIN Handed(id)' = 1..(Len(Handed(id)) + 1)
             /\ Handed(id)'[Len(Handed(id)) + 1] = n
             /\ \A i \in 1..Len(Handed(id)) : Handed(id)'[i] = Handed(id)[i]
    BY <1>9, <2>2
  <2> QED BY <1>10, <2>1, <2>2
<1>12. ASSUME NEW s \in SubIds PROVE HandedOK(s)'
  <2>1. HandedOK(s)
    BY DEF Feeds
  <2>2. CASE s # id \/ Handed(id)' = Handed(id)
    BY <1>1, <1>7, <2>1, <2>2 DEF HandedOK
  <2>3. CASE /\ s = id
             /\ DOMAIN Handed(id)' = 1..(Len(Handed(id)) + 1)
             /\ Handed(id)'[Len(Handed(id)) + 1] = n
             /\ \A i \in 1..Len(Handed(id)) : Handed(id)'[i] = Handed(id)[i]
    <3>1. n # Reply /\ n \in Nat
      BY DEF Reply
    <3>2. ASSUME NEW i \in DOMAIN Handed(id)'
          PROVE  /\ Handed(id)'[i] = Reply => i = 1 /\ got[id] # <<>>
                 /\ Handed(id)'[i] # Reply => /\ Handed(id)'[i] \in 1..L
                                              /\ events[Handed(id)'[i]].col = sub[id].col
      <4>1. CASE i = Len(Handed(id)) + 1
        BY <1>5, <2>3, <3>1, <4>1
      <4>2. CASE i \in 1..Len(Handed(id))
        BY <1>4, <1>9, <2>1, <2>3, <4>2 DEF HandedOK
      <4> QED BY <1>9, <2>3, <4>1, <4>2
    <3>3. ASSUME NEW i \in DOMAIN Handed(id)', NEW j \in DOMAIN Handed(id)', i < j,
                 Handed(id)'[i] # Reply, events[Handed(id)'[i]].by = events[Handed(id)'[j]].by
          PROVE  Handed(id)'[i] < Handed(id)'[j]
      <4>1. i \in 1..Len(Handed(id)) /\ Handed(id)'[i] = Handed(id)[i]
        BY <1>9, <2>3, <3>3
      <4>2. CASE j = Len(Handed(id)) + 1
        <5>1. Handed(id)'[j] = n /\ Handed(id)'[i] \in 1..L /\ Handed(id)'[i] # n
          BY <1>5, <1>9, <2>3, <3>2, <3>3, <4>1, <4>2
        <5>2. Handed(id)'[i] <= n
          BY <1>5, <3>3, <5>1
        <5> QED BY <3>1, <5>1, <5>2
      <4>3. CASE j \in 1..Len(Handed(id))
        <5>1. Handed(id)'[j] = Handed(id)[j]
          BY <2>3, <4>3
        <5> QED BY <1>9, <2>1, <2>3, <3>3, <4>1, <4>3, <5>1 DEF HandedOK
      <4> QED BY <1>9, <2>3, <4>2, <4>3
    <3> QED BY <1>1, <1>4, <2>1, <2>3, <3>2, <3>3 DEF HandedOK
  <2> QED BY <1>10, <2>2, <2>3
<1>13. ASSUME NEW b \in Actors PROVE PubOK(b)'
  <2>1. PubOK(b) /\ pub[b].targets \in SUBSET SubIds
    BY DEF Feeds, TypeOK
  <2>2. CASE b = a
    <3>1. CASE pub[a].targets \ {id} = {}
      BY <1>3, <2>2, <3>1 DEF PubOK, Sending, Quiet
    <3>2. CASE pub[a].targets \ {id} # {}
      <4>1. /\ pub'[a].at = "sending" /\ pub'[a].n = pub[a].n
            /\ pub'[a].targets = pub[a].targets \ {id}
        BY <1>3, <3>2 DEF Sending
      <4>2. \A s \in pub[a].targets \ {id} : Handed(s)' = Handed(s)
        BY <1>7, <2>1, <2>2
      <4> QED BY <1>1, <2>1, <2>2, <4>1, <4>2 DEF PubOK, Unused
    <3> QED BY <3>1, <3>2
  <2>3. CASE b # a
    <3>1. pub'[b] = pub[b]
      BY <1>3, <2>3
    <3>2. CASE pub[b].at = "idle"
      BY <2>1, <3>1, <3>2 DEF PubOK, Quiet
    <3>3. CASE pub[b].at # "idle"
      <4>1. pub[b].n # n
        BY <1>5, <2>1, <2>3, <3>3 DEF PubOK
      <4>2. ASSUME NEW s \in SubIds, \A i \in DOMAIN Handed(s) : Handed(s)[i] # pub[b].n
            PROVE  \A i \in DOMAIN Handed(s)' : Handed(s)'[i] # pub[b].n
        <5>1. ~\E i \in DOMAIN Handed(s) : Handed(s)[i] = pub[b].n
          BY <4>2
        <5>2. ~\E i \in DOMAIN Handed(s)' : Handed(s)'[i] = pub[b].n
          BY <1>7, <1>11, <4>1, <5>1
        <5> QED BY <5>2
      <4>3. pub[b].at = "committed" =>
               \A s \in SubIds : \A i \in DOMAIN Handed(s)' : Handed(s)'[i] # pub[b].n
        BY <2>1, <4>2 DEF PubOK
      <4>4. pub[b].at = "sending" =>
               \A s \in pub[b].targets : \A i \in DOMAIN Handed(s)' : Handed(s)'[i] # pub[b].n
        BY <2>1, <4>2 DEF PubOK
      <4> QED BY <1>1, <2>1, <3>1, <3>3, <4>3, <4>4 DEF PubOK, Unused
    <3> QED BY <3>2, <3>3
  <2> QED BY <2>2, <2>3
<1>14. PastReached'
  <2>1. hub \subseteq SubIds
    BY DEF TypeOK
  <2> SUFFICES ASSUME NEW s \in hub, NEW k \in (sub[s].since + 1)..Len(events),
                      events[k].col = sub[s].col, k \notin aborted, Past(s, k)'
               PROVE  Reached(s, k)'
    BY <1>1 DEF PastReached
  <2>2. CASE s = id /\ k = n
    <3>1. n \in dropped'[id] \/ \E i \in DOMAIN Handed(id)' : Handed(id)'[i] = n
      BY <1>9, <1>10
    <3> QED BY <2>2, <3>1 DEF Reached
  <2>3. CASE ~(s = id /\ k = n)
    <3>1. Past(s, k)
      <4>1. pub[a].n = k => pub[a].at = "sending" /\ s \notin pub[a].targets
        <5> SUFFICES ASSUME pub[a].n = k, s \in pub[a].targets PROVE FALSE
          BY <1>1
        <5>1. s \in pub[a].targets \ {id}
          BY <1>5, <2>3
        <5>2. pub'[a].n = k /\ s \in pub'[a].targets
          BY <1>3, <5>1 DEF Sending
        <5> QED BY <1>2, <5>2 DEF Past
      <4> QED BY <1>3, <4>1 DEF Past
    <3>2. Reached(s, k)
      BY <3>1 DEF Feeds, PastReached
    <3>3. CASE k \in dropped[s]
      BY <1>6, <1>8, <2>1, <3>3 DEF Reached
    <3>4. CASE \E i \in DOMAIN Handed(s) : Handed(s)[i] = k
      <4>1. \E i \in DOMAIN Handed(s)' : Handed(s)'[i] = k
        <5>1. CASE s # id
          BY <1>7, <2>1, <3>4, <5>1
        <5>2. CASE s = id
          BY <1>11, <2>3, <3>4, <5>2
        <5> QED BY <5>1, <5>2
      <4> QED BY <4>1 DEF Reached
    <3> QED BY <3>2, <3>3, <3>4 DEF Reached
  <2> QED BY <2>2, <2>3
<1> QED BY <1>12, <1>13, <1>14 DEF Feeds

-----------------------------------------------------------------------------
(* The invariant *)

LEMMA HubInvParts == HubInv <=> TypeOK /\ Life /\ Feeds
BY DEF HubInv, Life, Feeds

LEMMA HubInit == Init => HubInv
<1> SUFFICES ASSUME Init PROVE HubInv
  OBVIOUS
<1> USE DEF Init
<1>1. TypeOK
  <2>1. conn \in [Conns -> ConnType] /\ pub \in [Actors -> PubType] /\ fw \in [SubIds -> FwType]
    BY DEF ConnType, PubType, FwType, ConnStates, Accepted, Quiet
  <2> QED BY <2>1, HubAssumption DEF TypeOK, ConnType, PubType, FwType, Unused
<1>2. \A s \in SubIds : DOMAIN Handed(s) = {} /\ got[s] = <<>> /\ fw[s].at = "none" /\ sub[s] = Unused
  <2> SUFFICES ASSUME NEW s \in SubIds PROVE DOMAIN Handed(s) = {}
    OBVIOUS
  <2>1. Handed(s) = <<>> \o <<>> \o <<>>
    BY DEF Handed
  <2>2. Handed(s) = <<>>
    BY <2>1, ConcatEmptySeq
  <2> QED BY <2>2
<1>3. Life
  <2>1. ASSUME NEW c \in Conns PROVE ConnOK(c)
    <3>1. conn[c].at = "open" /\ conn[c].subs = {} /\ conn[c].found = FALSE
      BY DEF Accepted
    <3>2. Cardinality({}) <= MaxSubs
      BY FS_EmptySet, HubAssumption
    <3> QED BY <3>1, <3>2 DEF ConnOK
  <2>2. ASSUME NEW s \in SubIds PROVE IdOK(s)
    BY <1>2 DEF IdOK, Closer, Accepted
  <2> QED BY <2>1, <2>2 DEF Life
<1>4. Feeds
  <2>1. ASSUME NEW s \in SubIds PROVE HandedOK(s)
    BY <1>2 DEF HandedOK
  <2>2. ASSUME NEW a \in Actors PROVE PubOK(a)
    BY DEF PubOK, Quiet
  <2>3. PastReached
    BY DEF PastReached
  <2> QED BY <2>1, <2>2, <2>3 DEF Feeds
<1> QED BY <1>1, <1>3, <1>4, HubInvParts

LEMMA NotRegistered ==
    ASSUME TypeOK, Life, NEW id \in SubIds, End(id)
    PROVE  id \notin hub
<1> SUFFICES ASSUME id \in hub PROVE FALSE
  OBVIOUS
<1>1. closes[id] = 0 /\ sub[id] # Unused /\ id \in conn[sub[id].owner].subs
  BY DEF Life, IdOK
<1>2. sub[id].owner \in Conns
  BY <1>1, OwnerType
<1>3. conn[sub[id].owner].at = "closed"
  BY <1>1 DEF End, Closed
<1> QED BY <1>1, <1>2, <1>3 DEF Life, ConnOK

LEMMA HubStep == HubInv /\ [Next]_vars => HubInv'
<1> SUFFICES ASSUME TypeOK, Life, Feeds, [Next]_vars PROVE HubInv'
  BY HubInvParts
<1> USE DEF ConnStates
<1>0. \A s \in SubIds : HandedOK(s)
  BY DEF Feeds
<1>1. CASE UNCHANGED vars
  <2>1. TypeOK'
    BY <1>1 DEF TypeOK, vars, Unused
  <2>2. Life'
    BY <1>1 DEF Life, ConnOK, IdOK, Closer, vars, Unused
  <2>3. \A s \in SubIds : Handed(s)' = Handed(s)
    BY <1>1, HandedSame DEF vars
  <2>4. Feeds'
    BY <1>0, <1>1, <2>3, FeedsKept DEF vars, Busy, HandedOK
  <2> QED BY <2>1, <2>2, <2>4 DEF HubInv, Life, Feeds
<1>2. CASE Next
  <2>1. TypeOK'
    BY <1>2, TypeStep DEF Life, Feeds
  <2>2. ASSUME NEW c \in Conns, NEW id \in SubIds, NEW next \in {"unsub", "dropping"},
               conn[c].at \in {"open", "closing"}, conn[c].at = "open" => pub[c].at = "idle",
               fw[id].at # "none", Remove(c, id, next)
        PROVE  Life' /\ Feeds'
    <3>1. Life'
      BY <2>2, LifeRemove
    <3>2. UNCHANGED <<sub, chan, fw, pub, events, aborted, dropped, got>> /\ hub' \subseteq hub
      BY <2>2 DEF Remove
    <3>3. Busy
      BY <2>2, RemoveConn DEF Busy, Only
    <3>4. \A s \in SubIds : Handed(s)' = Handed(s)
      BY <3>2, HandedSame
    <3>5. Feeds'
      BY <1>0, <3>2, <3>3, <3>4, FeedsKept DEF HandedOK
    <3> QED BY <3>1, <3>5
  <2>3. ASSUME NEW c \in Conns, NEW next \in {"open", "closing"},
               conn[c].at \in {"unsub", "dropping"}, CloseChannel(c, next)
        PROVE  Life' /\ Feeds'
    <3>1. Life'
      BY <2>3, LifeClose
    <3>2. UNCHANGED <<hub, sub, chan, fw, pub, events, aborted, dropped, got>>
      BY <2>3 DEF CloseChannel
    <3>3. Busy
      BY <2>3, CloseConn DEF Busy, Only
    <3>4. \A s \in SubIds : Handed(s)' = Handed(s)
      BY <3>2, HandedSame
    <3>5. Feeds'
      BY <1>0, <3>2, <3>3, <3>4, FeedsKept DEF HandedOK
    <3> QED BY <3>1, <3>5
  <2>4. ASSUME NEW c \in Conns, ReadFails(c) \/ Cancel(c)
        PROVE  Life' /\ Feeds'
    <3>1. PICK next \in {"closing", "closed"} :
             /\ conn[c].at \in {"open", "closing"} /\ (conn[c].at = "open" => pub[c].at = "idle")
             /\ next = "closed" => conn[c].subs = {}
             /\ conn' = [conn EXCEPT ![c].at = next]
      BY <2>4 DEF ReadFails, Cancel, Serving
    <3>2. UNCHANGED <<hub, sub, chan, closes, fw, pub, events, aborted, dropped, got>>
      BY <2>4 DEF ReadFails, Cancel
    <3>3. Life'
      BY <3>1, <3>2, LifeMove
    <3>4. Busy
      BY <3>1, MoveConn DEF Busy, Only
    <3>5. \A s \in SubIds : Handed(s)' = Handed(s)
      BY <3>2, HandedSame
    <3>6. Feeds'
      BY <1>0, <3>2, <3>4, <3>5, FeedsKept DEF HandedOK
    <3> QED BY <3>3, <3>6
  <2>5. ASSUME NEW c \in Conns, ConnStep(c)
        PROVE  Life' /\ Feeds'
    <3>1. CASE ReadFails(c) \/ Cancel(c)
      BY <2>4, <3>1
    <3>2. CASE SubscribeReply(c)
      BY <2>1, <3>2, LifeReply, FeedsReply
    <3>3. CASE UnsubscribeReply(c) \/ Dropped(c)
      BY <2>3, <3>3 DEF UnsubscribeReply, Dropped
    <3>4. ASSUME NEW id \in SubIds, NEW col \in Collections, Subscribe(c, id, col)
          PROVE  Life' /\ Feeds'
      BY <3>4, LifeSubscribe, FeedsSubscribe
    <3>5. ASSUME NEW id \in SubIds, Unsubscribe(c, id)
          PROVE  Life' /\ Feeds'
      BY <2>2, <3>5 DEF Unsubscribe, Serving
    <3>6. ASSUME NEW id \in SubIds, DropOne(c, id)
          PROVE  Life' /\ Feeds'
      <4>1. conn[c].at = "closing" /\ id \in conn[c].subs /\ Remove(c, id, "dropping")
        BY <3>6 DEF DropOne
      <4>2. sub[id] # Unused /\ sub[id].owner = c
        BY <4>1 DEF Life, ConnOK
      <4>3. fw[id].at # "none"
        BY <4>1, <4>2 DEF Life, IdOK
      <4> QED BY <2>2, <4>1, <4>3
    <3> QED BY <2>5, <3>1, <3>2, <3>3, <3>4, <3>5, <3>6 DEF ConnStep
  <2>6. ASSUME NEW a \in Writers, PublishStep(a)
        PROVE  Life' /\ Feeds'
    <3>0. a \in Actors
      BY DEF Actors
    <3>1. ASSUME NEW col \in Collections, Commit(a, col)
          PROVE  Life' /\ Feeds'
      <4>1. Life'
        BY <3>1, LifeForward DEF Commit, Life, IdOK
      <4> QED BY <3>1, <4>1, FeedsCommit
    <3>2. CASE Snapshot(a)
      <4>1. Life'
        BY <3>2, LifeForward DEF Snapshot, Life, IdOK
      <4> QED BY <3>2, <4>1, FeedsSnapshot
    <3>3. ASSUME NEW id \in SubIds, Send(a, id)
          PROVE  Life' /\ Feeds'
      <4>1. sub[id] # Unused
        BY <3>0, <3>3 DEF Feeds, PubOK, Send
      <4>2. UNCHANGED <<hub, sub, closes, conn, fw>> /\ \A s \in SubIds : s # id => chan'[s] = chan[s]
        BY <3>3 DEF Send, TypeOK
      <4>3. Life'
        BY <4>1, <4>2, LifeForward DEF Life, IdOK
      <4> QED BY <3>3, <4>3, FeedsSend
    <3>4. ASSUME NEW id \in SubIds, SendPanics(a, id)
          PROVE  Life' /\ Feeds'
      <4>1. UNCHANGED <<hub, sub, chan, closes, fw>>
        BY <3>4 DEF SendPanics
      <4>2. CASE a \in Conns
        <5>1. conn[a].at = "open"
          BY <3>0, <3>4, <4>2 DEF Feeds, PubOK, SendPanics
        <5>2. conn' = [conn EXCEPT ![a].at = "closing"]
          BY <3>4, <4>2 DEF SendPanics
        <5>3. Life'
          BY <4>1, <4>2, <5>1, <5>2, LifeMove
        <5> QED BY <3>4, <5>3, FeedsPanic
      <4>3. CASE a \notin Conns
        <5>1. Life'
          BY <3>4, <4>1, <4>3, LifeForward DEF SendPanics, Life, IdOK
        <5> QED BY <3>4, <5>1, FeedsPanic
      <4> QED BY <4>2, <4>3
    <3> QED BY <2>6, <3>1, <3>2, <3>3, <3>4 DEF PublishStep
  <2>7. ASSUME NEW id \in SubIds, ForwardStep(id)
        PROVE  Life' /\ Feeds'
    <3>1. CASE Take(id)
      <4>1. UNCHANGED <<hub, sub, closes, conn, pub, events, aborted, dropped, got>>
        BY <3>1 DEF Take
      <4>2. /\ fw[id].at = "select" /\ fw'[id].at = "writing" /\ chan[id] # <<>>
            /\ \A s \in SubIds : s # id => fw'[s] = fw[s] /\ chan'[s] = chan[s]
        BY <3>1 DEF Take, TypeOK
      <4>3. \A s \in SubIds : Handed(s)' = Handed(s)
        BY <3>1, <4>1, <4>2, HandedTake, HandedSame
      <4>4. Life'
        BY <4>1, <4>2, LifeForward DEF Life, IdOK
      <4>5. Feeds'
        BY <1>0, <4>1, <4>2, <4>3, FeedsKept DEF Busy, HandedOK
      <4> QED BY <4>4, <4>5
    <3>2. CASE Write(id)
      <4>1. UNCHANGED <<hub, sub, chan, closes, conn, pub, events, aborted, dropped>>
        BY <3>2 DEF Write
      <4>2. /\ fw[id].at = "writing" /\ fw'[id].at = "select"
            /\ \A s \in SubIds : s # id => fw'[s] = fw[s] /\ got'[s] = got[s]
        BY <3>2 DEF Write, TypeOK
      <4>3. \A s \in SubIds : Handed(s)' = Handed(s)
        BY <3>2, <4>1, <4>2, HandedWrite, HandedSame
      <4>4. Life'
        BY <4>1, <4>2, LifeForward DEF Life, IdOK
      <4>5. got[id] # <<>> /\ got'[id] # <<>> /\ Head(got'[id]) = Reply
        <5>1. got[id] # <<>> /\ Head(got[id]) = Reply
          BY <1>0, <4>2 DEF HandedOK
        <5>2. got'[id] = Append(got[id], fw[id].n) /\ got[id] \in Seq(Nat) /\ fw[id].n \in Nat
          BY <3>2 DEF Write, TypeOK
        <5> QED BY <5>1, <5>2
      <4>6. Feeds'
        BY <1>0, <4>1, <4>2, <4>3, <4>5, FeedsKept DEF Busy, HandedOK
      <4> QED BY <4>4, <4>6
    <3>3. CASE End(id)
      <4>1. id \notin hub
        BY <3>3, NotRegistered
      <4>2. UNCHANGED <<hub, sub, closes, conn>> /\ fw[id].at = "select"
        BY <3>3 DEF End
      <4>3. fw'[id].at = "ended" /\ \A s \in SubIds : s # id => fw'[s] = fw[s]
        BY <3>3, MoveFw DEF End
      <4>4. chan'[id] = <<>> /\ \A s \in SubIds : s # id => chan'[s] = chan[s]
        BY <3>3 DEF End, TypeOK
      <4>5. Life'
        BY <4>1, <4>2, <4>3, <4>4, LifeForward DEF Life, IdOK
      <4> QED BY <3>3, <4>1, <4>5, FeedsEnd
    <3> QED BY <2>7, <3>1, <3>2, <3>3 DEF ForwardStep
  <2>8. Life' /\ Feeds'
    BY <1>2, <2>5, <2>6, <2>7 DEF Next
  <2> QED BY <2>1, <2>8 DEF HubInv, Life, Feeds
<1> QED BY <1>1, <1>2

(* The hub keeps its inductive invariant: an id taken out of the map is    *)
(* closed by the one connection that took it, and a Publish holds the      *)
(* latest event of its writer (Hub.Subscribe, Unsubscribe and Publish).    *)
THEOREM HubInvariant == Spec => []HubInv
BY HubInit, HubStep, PTL DEF Spec

(* Every reachable state of the hub has its type; no channel holds more    *)
(* than its capacity (Publish's send that does not block).                 *)
THEOREM HubTypeCorrect == Spec => []TypeOK
<1>1. HubInv => TypeOK
  BY DEF HubInv
<1> QED BY <1>1, HubInvariant, PTL

(* No channel is closed twice, and none in the map is closed, for any      *)
(* number of connections that unsubscribe one id at once                   *)
(* (Hub.Unsubscribe and the deferred calls of handleWS).                   *)
THEOREM HubClosedOnce == Spec => []ClosedOnce
<1>1. HubInv => ClosedOnce
  <2> SUFFICES ASSUME HubInv, NEW id \in SubIds
               PROVE  closes[id] <= (IF id \in hub THEN 0 ELSE 1)
    BY DEF ClosedOnce
  <2>1. IdOK(id) /\ closes[id] \in Nat
    BY DEF HubInv, TypeOK
  <2> QED BY <2>1 DEF IdOK
<1> QED BY <1>1, HubInvariant, PTL

(* A subscription in the map belongs to a connection that has not ended    *)
(* and that will remove it, and no connection exceeds WSMaxSubscriptions   *)
(* (handleWS, dispatchWS, the recovered panic of Publish).                 *)
THEOREM HubNothingLeaks == Spec => []NothingLeaks
<1>1. HubInv => NothingLeaks
  <2> SUFFICES ASSUME HubInv PROVE NothingLeaks
    OBVIOUS
  <2>1. hub \subseteq SubIds /\ \A id \in SubIds : IdOK(id)
    BY DEF HubInv, TypeOK
  <2>2. \A id \in hub : sub[id].owner \in Conns /\ id \in conn[sub[id].owner].subs
    BY <2>1, OwnerType DEF IdOK, HubInv
  <2>3. ASSUME NEW c \in Conns
        PROVE  /\ Owned(c) \subseteq conn[c].subs
               /\ conn[c].at = "closed" => Owned(c) = {}
               /\ Cardinality(Owned(c)) <= MaxSubs
    <3>1. ConnOK(c) /\ conn[c].subs \in SUBSET SubIds
      BY DEF HubInv, TypeOK
    <3>2. Owned(c) \subseteq conn[c].subs
      BY <2>2 DEF Owned
    <3>3. Cardinality(Owned(c)) <= MaxSubs
      BY <3>1, <3>2, FewerSubs DEF ConnOK
    <3> QED BY <3>1, <3>2, <3>3 DEF ConnOK
  <2> QED BY <2>2, <2>3 DEF NothingLeaks
<1> QED BY <1>1, HubInvariant, PTL

(* The forwarding goroutine of an id out of the map finds its channel      *)
(* closed, or the connection that took the id out has yet to close it      *)
(* (Hub.Unsubscribe, the goroutine of dispatchWS).                         *)
THEOREM HubForwarderFreed == Spec => []ForwarderFreed
<1>1. HubInv => ForwarderFreed
  <2> SUFFICES ASSUME HubInv, NEW id \in SubIds, fw[id].at \in {"select", "writing"}, id \notin hub
               PROVE  Closed(id) \/ \E c \in Conns : Closer(c, id)
    BY DEF ForwarderFreed, Closer
  <2>1. IdOK(id) /\ closes[id] \in Nat
    BY DEF HubInv, TypeOK
  <2> QED BY <2>1 DEF IdOK, Closed
<1> QED BY <1>1, HubInvariant, PTL

(* A subscriber gets the answer first, then events of its collection, none *)
(* twice and each writer's in the order of its commits, for any number of  *)
(* publishers (Publish, the goroutine of dispatchWS).                      *)
THEOREM HubInOrder == Spec => []InOrder
<1>1. HubInv => InOrder
  <2> SUFFICES ASSUME HubInv, NEW id \in SubIds
               PROVE  /\ got[id] # <<>> => Head(got[id]) = Reply
                      /\ \A i \in DOMAIN Handed(id) :
                            Handed(id)[i] # Reply => events[Handed(id)[i]].col = sub[id].col
                      /\ \A i, j \in DOMAIN Handed(id) :
                            i < j /\ Handed(id)[i] # Reply =>
                               /\ Handed(id)[j] # Reply
                               /\ events[Handed(id)[i]].by = events[Handed(id)[j]].by =>
                                     Handed(id)[i] < Handed(id)[j]
    BY DEF InOrder
  <2>1. HandedOK(id) /\ DOMAIN Handed(id) = 1..Len(Handed(id)) /\ Len(Handed(id)) \in Nat
    BY HandedType DEF HubInv
  <2>2. \A i, j \in DOMAIN Handed(id) : i < j => Handed(id)[j] # Reply
    BY <2>1 DEF HandedOK
  <2> QED BY <2>1, <2>2 DEF HandedOK
<1> QED BY <1>1, HubInvariant, PTL

(* An event committed after a subscription was made, whose Publish came to *)
(* its end, reached it, or was lost to its full channel (Publish).         *)
THEOREM HubComplete == Spec => []Complete
<1>1. HubInv => Complete
  <2> SUFFICES ASSUME HubInv, NEW id \in hub, NEW n \in (sub[id].since + 1)..Len(events),
                      events[n].col = sub[id].col, n \notin aborted, \A a \in Actors : pub[a].n # n
               PROVE  Reached(id, n)
    BY DEF Complete, Reached
  <2>1. Past(id, n)
    BY DEF Past
  <2> QED BY <2>1 DEF HubInv, PastReached
<1> QED BY <1>1, HubInvariant, PTL

-----------------------------------------------------------------------------
(* The hub implements the feeds of module Feed *)

FeedAt(id) == IF Ended(id) THEN <<>> ELSE EventsIn(Handed(id))
ShownAt(id) == IF Ended(id) THEN 0 ELSE Len(EventsIn(got[id]))

Topics == [id \in SubIds |-> sub[id].col]
Stages == [id \in SubIds |-> StageOf(id)]
FeedsOf == [id \in SubIds |-> FeedAt(id)]
ShownOf == [id \in SubIds |-> ShownAt(id)]

(* The steps of Feed under the refinement mapping. *)
LEMMA MapStutter ==
    ASSUME events' = events, Topics' = Topics, Stages' = Stages, FeedsOf' = FeedsOf,
           ShownOf' = ShownOf
    PROVE  UNCHANGED F!feedVars
BY DEF F!feedVars, Topics, Stages, FeedsOf, ShownOf, FeedAt, ShownAt

LEMMA MapHappen ==
    ASSUME NEW a \in Writers, NEW col \in Collections,
           events' = Append(events, [by |-> a, col |-> col]),
           Topics' = Topics, Stages' = Stages, FeedsOf' = FeedsOf, ShownOf' = ShownOf
    PROVE  F!Next
<1>1. F!Happen(a, col)
  BY DEF F!Happen, Topics, Stages, FeedsOf, ShownOf, FeedAt, ShownAt
<1> QED BY <1>1 DEF F!Next

LEMMA MapOpen ==
    ASSUME NEW id \in SubIds, NEW col \in Collections, Stages[id] = "none", events' = events,
           Stages' = [Stages EXCEPT ![id] = "open"], Topics' = [Topics EXCEPT ![id] = col],
           FeedsOf' = FeedsOf, ShownOf' = ShownOf
    PROVE  F!Next
<1>1. F!Open(id, col)
  BY DEF F!Open, Topics, Stages, FeedsOf, ShownOf, FeedAt, ShownAt
<1> QED BY <1>1 DEF F!Next

LEMMA MapDeliver ==
    ASSUME NEW id \in SubIds, NEW n \in DOMAIN events, Stages[id] = "open", events[n].col = Topics[id],
           \A i \in DOMAIN FeedsOf[id] : events[FeedsOf[id][i]].by = events[n].by => FeedsOf[id][i] < n,
           events' = events, Topics' = Topics, Stages' = Stages, ShownOf' = ShownOf,
           FeedsOf' = [FeedsOf EXCEPT ![id] = Append(FeedsOf[id], n)]
    PROVE  F!Next
<1>1. F!Deliver(id, n)
  BY DEF F!Deliver, Topics, Stages, FeedsOf, ShownOf, FeedAt, ShownAt
<1> QED BY <1>1 DEF F!Next

LEMMA MapShow ==
    ASSUME NEW id \in SubIds, ShownOf[id] < Len(FeedsOf[id]),
           events' = events, Topics' = Topics, Stages' = Stages, FeedsOf' = FeedsOf,
           ShownOf' = [ShownOf EXCEPT ![id] = ShownOf[id] + 1]
    PROVE  F!Next
<1>1. F!Show(id)
  BY DEF F!Show, Topics, Stages, FeedsOf, ShownOf, FeedAt, ShownAt
<1> QED BY <1>1 DEF F!Next

LEMMA MapCancel ==
    ASSUME NEW id \in SubIds, Stages[id] = "open",
           events' = events, Topics' = Topics, FeedsOf' = FeedsOf, ShownOf' = ShownOf,
           Stages' = [Stages EXCEPT ![id] = "cancelled"]
    PROVE  F!Next
<1>1. F!Cancel(id)
  BY DEF F!Cancel, Topics, Stages, FeedsOf, ShownOf, FeedAt, ShownAt
<1> QED BY <1>1 DEF F!Next

LEMMA MapEnd ==
    ASSUME NEW id \in SubIds, Stages[id] \in {"open", "cancelled"},
           events' = events, Topics' = Topics, Stages' = [Stages EXCEPT ![id] = "ended"],
           FeedsOf' = [FeedsOf EXCEPT ![id] = <<>>], ShownOf' = [ShownOf EXCEPT ![id] = 0]
    PROVE  F!Next
<1>1. F!End(id)
  BY DEF F!End, Topics, Stages, FeedsOf, ShownOf, FeedAt, ShownAt
<1> QED BY <1>1 DEF F!Next

LEMMA FirstOf ==
    ASSUME NEW g \in Seq(Nat), NEW t \in Seq(Nat), g # <<>>
    PROVE  g \o t \in Seq(Nat) /\ g \o t # <<>> /\ Head(g \o t) = Head(g)
<1>1. /\ g \o t \in Seq(Nat) /\ Len(g \o t) = Len(g) + Len(t)
      /\ \A i \in 1..(Len(g) + Len(t)) : (g \o t)[i] = IF i <= Len(g) THEN g[i] ELSE t[i - Len(g)]
  BY ConcatProperties
<1>2. Len(g) \in Nat /\ 1 <= Len(g) /\ Len(t) \in Nat
  BY LenProperties, EmptySeq
<1>3. (g \o t)[1] = g[1] /\ Len(g \o t) >= 1
  BY <1>1, <1>2
<1> QED BY <1>1, <1>2, <1>3

(* The answer, when there is one, is the first of what was handed. *)
LEMMA EventsOf ==
    ASSUME TypeOK, NEW id \in SubIds, HandedOK(id)
    PROVE  /\ got[id] = <<>> => EventsIn(Handed(id)) = Handed(id) /\ EventsIn(got[id]) = <<>>
           /\ got[id] # <<>> => /\ Handed(id) # <<>>
                                /\ EventsIn(Handed(id)) = Tail(Handed(id))
                                /\ EventsIn(got[id]) = Tail(got[id])
<1>1. /\ Handed(id) \in Seq(Nat) /\ got[id] \in Seq(Nat) /\ Len(got[id]) \in Nat
      /\ DOMAIN Handed(id) = 1..Len(Handed(id)) /\ Len(Handed(id)) \in Nat
  BY HandedType, LenProperties DEF TypeOK
<1>2. ASSUME got[id] = <<>>
      PROVE  EventsIn(Handed(id)) = Handed(id)
  <2>1. Handed(id) # <<>> => 1 \in DOMAIN Handed(id) /\ Head(Handed(id)) = Handed(id)[1]
    BY <1>1, EmptySeq
  <2>2. Handed(id) # <<>> => Handed(id)[1] # Reply
    BY <1>2, <2>1 DEF HandedOK
  <2> QED BY <2>1, <2>2 DEF EventsIn
<1>3. ASSUME got[id] # <<>>
      PROVE  Handed(id) # <<>> /\ Head(Handed(id)) = Reply
  <2> DEFINE m == (IF fw[id].at = "writing" THEN <<fw[id].n>> ELSE <<>>)
  <2>1. m \in Seq(Nat) /\ chan[id] \in Seq(Nat)
    BY DEF TypeOK
  <2>2. Handed(id) = (got[id] \o m) \o chan[id]
    BY DEF Handed
  <2> HIDE DEF m
  <2>3. got[id] \o m \in Seq(Nat) /\ got[id] \o m # <<>> /\ Head(got[id] \o m) = Head(got[id])
    BY <1>1, <1>3, <2>1, FirstOf
  <2>4. (got[id] \o m) \o chan[id] # <<>> /\ Head((got[id] \o m) \o chan[id]) = Head(got[id] \o m)
    BY <2>1, <2>3, FirstOf
  <2> QED BY <1>3, <2>2, <2>3, <2>4 DEF HandedOK
<1> QED BY <1>2, <1>3 DEF EventsIn, HandedOK

(* The same of the next state. *)
AnswerFirst(id) ==
    /\ got[id] = <<>> => EventsIn(Handed(id)) = Handed(id)
    /\ got[id] # <<>> => /\ EventsIn(Handed(id)) = Tail(Handed(id))
                         /\ EventsIn(got[id]) = Tail(got[id])

LEMMA EventsOfNext ==
    ASSUME NEW id \in SubIds
    PROVE  (TypeOK /\ HandedOK(id) => AnswerFirst(id))'
<1>1. TypeOK /\ HandedOK(id) => AnswerFirst(id)
  BY EventsOf DEF AnswerFirst
<1> QED BY <1>1, PTL

LEMMA TailAppend ==
    ASSUME NEW h \in Seq(Nat), NEW n \in Nat, h # <<>>
    PROVE  Tail(Append(h, n)) = Append(Tail(h), n)
<1>0. Append(h, n) \in Seq(Nat)
  OBVIOUS
<1>1. PICK g \in Seq(Nat) : g = Append(h, n)
  BY <1>0
<1>2. /\ Len(h) \in Nat /\ 1 <= Len(h) /\ Len(g) = Len(h) + 1 /\ g # <<>>
      /\ g[Len(h) + 1] = n /\ \A i \in 1..Len(h) : g[i] = h[i]
  BY <1>1, LenProperties, EmptySeq
<1>3. PICK t \in Seq(Nat) : t = Tail(h) /\ Len(t) = Len(h) - 1 /\ \A i \in 1..Len(t) : t[i] = h[i + 1]
  BY HeadTailProperties
<1>4. PICK u \in Seq(Nat) : u = Tail(g) /\ Len(u) = Len(g) - 1 /\ \A i \in 1..Len(u) : u[i] = g[i + 1]
  <2>1. g # <<>>
    BY <1>2
  <2>2. Tail(g) \in Seq(Nat) /\ Len(Tail(g)) = Len(g) - 1 /\ \A i \in 1..Len(Tail(g)) : Tail(g)[i] = g[i + 1]
    BY <2>1, HeadTailProperties
  <2> QED BY <2>2
<1>5. /\ Append(t, n) \in Seq(Nat) /\ Len(Append(t, n)) = Len(t) + 1 /\ Len(t) \in Nat
      /\ Append(t, n)[Len(t) + 1] = n /\ \A i \in 1..Len(t) : Append(t, n)[i] = t[i]
  BY LenProperties
<1>6. Len(u) = Len(Append(t, n)) /\ Len(u) = Len(h) /\ Len(t) = Len(h) - 1
  BY <1>2, <1>3, <1>4, <1>5
<1>7. ASSUME NEW i \in 1..Len(u) PROVE u[i] = Append(t, n)[i]
  <2>1. CASE i = Len(h)
    BY <1>2, <1>3, <1>4, <1>5, <2>1
  <2>2. CASE i # Len(h)
    <3>1. i \in 1..Len(t) /\ i + 1 \in 1..Len(h)
      BY <1>2, <1>6, <2>2
    <3> QED BY <1>2, <1>3, <1>4, <1>5, <3>1
  <2> QED BY <2>1, <2>2
<1>8. u = Append(t, n)
  BY <1>5, <1>6, <1>7, SeqEqual
<1> QED BY <1>1, <1>3, <1>4, <1>8

(* A step that changes one subscription changes one feed. *)
LEMMA MapSame ==
    ASSUME UNCHANGED <<sub, closes>>,
           \A s \in SubIds : /\ Handed(s)' = Handed(s) /\ EventsIn(got[s])' = EventsIn(got[s])
                             /\ Ended(s)' <=> Ended(s)
    PROVE  Topics' = Topics /\ Stages' = Stages /\ FeedsOf' = FeedsOf /\ ShownOf' = ShownOf
<1>1. \A s \in SubIds : FeedAt(s)' = FeedAt(s) /\ ShownAt(s)' = ShownAt(s) /\ StageOf(s)' = StageOf(s)
  <2> SUFFICES ASSUME NEW s \in SubIds
               PROVE  FeedAt(s)' = FeedAt(s) /\ ShownAt(s)' = ShownAt(s) /\ StageOf(s)' = StageOf(s)
    OBVIOUS
  <2>1. FeedAt(s)' = FeedAt(s)
    BY DEF FeedAt, EventsIn, Reply
  <2>2. ShownAt(s)' = ShownAt(s)
    BY DEF ShownAt
  <2>3. StageOf(s)' = StageOf(s)
    BY DEF StageOf, Closed, Unused
  <2> QED BY <2>1, <2>2, <2>3
<1> QED BY <1>1 DEF Topics, Stages, FeedsOf, ShownOf

LEMMA MapQuiet ==
    ASSUME TypeOK, UNCHANGED <<sub, closes, got, fw, events>>,
           \A s \in SubIds : Handed(s)' = Handed(s)
    PROVE  UNCHANGED F!feedVars
<1>1. \A s \in SubIds : EventsIn(got[s])' = EventsIn(got[s]) /\ (Ended(s)' <=> Ended(s))
  BY DEF EventsIn, Reply, Ended
<1> QED BY <1>1, MapSame, MapStutter

LEMMA MapCommit ==
    ASSUME TypeOK, NEW a \in Writers, NEW col \in Collections, Commit(a, col)
    PROVE  F!Next
<1>1. UNCHANGED <<sub, closes, got, fw, chan>> /\ events' = Append(events, [by |-> a, col |-> col])
  BY DEF Commit
<1>2. \A s \in SubIds : Handed(s)' = Handed(s)
  BY <1>1, HandedSame
<1>3. \A s \in SubIds : EventsIn(got[s])' = EventsIn(got[s]) /\ (Ended(s)' <=> Ended(s))
  BY <1>1 DEF EventsIn, Reply, Ended
<1> QED BY <1>1, <1>2, <1>3, MapSame, MapHappen

LEMMA MapSubscribe ==
    ASSUME TypeOK, Life, NEW c \in Conns, NEW id \in SubIds, NEW col \in Collections,
           Subscribe(c, id, col)
    PROVE  F!Next
<1>1. UNCHANGED <<closes, got, fw, chan, events>> /\ sub[id] = Unused
  BY DEF Subscribe
<1>2. \A s \in SubIds : Handed(s)' = Handed(s)
  BY <1>1, HandedSame
<1>3. \A s \in SubIds : EventsIn(got[s])' = EventsIn(got[s]) /\ (Ended(s)' <=> Ended(s))
  BY <1>1 DEF EventsIn, Reply, Ended
<1>4. /\ sub'[id] # Unused /\ sub'[id].col = col
      /\ \A s \in SubIds : s # id => sub'[s] = sub[s]
  BY HubAssumption DEF Subscribe, TypeOK, Unused
<1>5. closes[id] = 0 /\ fw[id].at = "none"
  BY <1>1 DEF Life, IdOK
<1>6. \A s \in SubIds : FeedAt(s)' = FeedAt(s) /\ ShownAt(s)' = ShownAt(s)
  BY <1>2, <1>3 DEF FeedAt, ShownAt, EventsIn, Reply
<1>7. StageOf(id) = "none" /\ StageOf(id)' = "open"
  BY <1>1, <1>4, <1>5 DEF StageOf, Closed, Ended, Unused
<1>8. \A s \in SubIds : s # id => StageOf(s)' = StageOf(s)
  BY <1>1, <1>3, <1>4 DEF StageOf, Closed, Unused
<1>9. FeedsOf' = FeedsOf /\ ShownOf' = ShownOf
  BY <1>6 DEF FeedsOf, ShownOf
<1>10. Stages[id] = "none" /\ Stages' = [Stages EXCEPT ![id] = "open"]
  BY <1>7, <1>8 DEF Stages
<1>11. Topics' = [Topics EXCEPT ![id] = col]
  BY <1>4 DEF Topics
<1> QED BY <1>1, <1>9, <1>10, <1>11, MapOpen

LEMMA MapReply ==
    ASSUME HubInv, HubInv', NEW c \in Conns, SubscribeReply(c)
    PROVE  UNCHANGED F!feedVars
<1>1. UNCHANGED <<sub, chan, closes, events>> /\ conn[c].at = "reply"
  BY DEF SubscribeReply
<1>2. PICK id \in SubIds : id = conn[c].id /\ fw[id].at = "none" /\ got[id] = <<>>
  BY <1>1 DEF HubInv, ConnOK, HandedOK
<1>3. TypeOK /\ TypeOK' /\ \A s \in SubIds : HandedOK(s) /\ HandedOK(s)'
  BY DEF HubInv
<1>4. fw'[id].at = "select" /\ \A s \in SubIds : s # id => fw'[s] = fw[s]
  BY <1>2, <1>3, MoveFw DEF SubscribeReply
<1>5. got'[id] = <<Reply>> /\ \A s \in SubIds : s # id => got'[s] = got[s]
  <2>1. got' = [got EXCEPT ![id] = Append(got[id], Reply)]
    BY <1>2 DEF SubscribeReply
  <2>2. Append(<<>>, Reply) = <<Reply>>
    OBVIOUS
  <2> QED BY <1>2, <1>3, <2>1, <2>2 DEF TypeOK
<1>6. \A s \in SubIds : s # id => Handed(s)' = Handed(s)
  BY <1>1, <1>4, <1>5, HandedSame
<1>7. EventsIn(Handed(id)) = Handed(id) /\ EventsIn(got[id]) = <<>>
  BY <1>2, <1>3, EventsOf
<1>8. PICK h \in Seq(Nat) : /\ h = Handed(id)' /\ Len(h) = Len(Handed(id)) + 1 /\ h[1] = Reply
                            /\ \A i \in DOMAIN Handed(id) : h[i + 1] = Handed(id)[i]
  BY <1>1, <1>2, <1>3, <1>4, <1>5, HandedReply
<1>9. Handed(id) \in Seq(Nat) /\ Len(Handed(id)) \in Nat /\ DOMAIN Handed(id) = 1..Len(Handed(id))
  BY <1>3, HandedType
<1>10. EventsIn(h) = Handed(id)
  <2>1. h # <<>> /\ Head(h) = Reply
    BY <1>8, <1>9
  <2>2. Tail(h) \in Seq(Nat) /\ Len(Tail(h)) = Len(h) - 1 /\ \A i \in 1..Len(Tail(h)) : Tail(h)[i] = h[i + 1]
    BY <2>1, HeadTailProperties
  <2>3. Len(Tail(h)) = Len(Handed(id)) /\ \A i \in 1..Len(Tail(h)) : Tail(h)[i] = Handed(id)[i]
    BY <1>8, <1>9, <2>2
  <2>4. Tail(h) = Handed(id)
    BY <1>9, <2>2, <2>3, SeqEqual
  <2> QED BY <2>1, <2>4 DEF EventsIn
<1>11. EventsIn(<<Reply>>) = <<>>
  BY DEF EventsIn
<1>12. ASSUME NEW s \in SubIds
       PROVE  FeedAt(s)' = FeedAt(s) /\ ShownAt(s)' = ShownAt(s) /\ StageOf(s)' = StageOf(s)
  <2>1. CASE s = id
    <3>1. ~Ended(id) /\ ~Ended(id)'
      BY <1>2, <1>4 DEF Ended
    <3>2. FeedAt(id)' = EventsIn(h) /\ FeedAt(id) = EventsIn(Handed(id))
      BY <1>8, <3>1 DEF FeedAt, EventsIn, Reply
    <3>3. ShownAt(id)' = Len(EventsIn(<<Reply>>)) /\ ShownAt(id) = Len(EventsIn(got[id]))
      BY <1>5, <3>1 DEF ShownAt, EventsIn, Reply
    <3>4. StageOf(id)' = StageOf(id)
      BY <1>1, <3>1 DEF StageOf, Closed, Unused
    <3> QED BY <1>7, <1>10, <1>11, <2>1, <3>2, <3>3, <3>4
  <2>2. CASE s # id
    <3>1. /\ Handed(s)' = Handed(s) /\ EventsIn(got[s])' = EventsIn(got[s])
          /\ Ended(s)' <=> Ended(s)
      BY <1>4, <1>5, <1>6, <2>2 DEF EventsIn, Reply, Ended
    <3>2. FeedAt(s)' = FeedAt(s)
      BY <3>1 DEF FeedAt, EventsIn, Reply
    <3>3. ShownAt(s)' = ShownAt(s)
      BY <3>1 DEF ShownAt
    <3>4. StageOf(s)' = StageOf(s)
      BY <1>1, <3>1 DEF StageOf, Closed, Unused
    <3> QED BY <3>2, <3>3, <3>4
  <2> QED BY <2>1, <2>2
<1>13. Topics' = Topics /\ Stages' = Stages /\ FeedsOf' = FeedsOf /\ ShownOf' = ShownOf
  BY <1>1, <1>12 DEF Topics, Stages, FeedsOf, ShownOf
<1> QED BY <1>1, <1>13, MapStutter

LEMMA MapClose ==
    ASSUME HubInv, NEW c \in Conns, NEW next, conn[c].at \in {"unsub", "dropping"},
           CloseChannel(c, next)
    PROVE  F!Next \/ UNCHANGED F!feedVars
<1>1. UNCHANGED <<sub, chan, fw, got, events>> /\ TypeOK
  BY DEF CloseChannel, HubInv
<1>2. \A s \in SubIds : Handed(s)' = Handed(s)
  BY <1>1, HandedSame
<1>3. \A s \in SubIds : EventsIn(got[s])' = EventsIn(got[s]) /\ (Ended(s)' <=> Ended(s))
  BY <1>1 DEF EventsIn, Reply, Ended
<1>4. PICK id \in SubIds : id = conn[c].id /\ fw[id].at # "none"
  BY DEF HubInv, ConnOK
<1>5. CASE ~conn[c].found
  <2>1. closes' = closes
    BY <1>5 DEF CloseChannel
  <2> QED BY <1>1, <1>2, <1>3, <2>1, MapQuiet
<1>6. CASE conn[c].found
  <2>1. Closer(c, id) /\ IdOK(id)
    BY <1>4, <1>6 DEF Closer, HubInv
  <2>2. closes[id] = 0 /\ sub[id] # Unused
    BY <1>4, <2>1 DEF IdOK
  <2>3. closes'[id] = 1 /\ \A s \in SubIds : s # id => closes'[s] = closes[s]
    BY <1>1, <1>4, <1>6, <2>2 DEF CloseChannel, TypeOK
  <2>4. \A s \in SubIds : FeedAt(s)' = FeedAt(s) /\ ShownAt(s)' = ShownAt(s)
    BY <1>2, <1>3 DEF FeedAt, ShownAt, EventsIn, Reply
  <2>5. \A s \in SubIds : s # id => StageOf(s)' = StageOf(s)
    BY <1>1, <1>3, <2>3 DEF StageOf, Closed, Unused
  <2>6. FeedsOf' = FeedsOf /\ ShownOf' = ShownOf /\ Topics' = Topics
    BY <1>1, <2>4 DEF FeedsOf, ShownOf, Topics
  <2>7. CASE Ended(id)
    <3>1. StageOf(id)' = StageOf(id)
      BY <1>3, <2>7 DEF StageOf
    <3>2. Stages' = Stages
      BY <2>5, <3>1 DEF Stages
    <3> QED BY <1>1, <2>6, <3>2, MapStutter
  <2>8. CASE ~Ended(id)
    <3>1. StageOf(id) = "open" /\ StageOf(id)' = "cancelled"
      BY <1>3, <2>2, <2>3, <2>8 DEF StageOf, Closed
    <3>2. Stages[id] = "open" /\ Stages' = [Stages EXCEPT ![id] = "cancelled"]
      BY <2>5, <3>1 DEF Stages
    <3> QED BY <1>1, <2>6, <3>2, MapCancel
  <2> QED BY <2>7, <2>8
<1> QED BY <1>5, <1>6

LEMMA MapSend ==
    ASSUME HubInv, HubInv', NEW a \in Writers, NEW id \in SubIds, Send(a, id)
    PROVE  F!Next \/ UNCHANGED F!feedVars
<1>1. /\ UNCHANGED <<sub, closes, fw, got, events>> /\ ~Closed(id)
      /\ pub[a].at = "sending" /\ id \in pub[a].targets
  BY DEF Send
<1>2. TypeOK /\ HandedOK(id) /\ HandedOK(id)' /\ TypeOK' /\ a \in Actors
  BY DEF HubInv, Actors
<1>3. /\ pub[a].n \in 1..Len(events) /\ sub[id] # Unused /\ sub[id].col = events[pub[a].n].col
      /\ events[pub[a].n].by = a /\ \A m \in 1..Len(events) : events[m].by = a => m <= pub[a].n
      /\ \A i \in DOMAIN Handed(id) : Handed(id)[i] # pub[a].n
  BY <1>1, <1>2 DEF HubInv, PubOK
<1>4. PICK n \in Nat : n = pub[a].n /\ n \in DOMAIN events /\ DOMAIN events = 1..Len(events)
                       /\ Len(events) \in Nat
  BY <1>2, <1>3, LenProperties DEF TypeOK
<1>5. \A s \in SubIds : s # id => chan'[s] = chan[s]
  BY <1>2 DEF Send, TypeOK
<1>6. \A s \in SubIds : s # id => Handed(s)' = Handed(s)
  BY <1>1, <1>5, HandedSame
<1>7. CASE ~(Len(chan[id]) < ChanCap)
  <2>1. chan' = chan
    BY <1>7 DEF Send
  <2>2. \A s \in SubIds : Handed(s)' = Handed(s)
    BY <1>1, <2>1, HandedSame
  <2> QED BY <1>1, <1>2, <2>2, MapQuiet
<1>8. CASE Len(chan[id]) < ChanCap
  <2>1. chan'[id] = Append(chan[id], n)
    BY <1>2, <1>4, <1>8 DEF Send, TypeOK
  <2>2. Handed(id)' = Append(Handed(id), n)
    BY <1>1, <1>2, <2>1, HandedSend
  <2>3. \A s \in SubIds : /\ EventsIn(got[s])' = EventsIn(got[s]) /\ (Ended(s)' <=> Ended(s))
                          /\ StageOf(s)' = StageOf(s)
    BY <1>1 DEF EventsIn, Reply, Ended, StageOf, Closed, Unused
  <2>4. \A s \in SubIds : ShownAt(s)' = ShownAt(s)
    BY <2>3 DEF ShownAt
  <2>5. Topics' = Topics /\ Stages' = Stages /\ ShownOf' = ShownOf
    BY <1>1, <2>3, <2>4 DEF Topics, Stages, ShownOf
  <2>6. \A s \in SubIds : s # id => FeedAt(s)' = FeedAt(s)
    BY <1>6, <2>3 DEF FeedAt, EventsIn, Reply
  <2>7. CASE Ended(id)
    <3>1. FeedAt(id)' = FeedAt(id)
      BY <2>3, <2>7 DEF FeedAt
    <3>2. FeedsOf' = FeedsOf
      BY <2>6, <3>1 DEF FeedsOf
    <3> QED BY <1>1, <2>5, <3>2, MapStutter
  <2>8. CASE ~Ended(id)
    <3>1. PICK h \in Seq(Nat) : h = Handed(id)
      BY <1>2, HandedType
    <3>2. DOMAIN h = 1..Len(h) /\ Len(h) \in Nat
      BY LenProperties
    <3>3. EventsIn(Append(h, n)) = Append(EventsIn(h), n)
      <4>1. CASE got[id] = <<>>
        <5>1. EventsIn(h) = h
          BY <1>2, <3>1, <4>1, EventsOf
        <5>2. EventsIn(Handed(id))' = Handed(id)'
          BY <1>1, <1>2, <4>1, EventsOfNext DEF AnswerFirst
        <5>3. EventsIn(Append(h, n)) = Append(h, n)
          BY <2>2, <3>1, <5>2 DEF EventsIn, Reply
        <5> QED BY <5>1, <5>3
      <4>2. CASE got[id] # <<>>
        <5>1. EventsIn(h) = Tail(h) /\ h # <<>>
          BY <1>2, <3>1, <4>2, EventsOf
        <5>2. EventsIn(Handed(id))' = Tail(Handed(id)')
          BY <1>1, <1>2, <4>2, EventsOfNext DEF AnswerFirst
        <5>3. EventsIn(Append(h, n)) = Tail(Append(h, n))
          BY <2>2, <3>1, <5>2 DEF EventsIn, Reply
        <5> QED BY <5>1, <5>3, TailAppend
      <4> QED BY <4>1, <4>2
    <3>4. FeedAt(id) = EventsIn(h) /\ FeedAt(id)' = EventsIn(Append(h, n))
      BY <2>2, <2>3, <2>8, <3>1 DEF FeedAt, EventsIn, Reply
    <3>5. FeedsOf' = [FeedsOf EXCEPT ![id] = Append(FeedsOf[id], n)]
      BY <2>6, <3>3, <3>4 DEF FeedsOf
    <3>6. Stages[id] = "open"
      BY <1>1, <1>3, <2>8 DEF Stages, StageOf
    <3>7. events[n].col = Topics[id]
      BY <1>3, <1>4 DEF Topics
    <3>8. ASSUME NEW i \in DOMAIN FeedsOf[id], events[FeedsOf[id][i]].by = events[n].by
          PROVE  FeedsOf[id][i] < n
      <4>1. FeedsOf[id] = EventsIn(h)
        BY <3>4 DEF FeedsOf
      <4>2. PICK j \in DOMAIN h : EventsIn(h)[i] = h[j] /\ h[j] # Reply
        <5>1. CASE got[id] = <<>>
          <6>1. EventsIn(h) = h
            BY <1>2, <3>1, <5>1, EventsOf
          <6>2. h[i] # Reply
            BY <1>2, <3>1, <4>1, <5>1, <6>1, <3>8 DEF HandedOK
          <6> QED BY <3>8, <4>1, <6>1, <6>2
        <5>2. CASE got[id] # <<>>
          <6>1. EventsIn(h) = Tail(h) /\ h # <<>>
            BY <1>2, <3>1, <5>2, EventsOf
          <6>2. /\ Tail(h) \in Seq(Nat) /\ Len(Tail(h)) = Len(h) - 1
                /\ \A k \in 1..Len(Tail(h)) : Tail(h)[k] = h[k + 1]
            BY <6>1, HeadTailProperties
          <6>3. i \in 1..(Len(h) - 1)
            BY <3>8, <4>1, <6>1, <6>2, LenProperties
          <6>4. i + 1 \in DOMAIN h /\ i + 1 # 1 /\ Tail(h)[i] = h[i + 1]
            BY <3>2, <6>2, <6>3
          <6>5. h[i + 1] # Reply
            BY <1>2, <3>1, <6>4 DEF HandedOK
          <6> QED BY <6>1, <6>4, <6>5
        <5> QED BY <5>1, <5>2
      <4>3. h[j] \in 1..Len(events) /\ h[j] # n
        BY <1>2, <1>3, <1>4, <3>1, <4>2 DEF HandedOK
      <4>4. events[h[j]].by = a
        BY <1>3, <1>4, <3>8, <4>1, <4>2
      <4>5. h[j] <= n
        BY <1>3, <1>4, <4>3, <4>4
      <4> QED BY <1>4, <4>1, <4>2, <4>3, <4>5
    <3> QED BY <1>1, <1>4, <2>5, <3>5, <3>6, <3>7, <3>8, MapDeliver
  <2> QED BY <2>7, <2>8
<1> QED BY <1>7, <1>8

LEMMA MapWrite ==
    ASSUME HubInv, HubInv', NEW id \in SubIds, Write(id)
    PROVE  F!Next
<1>1. UNCHANGED <<sub, chan, closes, events>> /\ fw[id].at = "writing"
  BY DEF Write
<1>2. TypeOK /\ TypeOK' /\ \A s \in SubIds : HandedOK(s) /\ HandedOK(s)'
  BY DEF HubInv
<1>3. /\ fw'[id].at = "select" /\ got'[id] = Append(got[id], fw[id].n)
      /\ \A s \in SubIds : s # id => fw'[s] = fw[s] /\ got'[s] = got[s]
  BY <1>2 DEF Write, TypeOK
<1>4. \A s \in SubIds : Handed(s)' = Handed(s)
  BY <1>1, <1>2, <1>3, HandedWrite, HandedSame
<1>5. got[id] # <<>> /\ got[id] \in Seq(Nat) /\ fw[id].n \in Nat /\ chan[id] \in Seq(Nat)
  BY <1>1, <1>2 DEF HandedOK, TypeOK
<1>6. \A s \in SubIds : Ended(s)' <=> Ended(s)
  BY <1>1, <1>3 DEF Ended
<1>7. ~Ended(id) /\ ~Ended(id)'
  BY <1>1, <1>6 DEF Ended
<1>8. \A s \in SubIds : s # id => EventsIn(got[s])' = EventsIn(got[s])
  BY <1>3 DEF EventsIn, Reply
<1>9. EventsIn(got[id]) = Tail(got[id]) /\ EventsIn(Handed(id)) = Tail(Handed(id)) /\ Handed(id) # <<>>
  BY <1>2, <1>5, EventsOf
<1>10. EventsIn(got[id])' = Tail(got'[id])
  <2>1. got'[id] # <<>>
    BY <1>2, <1>3 DEF HandedOK
  <2> QED BY <1>2, <2>1, EventsOfNext DEF AnswerFirst
<1>11. PICK g \in Seq(Nat) : g = got[id]
  BY <1>5
<1>12. /\ Len(g) \in Nat /\ 1 <= Len(g) /\ Tail(g) \in Seq(Nat) /\ Len(Tail(g)) = Len(g) - 1
  <2>1. g # <<>>
    BY <1>5, <1>11
  <2> QED BY <2>1, LenProperties, EmptySeq, HeadTailProperties
<1>13. Len(Tail(got'[id])) = Len(Tail(g)) + 1
  <2>1. g # <<>>
    BY <1>5, <1>11
  <2>2. Tail(Append(g, fw[id].n)) = Append(Tail(g), fw[id].n)
    BY <1>5, <2>1, TailAppend
  <2>3. Len(Append(Tail(g), fw[id].n)) = Len(Tail(g)) + 1
    BY <1>5, <1>12
  <2> QED BY <1>3, <1>11, <2>2, <2>3
<1>14. Len(Tail(g)) < Len(Tail(Handed(id)))
  <2>1. Handed(id) = g \o <<fw[id].n>> \o chan[id]
    BY <1>1, <1>11 DEF Handed
  <2>2. <<fw[id].n>> \in Seq(Nat) /\ Len(<<fw[id].n>>) = 1
    BY <1>5
  <2>3. g \o <<fw[id].n>> \in Seq(Nat) /\ Len(g \o <<fw[id].n>>) = Len(g) + 1
    BY <2>2, ConcatProperties
  <2>4. Len(Handed(id)) = Len(g) + 1 + Len(chan[id])
    BY <1>5, <2>1, <2>3, ConcatProperties
  <2>5. Len(chan[id]) \in Nat /\ Len(Tail(Handed(id))) = Len(Handed(id)) - 1
    BY <1>2, <1>5, <1>9, HandedType, LenProperties, HeadTailProperties
  <2>6. PICK k \in Nat : k = Len(chan[id])
    BY <2>5
  <2>7. PICK l \in Nat : l = Len(g)
    BY <1>12
  <2>8. Len(Handed(id)) = l + 1 + k
    BY <2>4, <2>6, <2>7
  <2>9. PICK t : t = Len(Tail(Handed(id))) /\ t = Len(Handed(id)) - 1
    BY <2>5
  <2>10. PICK u : u = Len(Tail(g)) /\ u = Len(g) - 1
    BY <1>12
  <2>11. t = (l + 1 + k) - 1 /\ u = l - 1
    BY <2>7, <2>8, <2>9, <2>10
  <2>12. u < t
    BY <2>11
  <2> QED BY <2>9, <2>10, <2>12
<1>15. \A s \in SubIds : FeedAt(s)' = FeedAt(s)
  BY <1>4, <1>6 DEF FeedAt, EventsIn, Reply
<1>16. \A s \in SubIds : StageOf(s)' = StageOf(s)
  BY <1>1, <1>6 DEF StageOf, Closed, Unused
<1>17. FeedsOf' = FeedsOf /\ Stages' = Stages /\ Topics' = Topics
  BY <1>1, <1>15, <1>16 DEF FeedsOf, Stages, Topics
<1>18. ShownAt(id) = Len(Tail(g)) /\ ShownAt(id)' = Len(Tail(g)) + 1
  BY <1>7, <1>9, <1>10, <1>11, <1>13 DEF ShownAt
<1>19. \A s \in SubIds : s # id => ShownAt(s)' = ShownAt(s)
  BY <1>6, <1>8 DEF ShownAt
<1>20. ShownOf' = [ShownOf EXCEPT ![id] = ShownOf[id] + 1]
  BY <1>18, <1>19 DEF ShownOf
<1>21. ShownOf[id] < Len(FeedsOf[id])
  BY <1>7, <1>9, <1>14, <1>18 DEF ShownOf, FeedsOf, FeedAt
<1> QED BY <1>1, <1>17, <1>20, <1>21, MapShow

LEMMA MapEnded ==
    ASSUME HubInv, NEW id \in SubIds, End(id)
    PROVE  F!Next
<1>1. UNCHANGED <<sub, closes, events>> /\ fw[id].at = "select" /\ TypeOK
  BY DEF End, HubInv
<1>2. fw'[id].at = "ended" /\ \A s \in SubIds : s # id => fw'[s] = fw[s]
  BY <1>1, MoveFw DEF End
<1>3. \A s \in SubIds : s # id => chan'[s] = chan[s] /\ got'[s] = got[s]
  BY <1>1 DEF End, TypeOK
<1>4. \A s \in SubIds : s # id => Handed(s)' = Handed(s)
  BY <1>2, <1>3, HandedSame
<1>5. \A s \in SubIds : s # id =>
         EventsIn(got[s])' = EventsIn(got[s]) /\ (Ended(s)' <=> Ended(s))
  BY <1>2, <1>3 DEF EventsIn, Reply, Ended
<1>6. \A s \in SubIds : s # id =>
         FeedAt(s)' = FeedAt(s) /\ ShownAt(s)' = ShownAt(s)
  BY <1>4, <1>5 DEF FeedAt, ShownAt, EventsIn, Reply
<1>7. \A s \in SubIds : s # id => StageOf(s)' = StageOf(s)
  BY <1>1, <1>5 DEF StageOf, Closed, Unused
<1>8. sub[id] # Unused
  BY <1>1 DEF HubInv, IdOK
<1>9. ~Ended(id) /\ Ended(id)'
  BY <1>1, <1>2 DEF Ended
<1>10. StageOf(id) \in {"open", "cancelled"} /\ StageOf(id)' = "ended"
  BY <1>8, <1>9 DEF StageOf
<1>11. FeedAt(id)' = <<>> /\ ShownAt(id)' = 0
  BY <1>9 DEF FeedAt, ShownAt
<1>12. /\ Stages[id] \in {"open", "cancelled"} /\ Stages' = [Stages EXCEPT ![id] = "ended"]
       /\ FeedsOf' = [FeedsOf EXCEPT ![id] = <<>>] /\ ShownOf' = [ShownOf EXCEPT ![id] = 0]
       /\ Topics' = Topics
  BY <1>1, <1>6, <1>7, <1>10, <1>11 DEF Stages, FeedsOf, ShownOf, Topics
<1> QED BY <1>1, <1>12, MapEnd

(* The subscriptions implement feeds: what a subscriber was and will be    *)
(* shown only grows at its end, keeps each writer's order, gets nothing    *)
(* after the close of the channel, and is shown from the front (Publish,   *)
(* Unsubscribe, the goroutine of dispatchWS).                              *)
THEOREM HubImplementsFeed == Spec => ImplementsFeed
<1>1. Init => F!Init
  <2> SUFFICES ASSUME Init PROVE F!Init
    OBVIOUS
  <2>1. ASSUME NEW s \in SubIds
        PROVE  /\ sub[s].col = NoSub /\ StageOf(s) = "none"
               /\ FeedAt(s) = <<>> /\ ShownAt(s) = 0
    <3>1. got[s] = <<>> /\ chan[s] = <<>> /\ fw[s].at = "none" /\ closes[s] = 0 /\ sub[s] = Unused
      BY DEF Init
    <3>2. Handed(s) = <<>> \o <<>> \o <<>>
      BY <3>1 DEF Handed
    <3>3. Handed(s) = <<>>
      BY <3>2, ConcatEmptySeq
    <3> QED BY <3>1, <3>3 DEF FeedAt, ShownAt, EventsIn, Ended, StageOf, Closed, Unused
  <2>2. /\ Topics = [s \in SubIds |-> NoSub] /\ Stages = [s \in SubIds |-> "none"]
        /\ FeedsOf = [s \in SubIds |-> <<>>] /\ ShownOf = [s \in SubIds |-> 0]
    BY <2>1 DEF Topics, Stages, FeedsOf, ShownOf
  <2>3. events = <<>>
    BY DEF Init
  <2> QED BY <2>2, <2>3 DEF F!Init, Topics, Stages, FeedsOf, ShownOf, FeedAt, ShownAt
<1>2. HubInv /\ HubInv' /\ [Next]_vars => [F!Next]_(F!feedVars)
  <2> SUFFICES ASSUME HubInv, HubInv', [Next]_vars PROVE F!Next \/ UNCHANGED F!feedVars
    OBVIOUS
  <2>1. TypeOK /\ Life
    BY DEF HubInv, Life
  <2>2. ASSUME UNCHANGED <<sub, closes, got, fw, chan, events>>
        PROVE  UNCHANGED F!feedVars
    <3>1. \A s \in SubIds : Handed(s)' = Handed(s)
      BY <2>2, HandedSame
    <3> QED BY <2>1, <2>2, <3>1, MapQuiet
  <2>3. CASE UNCHANGED vars
    BY <2>2, <2>3 DEF vars
  <2>4. ASSUME NEW c \in Conns, ConnStep(c)
        PROVE  F!Next \/ UNCHANGED F!feedVars
    <3>1. CASE ReadFails(c) \/ Cancel(c)
      BY <2>2, <3>1 DEF ReadFails, Cancel
    <3>2. CASE SubscribeReply(c)
      BY <3>2, MapReply
    <3>3. CASE UnsubscribeReply(c) \/ Dropped(c)
      BY <3>3, MapClose DEF UnsubscribeReply, Dropped
    <3>4. ASSUME NEW id \in SubIds, NEW col \in Collections, Subscribe(c, id, col)
          PROVE  F!Next
      BY <2>1, <3>4, MapSubscribe
    <3>5. ASSUME NEW id \in SubIds, Unsubscribe(c, id) \/ DropOne(c, id)
          PROVE  UNCHANGED F!feedVars
      BY <2>2, <3>5 DEF Unsubscribe, DropOne, Remove
    <3> QED BY <2>4, <3>1, <3>2, <3>3, <3>4, <3>5 DEF ConnStep
  <2>5. ASSUME NEW a \in Writers, PublishStep(a)
        PROVE  F!Next \/ UNCHANGED F!feedVars
    <3>1. ASSUME NEW col \in Collections, Commit(a, col)
          PROVE  F!Next
      BY <2>1, <3>1, MapCommit
    <3>2. CASE Snapshot(a)
      BY <2>2, <3>2 DEF Snapshot
    <3>3. ASSUME NEW id \in SubIds, Send(a, id)
          PROVE  F!Next \/ UNCHANGED F!feedVars
      BY <3>3, MapSend
    <3>4. ASSUME NEW id \in SubIds, SendPanics(a, id)
          PROVE  UNCHANGED F!feedVars
      BY <2>2, <3>4 DEF SendPanics
    <3> QED BY <2>5, <3>1, <3>2, <3>3, <3>4 DEF PublishStep
  <2>6. ASSUME NEW id \in SubIds, ForwardStep(id)
        PROVE  F!Next \/ UNCHANGED F!feedVars
    <3>1. CASE Take(id)
      <4>1. UNCHANGED <<sub, closes, got, events>>
        BY <3>1 DEF Take
      <4>2. \A s \in SubIds : Ended(s)' <=> Ended(s)
        BY <2>1, <3>1 DEF Take, Ended, TypeOK
      <4>3. \A s \in SubIds : s # id => fw'[s] = fw[s] /\ chan'[s] = chan[s]
        BY <2>1, <3>1 DEF Take, TypeOK
      <4>4. \A s \in SubIds : Handed(s)' = Handed(s)
        BY <2>1, <3>1, <4>1, <4>3, HandedTake, HandedSame
      <4>5. \A s \in SubIds : EventsIn(got[s])' = EventsIn(got[s])
        BY <4>1 DEF EventsIn, Reply
      <4> QED BY <4>1, <4>2, <4>4, <4>5, MapSame, MapStutter
    <3>2. CASE Write(id)
      BY <3>2, MapWrite
    <3>3. CASE End(id)
      BY <3>3, MapEnded
    <3> QED BY <2>6, <3>1, <3>2, <3>3 DEF ForwardStep
  <2> QED BY <2>3, <2>4, <2>5, <2>6 DEF Next
<1> QED BY <1>1, <1>2, HubInvariant, PTL DEF Spec, ImplementsFeed, F!Spec

=============================================================================
