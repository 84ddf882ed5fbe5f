-------------------------------- MODULE Hub ---------------------------------
(***************************************************************************)
(* The realtime hub of the document API (internal/docapi/server.go): the   *)
(* WebSocket connections that subscribe and unsubscribe (handleWS,         *)
(* dispatchWS), the writers of documents that publish (the HTTP handlers   *)
(* and the WebSocket operations), and the goroutine of each subscription   *)
(* that forwards events to its connection.                                 *)
(*                                                                         *)
(* Hub.mu is held for the change of the map and for Publish's copy of it.  *)
(* The sends of Publish and the close of Unsubscribe come after the        *)
(* unlock, as steps of their own. A send on a closed channel panics.       *)
(***************************************************************************)
EXTENDS Naturals, Sequences, FiniteSets

CONSTANTS
    Conns,          \* WebSocket connections
    Writers,        \* who writes documents: connections, and requests over HTTP
    SubIds,         \* subscription ids; newDocID does not repeat one
    Collections,    \* collection names
    NoSub,          \* marks an id that is not in use
    MaxSubs,        \* WSMaxSubscriptions, per connection
    ChanCap,        \* capacity of a subscription's channel: 32 in the code
    MaxEvents       \* bound on the events published

ASSUME HubAssumption ==
    /\ NoSub \notin SubIds \cup Conns
    /\ IsFiniteSet(SubIds)
    /\ MaxSubs \in Nat
    /\ ChanCap \in Nat \ {0}
    /\ MaxEvents \in Nat

VARIABLES
    hub,        \* h.subs: the ids registered
    sub,        \* the subscription of each id, kept after it left the map
    chan,       \* what is in the channel of each subscription
    closes,     \* how often the channel was closed
    fw,         \* the forwarding goroutine of each subscription
    conn,       \* handleWS of each connection
    pub,        \* the Publish each connection or writer is in
    events,     \* history: the writes committed, in order
    aborted,    \* history: the events whose Publish panicked
    dropped,    \* history: the events a full channel did not take
    got         \* history: what was handed to client.write for each subscription

vars == <<hub, sub, chan, closes, fw, conn, pub, events, aborted, dropped, got>>

Actors == Conns \cup Writers
Unused == [col |-> NoSub, owner |-> NoSub, since |-> 0]
Reply == 0                              \* the answer to subscribe, in got
Closed(id) == closes[id] > 0

(* handleWS before its first read. A connection not yet accepted and one   *)
(* that asks for nothing are the same to the hub.                          *)
Accepted == [at |-> "open", subs |-> {}, id |-> NoSub, found |-> FALSE]
Quiet == [at |-> "idle", n |-> 0, targets |-> {}]

(* Publish of event n with these channels to go; it returns after the last. *)
Sending(n, targets) ==
    IF targets = {} THEN Quiet ELSE [at |-> "sending", n |-> n, targets |-> targets]

(* The read loop of handleWS has the next message. *)
Serving(c) == conn[c].at = "open" /\ pub[c].at = "idle"

-----------------------------------------------------------------------------
(* Connections *)

(* Hub.Subscribe; above the limit the client gets an error. *)
Subscribe(c, id, col) ==
    /\ Serving(c)
    /\ Cardinality(conn[c].subs) < MaxSubs
    /\ sub[id] = Unused
    /\ sub' = [sub EXCEPT ![id] = [col |-> col, owner |-> c, since |-> Len(events)]]
    /\ hub' = hub \cup {id}
    /\ conn' = [conn EXCEPT ![c].at = "reply", ![c].id = id, ![c].subs = @ \cup {id}]
    /\ UNCHANGED <<chan, closes, fw, pub, events, aborted, dropped, got>>

(* The answer is written before the forwarding goroutine starts. *)
SubscribeReply(c) ==
    LET id == conn[c].id
    IN  /\ conn[c].at = "reply"
        /\ got' = [got EXCEPT ![id] = Append(@, Reply)]
        /\ fw' = [fw EXCEPT ![id].at = "select"]
        /\ conn' = [conn EXCEPT ![c].at = "open", ![c].id = NoSub]
        /\ UNCHANGED <<hub, sub, chan, closes, pub, events, aborted, dropped>>

(* Mutant of Remove: the id stays in the map. *)
RemoveNot(c, id, next) ==
    /\ conn' = [conn EXCEPT ![c].at = next, ![c].id = id, ![c].found = id \in hub]
    /\ UNCHANGED <<hub, sub, chan, closes, fw, pub, events, aborted, dropped, got>>

(* Hub.Unsubscribe under the lock: look the id up and delete it. *)
Remove(c, id, next) ==
    /\ hub' = hub \ {id}
    /\ conn' = [conn EXCEPT ![c].at = next, ![c].id = id, ![c].found = id \in hub]
    /\ UNCHANGED <<sub, chan, closes, fw, pub, events, aborted, dropped, got>>

(* Mutant of CloseChannel: the channel is left open. *)
CloseChannelNever(c, next) ==
    /\ conn' = [conn EXCEPT ![c] = [Accepted EXCEPT !.at = next,
                                      !.subs = conn[c].subs \ {conn[c].id}]]
    /\ UNCHANGED <<hub, sub, chan, closes, fw, pub, events, aborted, dropped, got>>

(* Hub.Unsubscribe after the unlock, and the caller's own map. *)
CloseChannel(c, next) ==
    /\ closes' = IF conn[c].found THEN [closes EXCEPT ![conn[c].id] = @ + 1] ELSE closes
    /\ conn' = [conn EXCEPT ![c] = [Accepted EXCEPT !.at = next,
                                      !.subs = conn[c].subs \ {conn[c].id}]]
    /\ UNCHANGED <<hub, sub, chan, fw, pub, events, aborted, dropped, got>>

(* The id a client names may be that of another connection, or one that is *)
(* gone; no client knows an id before the answer that tells it.            *)
Unsubscribe(c, id) == Serving(c) /\ fw[id].at # "none" /\ Remove(c, id, "unsub")
UnsubscribeReply(c) == conn[c].at = "unsub" /\ CloseChannel(c, "open")

(* The read fails: closed by the client, idle timeout, message too large. *)
ReadFails(c) ==
    /\ Serving(c)
    /\ conn' = [conn EXCEPT ![c].at = "closing"]
    /\ UNCHANGED <<hub, sub, chan, closes, fw, pub, events, aborted, dropped, got>>

(* The deferred calls of handleWS: unsubscribe from everything, cancel. *)
DropOne(c, id) ==
    conn[c].at = "closing" /\ id \in conn[c].subs /\ Remove(c, id, "dropping")
Dropped(c) == conn[c].at = "dropping" /\ CloseChannel(c, "closing")

(* Mutant of Cancel: the subscriptions are left in the map. *)
CancelAtOnce(c) ==
    /\ conn[c].at = "closing"
    /\ conn' = [conn EXCEPT ![c].at = "closed"]
    /\ UNCHANGED <<hub, sub, chan, closes, fw, pub, events, aborted, dropped, got>>

Cancel(c) ==
    /\ conn[c].at = "closing" /\ conn[c].subs = {}
    /\ conn' = [conn EXCEPT ![c].at = "closed"]
    /\ UNCHANGED <<hub, sub, chan, closes, fw, pub, events, aborted, dropped, got>>

-----------------------------------------------------------------------------
(* Writers *)

(* The store call of insert, upsert, patch or delete succeeded. *)
Commit(a, col) ==
    /\ pub[a].at = "idle"
    /\ a \in Conns => conn[a].at = "open"
    /\ Len(events) < MaxEvents
    /\ events' = Append(events, [by |-> a, col |-> col])
    /\ pub' = [pub EXCEPT ![a] = [Quiet EXCEPT !.at = "committed", !.n = Len(events) + 1]]
    /\ UNCHANGED <<hub, sub, chan, closes, fw, conn, aborted, dropped, got>>

(* Publish under the lock: the channels subscribed to the collection. *)
Snapshot(a) ==
    /\ pub[a].at = "committed"
    /\ LET n == pub[a].n
       IN  pub' = [pub EXCEPT ![a] =
                     Sending(n, {id \in hub : sub[id].col = events[n].col})]
    /\ UNCHANGED <<hub, sub, chan, closes, fw, conn, events, aborted, dropped, got>>

(* Mutants of Send: the channel has no bound; the first send ends the loop. *)
SendUnbounded(a, id) ==
    /\ pub[a].at = "sending" /\ id \in pub[a].targets
    /\ ~Closed(id)
    /\ chan' = [chan EXCEPT ![id] = Append(@, pub[a].n)]
    /\ pub' = [pub EXCEPT ![a] = Sending(@.n, @.targets \ {id})]
    /\ UNCHANGED <<hub, sub, closes, fw, conn, events, aborted, dropped, got>>

SendFirstOnly(a, id) ==
    /\ pub[a].at = "sending" /\ id \in pub[a].targets
    /\ ~Closed(id)
    /\ IF Len(chan[id]) < ChanCap
       THEN chan' = [chan EXCEPT ![id] = Append(@, pub[a].n)] /\ UNCHANGED dropped
       ELSE dropped' = [dropped EXCEPT ![id] = @ \cup {pub[a].n}] /\ UNCHANGED chan
    /\ pub' = [pub EXCEPT ![a] = Quiet]
    /\ UNCHANGED <<hub, sub, closes, fw, conn, events, aborted, got>>

(* Mutant of Send: a full channel loses its oldest event instead. *)
SendDropsOldest(a, id) ==
    /\ pub[a].at = "sending" /\ id \in pub[a].targets
    /\ ~Closed(id)
    /\ IF Len(chan[id]) < ChanCap
       THEN chan' = [chan EXCEPT ![id] = Append(@, pub[a].n)] /\ UNCHANGED dropped
       ELSE /\ chan' = [chan EXCEPT ![id] = Append(Tail(@), pub[a].n)]
            /\ dropped' = [dropped EXCEPT ![id] = @ \cup {Head(chan[id])}]
    /\ pub' = [pub EXCEPT ![a] = Sending(@.n, @.targets \ {id})]
    /\ UNCHANGED <<hub, sub, closes, fw, conn, events, aborted, got>>

(* A send that does not block: a full channel loses the event. *)
Send(a, id) ==
    /\ pub[a].at = "sending" /\ id \in pub[a].targets
    /\ ~Closed(id)
    /\ IF Len(chan[id]) < ChanCap
       THEN chan' = [chan EXCEPT ![id] = Append(@, pub[a].n)] /\ UNCHANGED dropped
       ELSE dropped' = [dropped EXCEPT ![id] = @ \cup {pub[a].n}] /\ UNCHANGED chan
    /\ pub' = [pub EXCEPT ![a] = Sending(@.n, @.targets \ {id})]
    /\ UNCHANGED <<hub, sub, closes, fw, conn, events, aborted, got>>

(* The channel was closed since the snapshot. net/http recovers the panic: *)
(* the request ends without an answer, a connection by its deferred calls. *)
SendPanics(a, id) ==
    /\ pub[a].at = "sending" /\ id \in pub[a].targets
    /\ Closed(id)
    /\ pub' = [pub EXCEPT ![a] = Quiet]
    /\ aborted' = aborted \cup {pub[a].n}
    /\ conn' = IF a \in Conns THEN [conn EXCEPT ![a].at = "closing"] ELSE conn
    /\ UNCHANGED <<hub, sub, chan, closes, fw, events, dropped, got>>

-----------------------------------------------------------------------------
(* The forwarding goroutine. Its select may take either of a cancelled     *)
(* context and a channel with something in it.                             *)

(* Mutant of Take: the event stays in the channel. *)
TakeCopy(id) ==
    /\ fw[id].at = "select" /\ chan[id] # <<>>
    /\ fw' = [fw EXCEPT ![id] = [at |-> "writing", n |-> Head(chan[id])]]
    /\ UNCHANGED <<hub, sub, chan, closes, conn, pub, events, aborted, dropped, got>>

Take(id) ==
    /\ fw[id].at = "select" /\ chan[id] # <<>>
    /\ fw' = [fw EXCEPT ![id] = [at |-> "writing", n |-> Head(chan[id])]]
    /\ chan' = [chan EXCEPT ![id] = Tail(@)]
    /\ UNCHANGED <<hub, sub, closes, conn, pub, events, aborted, dropped, got>>

(* client.write; what the library then does with it is not modelled. *)
Write(id) ==
    /\ fw[id].at = "writing"
    /\ fw' = [fw EXCEPT ![id] = [at |-> "select", n |-> 0]]
    /\ got' = [got EXCEPT ![id] = Append(@, fw[id].n)]
    /\ UNCHANGED <<hub, sub, chan, closes, conn, pub, events, aborted, dropped>>

End(id) ==
    /\ fw[id].at = "select"
    /\ \/ chan[id] = <<>> /\ Closed(id)
       \/ conn[sub[id].owner].at = "closed"
    /\ fw' = [fw EXCEPT ![id].at = "ended"]
    /\ chan' = [chan EXCEPT ![id] = <<>>]       \* left to the collector,
    /\ got' = [got EXCEPT ![id] = <<>>]         \* and with it the histories
    /\ dropped' = [dropped EXCEPT ![id] = {}]
    /\ UNCHANGED <<hub, sub, closes, conn, pub, events, aborted>>

-----------------------------------------------------------------------------
Init ==
    /\ hub = {}
    /\ sub = [id \in SubIds |-> Unused]
    /\ chan = [id \in SubIds |-> <<>>]
    /\ closes = [id \in SubIds |-> 0]
    /\ fw = [id \in SubIds |-> [at |-> "none", n |-> 0]]
    /\ conn = [c \in Conns |-> Accepted]
    /\ pub = [a \in Actors |-> Quiet]
    /\ events = <<>> /\ aborted = {}
    /\ dropped = [id \in SubIds |-> {}]
    /\ got = [id \in SubIds |-> <<>>]

ConnStep(c) ==
    \/ ReadFails(c) \/ Cancel(c)
    \/ SubscribeReply(c) \/ UnsubscribeReply(c) \/ Dropped(c)
    \/ \E id \in SubIds :
          \/ \E col \in Collections : Subscribe(c, id, col)
          \/ Unsubscribe(c, id) \/ DropOne(c, id)

PublishStep(a) ==
    \/ \E col \in Collections : Commit(a, col)
    \/ Snapshot(a)
    \/ \E id \in SubIds : Send(a, id) \/ SendPanics(a, id)

ForwardStep(id) == Take(id) \/ Write(id) \/ End(id)

Next ==
    \/ \E c \in Conns : ConnStep(c)
    \/ \E a \in Writers : PublishStep(a)
    \/ \E id \in SubIds : ForwardStep(id)

Spec == Init /\ [][Next]_vars

-----------------------------------------------------------------------------
(* Properties *)

ConnStates == {"open", "reply", "unsub", "closing", "dropping", "closed"}

TypeOK ==
    /\ hub \subseteq SubIds
    /\ sub \in [SubIds -> [col : Collections, owner : Conns, since : Nat] \cup {Unused}]
    /\ chan \in [SubIds -> Seq(Nat)] /\ \A id \in SubIds : Len(chan[id]) <= ChanCap
    /\ closes \in [SubIds -> Nat]
    /\ fw \in [SubIds -> [at : {"none", "select", "writing", "ended"}, n : Nat]]
    /\ conn \in [Conns -> [at : ConnStates, subs : SUBSET SubIds,
                           id : SubIds \cup {NoSub}, found : BOOLEAN]]
    /\ pub \in [Actors -> [at : {"idle", "committed", "sending"}, n : Nat,
                           targets : SUBSET SubIds]]
    /\ events \in Seq([by : Writers, col : Collections])
    /\ aborted \subseteq Nat
    /\ dropped \in [SubIds -> SUBSET Nat]
    /\ got \in [SubIds -> Seq(Nat)]

(* No channel is closed twice, which would panic, although the owner, its  *)
(* deferred calls and other clients may unsubscribe the same id at once;   *)
(* and none that is in the map is closed (Hub.Unsubscribe).                *)
ClosedOnce ==
    \A id \in SubIds : closes[id] <= (IF id \in hub THEN 0 ELSE 1)

(* A subscription in the map belongs to a connection that still serves or  *)
(* is on its way to remove it, within the limit: nothing stays behind when *)
(* a connection has ended, by a panic of its Publish too (handleWS).       *)
Owned(c) == {id \in hub : sub[id].owner = c}

NothingLeaks ==
    /\ \A id \in hub : sub[id].owner \in Conns
    /\ \A c \in Conns :
          /\ Owned(c) \subseteq conn[c].subs
          /\ conn[c].at = "closed" => Owned(c) = {}
          /\ Cardinality(Owned(c)) <= MaxSubs

(* What a subscription wrote, is writing and has queued, in this order. *)
Handed(id) ==
    got[id] \o (IF fw[id].at = "writing" THEN <<fw[id].n>> ELSE <<>>) \o chan[id]

(* A subscriber gets the answer to its request before any event, only      *)
(* events of its collection, none twice, and those of one writer in the    *)
(* order of its commits, whatever sends of several writers interleave      *)
(* (Publish, the goroutine of dispatchWS).                                 *)
InOrder ==
    \A id \in SubIds :
        LET seq == Handed(id)
        IN  /\ got[id] # <<>> => Head(got[id]) = Reply
            /\ \A i \in DOMAIN seq : seq[i] # Reply => events[seq[i]].col = sub[id].col
            /\ \A i, j \in DOMAIN seq :
                  i < j /\ seq[i] # Reply =>
                     /\ seq[j] # Reply
                     /\ events[seq[i]].by = events[seq[j]].by => seq[i] < seq[j]

(* A feed is what was written to the client and what the goroutine and the *)
(* channel of a subscription hold, without the answer to the request; it   *)
(* is cancelled by the close of the channel and ends with the goroutine.   *)
EventsIn(seq) == IF seq # <<>> /\ Head(seq) = Reply THEN Tail(seq) ELSE seq
Ended(id) == fw[id].at = "ended"
StageOf(id) ==
    IF Ended(id) THEN "ended" ELSE IF Closed(id) THEN "cancelled"
    ELSE IF sub[id] = Unused THEN "none" ELSE "open"

F == INSTANCE Feed WITH
        Subs <- SubIds, NoTopic <- NoSub, log <- events,
        topic <- [id \in SubIds |-> sub[id].col],
        stage <- [id \in SubIds |-> StageOf(id)],
        feed <- [id \in SubIds |-> IF Ended(id) THEN <<>> ELSE EventsIn(Handed(id))],
        shown <- [id \in SubIds |-> IF Ended(id) THEN 0 ELSE Len(EventsIn(got[id]))]

(* The hub implements the feeds of module Feed: a full channel takes no    *)
(* event back, nothing enters a closed one, and each writer's events stay  *)
(* in the order of its commits (Publish, Unsubscribe, the forwarder).      *)
ImplementsFeed == F!Spec

(* An event committed after a subscription was made, whose Publish came to *)
(* its end, reached the subscription, unless its channel was full then or  *)
(* it was cancelled since (Publish).                                       *)
Complete ==
    \A id \in hub : \A n \in (sub[id].since + 1)..Len(events) :
        events[n].col = sub[id].col /\ n \notin aborted /\ (\A a \in Actors : pub[a].n # n) =>
            \/ n \in dropped[id]
            \/ \E i \in DOMAIN Handed(id) : Handed(id)[i] = n

(* The goroutine of a subscription that is out of the map is not stranded  *)
(* on its channel: the channel is closed, or some connection, not always   *)
(* the owner, has taken the id out and is about to close it. No end of a   *)
(* connection, by a panic of its Publish either, comes in between          *)
(* (Hub.Unsubscribe, the goroutine of dispatchWS).                         *)
ForwarderFreed ==
    \A id \in SubIds :
        fw[id].at \in {"select", "writing"} /\ id \notin hub =>
            \/ Closed(id)
            \/ \E c \in Conns :
                  conn[c].at \in {"unsub", "dropping"} /\ conn[c].id = id /\ conn[c].found
=============================================================================
