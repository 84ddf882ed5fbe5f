-------------------------------- MODULE Feed --------------------------------
(***************************************************************************)
(* What the hub promises a subscriber: a feed of the events of one         *)
(* collection. The feed only grows at its end; what is in it is shown from *)
(* the front, one by one; the events of a writer stand in the order of its *)
(* commits; a cancelled feed gets nothing more, and shows what it has or   *)
(* ends. An event may be missing: delivery is best-effort.                 *)
(***************************************************************************)
EXTENDS Naturals, Sequences

CONSTANTS Subs, Writers, Collections, NoTopic

VARIABLES
    log,        \* the events, in the order of their commits
    topic,      \* the collection of each feed
    stage,      \* none, open, cancelled, ended
    feed,       \* the events of the feed: numbers in log
    shown       \* how many of them the client was given

feedVars == <<log, topic, stage, feed, shown>>

Happen(a, col) ==
    /\ log' = Append(log, [by |-> a, col |-> col])
    /\ UNCHANGED <<topic, stage, feed, shown>>

Open(id, col) ==
    /\ stage[id] = "none"
    /\ stage' = [stage EXCEPT ![id] = "open"]
    /\ topic' = [topic EXCEPT ![id] = col]
    /\ UNCHANGED <<log, feed, shown>>

Deliver(id, n) ==
    /\ stage[id] = "open"
    /\ log[n].col = topic[id]
    /\ \A i \in DOMAIN feed[id] : log[feed[id][i]].by = log[n].by => feed[id][i] < n
    /\ feed' = [feed EXCEPT ![id] = Append(@, n)]
    /\ UNCHANGED <<log, topic, stage, shown>>

Show(id) ==
    /\ shown[id] < Len(feed[id])
    /\ shown' = [shown EXCEPT ![id] = @ + 1]
    /\ UNCHANGED <<log, topic, stage, feed>>

Cancel(id) ==
    /\ stage[id] = "open"
    /\ stage' = [stage EXCEPT ![id] = "cancelled"]
    /\ UNCHANGED <<log, topic, feed, shown>>

End(id) ==
    /\ stage[id] \in {"open", "cancelled"}
    /\ stage' = [stage EXCEPT ![id] = "ended"]
    /\ feed' = [feed EXCEPT ![id] = <<>>]
    /\ shown' = [shown EXCEPT ![id] = 0]
    /\ UNCHANGED <<log, topic>>

Init ==
    /\ log = <<>>
    /\ topic = [id \in Subs |-> NoTopic]
    /\ stage = [id \in Subs |-> "none"]
    /\ feed = [id \in Subs |-> <<>>]
    /\ shown = [id \in Subs |-> 0]

Next ==
    \/ \E a \in Writers, col \in Collections : Happen(a, col)
    \/ \E id \in Subs :
          \/ \E col \in Collections : Open(id, col)
          \/ \E n \in DOMAIN log : Deliver(id, n)
          \/ Show(id) \/ Cancel(id) \/ End(id)

Spec == Init /\ [][Next]_feedVars
=============================================================================
