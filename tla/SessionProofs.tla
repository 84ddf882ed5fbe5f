---------------------------- MODULE SessionProofs ---------------------------
(***************************************************************************)
(* The properties of module Session, proved for any number of connections, *)
(* databases and commands.                                                 *)
(*                                                                         *)
(* The invariant says of each connection by itself what makes its session  *)
(* right (Good); an action changes one connection, so it is enough that it *)
(* keeps that connection good.                                             *)
(***************************************************************************)
EXTENDS Session, TLAPS

Ran == [cmd : Cmds, db : DBs]

(* The state k of a connection, its session s, the rest w of the queue     *)
(* under EXEC, and the logs a of accepted and r of executed commands fit   *)
(* together: nothing is left of an EXEC that has ended and no queue of a   *)
(* MULTI that has; before authentication there is no MULTI, a session that *)
(* is authenticated ran AUTH, and so did every connection that ran another *)
(* than an open command, before it; and the parts of NothingLost and SelectedDatabase,   *)
(* with the selected database what the next command will run in.           *)
Shaped(k, s, w, a, r) ==
    /\ k \in {"closed", "ready", "exec"}
    /\ s \in Sessions
    /\ w \in Seq(Cmds) /\ a \in Seq(Cmds) /\ r \in Seq(Ran)

Settled(k, s, w) ==
    /\ k # "exec" => w = <<>>
    /\ ~s.inMulti => s.queued = <<>>

AuthBefore(r, i) == \E j \in DOMAIN r : j < i /\ r[j].cmd.name = "AUTH"

Guarded(s, w, r) ==
    PasswordSet =>
        /\ ~s.authed => ~s.inMulti /\ w = <<>>
        /\ s.authed => AuthBefore(r, Len(r) + 1)
        /\ \A i \in DOMAIN r : r[i].cmd.name \in Open \/ AuthBefore(r, i)

Selected(s, r) ==
    /\ \A i \in DOMAIN r : InForce(r, i, r[i].db)
    /\ InForce(r, Len(r) + 1, s.db)

Good(k, s, w, a, r) ==
    /\ Shaped(k, s, w, a, r)
    /\ Settled(k, s, w)
    /\ Guarded(s, w, r)
    /\ a = Commands(r) \o w \o s.queued
    /\ Selected(s, r)

GoodAt(c) == Good(conn[c], session[c], work[c], accepted[c], ran[c])

Functions ==
    /\ conn = [c \in Conns |-> conn[c]] /\ session = [c \in Conns |-> session[c]]
    /\ work = [c \in Conns |-> work[c]] /\ accepted = [c \in Conns |-> accepted[c]]
    /\ ran = [c \in Conns |-> ran[c]]

IInv == Functions /\ \A c \in Conns : GoodAt(c)

-----------------------------------------------------------------------------
(* The end of a concatenation can be dropped. *)
LEMMA EndDropped ==
    ASSUME NEW S, NEW x \in Seq(S), NEW z \in Seq(S)
    PROVE  SubSeq(x \o z, 1, Len(x \o z) - Len(z)) = x
  OBVIOUS

(* A new session is good. *)
LEMMA NewIsGood ==
    \A k \in {"closed", "ready"} : Good(k, NewSession, <<>>, <<>>, <<>>)
<1> SUFFICES ASSUME NEW k \in {"closed", "ready"}
             PROVE  Good(k, NewSession, <<>>, <<>>, <<>>)
  OBVIOUS
<1>1. Shaped(k, NewSession, <<>>, <<>>, <<>>)
  BY SessionAssumption DEF Shaped, NewSession, Sessions
<1>2. Settled(k, NewSession, <<>>) /\ Guarded(NewSession, <<>>, <<>>)
  <2>1. Settled(k, NewSession, <<>>)
    BY DEF Settled, NewSession
  <2>2. ~NewSession.inMulti /\ (PasswordSet => ~NewSession.authed)
    BY DEF NewSession
  <2> QED
    BY <2>1, <2>2 DEF Guarded
<1>3. <<>> = Commands(<<>>) \o <<>> \o NewSession.queued
  BY DEF Commands, NewSession
<1>4. Selected(NewSession, <<>>)
  BY DEF Selected, InForce, Selects, NewSession
<1> QED
  BY <1>1, <1>2, <1>3, <1>4 DEF Good

(* What appending one executed command does to the log. *)
LEMMA AppendedLog ==
    ASSUME NEW r \in Seq(Ran), NEW cmd \in Cmds, NEW db \in DBs
    PROVE  LET q == Append(r, [cmd |-> cmd, db |-> db]) IN
           /\ q \in Seq(Ran)
           /\ Len(q) = Len(r) + 1
           /\ DOMAIN q = 1..(Len(r) + 1) /\ DOMAIN r = 1..Len(r)
           /\ \A i \in DOMAIN r : q[i] = r[i]
           /\ q[Len(r) + 1] = [cmd |-> cmd, db |-> db]
           /\ Commands(q) = Append(Commands(r), cmd)
           /\ Commands(r) \in Seq(Cmds)
<1> DEFINE e == [cmd |-> cmd, db |-> db]
           q == Append(r, e)
<1>1. e \in Ran
  BY DEF Ran
<1>2. /\ q \in Seq(Ran) /\ Len(q) = Len(r) + 1
      /\ DOMAIN q = 1..(Len(r) + 1) /\ DOMAIN r = 1..Len(r)
      /\ \A i \in DOMAIN r : q[i] = r[i]
      /\ q[Len(r) + 1] = e
  BY <1>1
<1>3. Commands(r) \in Seq(Cmds) /\ Len(Commands(r)) = Len(r)
  <2>1. \A i \in 1..Len(r) : r[i].cmd \in Cmds
    <3>1. \A i \in 1..Len(r) : r[i] \in Ran
      OBVIOUS
    <3> QED
      BY <3>1 DEF Ran
  <2>2. Len(r) \in Nat /\ Commands(r) = [i \in 1..Len(r) |-> r[i].cmd]
    BY <1>2 DEF Commands
  <2> HIDE DEF q
  <2> QED
    BY <2>1, <2>2
<1>4. Commands(q) = Append(Commands(r), cmd)
  BY <1>2, <1>3 DEF Commands
<1> QED
  BY <1>2, <1>3, <1>4

(* Running a command keeps the databases right: it runs in the database in *)
(* force, and afterwards the one it selects, if any, is in force.          *)
LEMMA RunSelects ==
    ASSUME NEW r \in Seq(Ran), NEW cmd \in Cmds, NEW s \in Sessions,
           Selected(s, r)
    PROVE  Selected(Effect(s, cmd), Append(r, [cmd |-> cmd, db |-> s.db]))
<1> DEFINE e == [cmd |-> cmd, db |-> s.db]
           q == Append(r, e)
           n == Len(r)
<1>1. s.db \in DBs /\ n \in Nat
  BY DEF Sessions
<1>2. /\ Len(q) = n + 1 /\ DOMAIN q = 1..(n + 1) /\ DOMAIN r = 1..n
      /\ \A i \in DOMAIN r : q[i] = r[i]
      /\ q[n + 1] = e
  BY <1>1, AppendedLog
<1> HIDE DEF q, n
<1>3. \A i \in 1..(n + 1) : Selects(q, i) = Selects(r, i)
  BY <1>1, <1>2 DEF Selects
<1>4. \A i \in 1..(n + 1) : \A d : InForce(q, i, d) <=> InForce(r, i, d)
  <2> SUFFICES ASSUME NEW i \in 1..(n + 1), NEW d
               PROVE  InForce(q, i, d) <=> InForce(r, i, d)
    OBVIOUS
  <2>1. Selects(q, i) = Selects(r, i)
    BY <1>3
  <2>2. \A j \in Selects(r, i) : q[j] = r[j]
    BY <1>2 DEF Selects
  <2> QED
    BY <2>1, <2>2 DEF InForce
<1>5. \A i \in DOMAIN q : InForce(q, i, q[i].db)
  <2> SUFFICES ASSUME NEW i \in 1..(n + 1) PROVE InForce(q, i, q[i].db)
    BY <1>2
  <2>1. CASE i \in 1..n
    BY <2>1, <1>2, <1>4 DEF Selected
  <2>2. CASE i = n + 1
    BY <2>2, <1>1, <1>2, <1>4 DEF Selected, n
  <2> QED
    BY <2>1, <2>2, <1>1
<1>6. InForce(q, (n + 1) + 1, Effect(s, cmd).db)
  <2>1. CASE cmd.name = "SELECT"
    <3>1. Effect(s, cmd).db = cmd.db
      BY <2>1 DEF Effect, Sessions
    <3>2. n + 1 \in Selects(q, (n + 1) + 1)
      BY <2>1, <1>1, <1>2 DEF Selects
    <3>3. \A k \in Selects(q, (n + 1) + 1) : k <= n + 1
      BY <1>1, <1>2 DEF Selects
    <3> QED
      BY <3>1, <3>2, <3>3, <1>2 DEF InForce
  <2>2. CASE cmd.name # "SELECT"
    <3>1. Effect(s, cmd).db = s.db
      BY <2>2 DEF Effect, Sessions
    <3>2. Selects(q, (n + 1) + 1) = Selects(q, n + 1)
      BY <2>2, <1>1, <1>2 DEF Selects
    <3>3. InForce(q, n + 1, s.db)
      BY <1>1, <1>4 DEF Selected, n
    <3> QED
      BY <3>1, <3>2, <3>3 DEF InForce
  <2> QED
    BY <2>1, <2>2
<1> QED
  BY <1>2, <1>5, <1>6 DEF Selected, q

(* A command changes the session to a session, never takes authentication  *)
(* away and leaves MULTI and its queue alone.                              *)
LEMMA EffectType ==
    ASSUME NEW s \in Sessions, NEW cmd \in Cmds
    PROVE  /\ Effect(s, cmd) \in Sessions
           /\ s.authed => Effect(s, cmd).authed
           /\ cmd.name # "AUTH" => Effect(s, cmd).authed = s.authed
           /\ Effect(s, cmd).inMulti = s.inMulti
           /\ Effect(s, cmd).queued = s.queued
<1>1. cmd.name = "SELECT" => cmd.db \in DBs
  BY DEF Cmds, Plain, Control
<1>2. CASE cmd.name = "AUTH"
  <2>1. Effect(s, cmd) = [s EXCEPT !.authed = s.authed \/ PasswordSet]
    BY <1>2 DEF Effect
  <2>2. (s.authed \/ PasswordSet) \in BOOLEAN
    OBVIOUS
  <2> QED
    BY <2>1, <2>2, <1>2 DEF Sessions
<1>3. CASE cmd.name = "SELECT"
  <2>1. Effect(s, cmd) = [s EXCEPT !.db = cmd.db]
    BY <1>3 DEF Effect
  <2> QED
    BY <2>1, <1>1, <1>3 DEF Sessions
<1>4. CASE cmd.name \notin {"AUTH", "SELECT"}
  BY <1>4 DEF Effect
<1> QED
  BY <1>2, <1>3, <1>4

(* Running a command that the session may run. *)
LEMMA RunKeepsGood ==
    ASSUME NEW k \in {"ready", "exec"}, NEW s \in Sessions, NEW cmd \in Cmds,
           NEW w \in Seq(Cmds), NEW a \in Seq(Cmds), NEW r \in Seq(Ran),
           Settled(k, s, w), Guarded(s, w, r), Selected(s, r),
           PasswordSet /\ ~s.authed => cmd.name \in Open,
           a = Commands(Append(r, [cmd |-> cmd, db |-> s.db])) \o w \o s.queued
    PROVE  Good(k, Effect(s, cmd), w, a, Append(r, [cmd |-> cmd, db |-> s.db]))
<1> DEFINE t == Effect(s, cmd)
           q == Append(r, [cmd |-> cmd, db |-> s.db])
<1>1. s.db \in DBs
  BY DEF Sessions
<1>2. /\ t \in Sessions /\ (s.authed => t.authed)
      /\ t.inMulti = s.inMulti /\ t.queued = s.queued
  BY EffectType
<1>3. /\ q \in Seq(Ran) /\ Len(r) \in Nat
      /\ DOMAIN q = 1..(Len(r) + 1) /\ DOMAIN r = 1..Len(r)
      /\ \A i \in DOMAIN r : q[i] = r[i]
      /\ q[Len(r) + 1].cmd = cmd
  BY <1>1, AppendedLog
<1>4. Selected(t, q)
  BY RunSelects
<1> HIDE DEF t, q
<1>5. Shaped(k, t, w, a, q)
  BY <1>2, <1>3 DEF Shaped
<1>6. Settled(k, t, w)
  BY <1>2 DEF Settled
<1>7. Guarded(t, w, q)
  <2> SUFFICES ASSUME PasswordSet
               PROVE  /\ ~t.authed => ~t.inMulti /\ w = <<>>
                      /\ t.authed => AuthBefore(q, Len(q) + 1)
                      /\ \A i \in DOMAIN q : q[i].cmd.name \in Open \/ AuthBefore(q, i)
    BY DEF Guarded
  <2>1. \A i \in 1..(Len(r) + 1) : AuthBefore(r, i) => AuthBefore(q, i)
    BY <1>3 DEF AuthBefore
  <2>2. Len(q) = Len(r) + 1 /\ Len(r) + 1 \in DOMAIN q
    BY <1>3
  <2>3. ~t.authed => ~t.inMulti /\ w = <<>>
    BY <1>2 DEF Guarded
  <2>4. t.authed => AuthBefore(q, Len(q) + 1)
    <3>1. CASE s.authed
      <4>1. AuthBefore(r, Len(r) + 1)
        BY <3>1 DEF Guarded
      <4> QED
        BY <4>1, <1>3, <2>2 DEF AuthBefore
    <3>2. CASE ~s.authed /\ cmd.name = "AUTH"
      BY <3>2, <1>3, <2>2 DEF AuthBefore
    <3>3. CASE ~s.authed /\ cmd.name # "AUTH"
      BY <3>3, EffectType DEF t
    <3> QED
      BY <3>1, <3>2, <3>3
  <2>5. \A i \in DOMAIN q : q[i].cmd.name \in Open \/ AuthBefore(q, i)
    <3> SUFFICES ASSUME NEW i \in DOMAIN q
                 PROVE  q[i].cmd.name \in Open \/ AuthBefore(q, i)
      OBVIOUS
    <3>1. CASE i \in DOMAIN r
      BY <3>1, <1>3, <2>1 DEF Guarded
    <3>2. CASE i = Len(r) + 1 /\ cmd.name \in Open
      BY <3>2, <1>3
    <3>3. CASE i = Len(r) + 1 /\ cmd.name \notin Open
      <4>1. AuthBefore(r, Len(r) + 1)
        BY <3>3 DEF Guarded
      <4> QED
        BY <3>3, <4>1, <1>3, <2>1
    <3> QED
      BY <3>1, <3>2, <3>3, <1>3
  <2> QED
    BY <2>3, <2>4, <2>5
<1>8. a = Commands(q) \o w \o t.queued
  BY <1>2 DEF q
<1> QED
  BY <1>4, <1>5, <1>6, <1>7, <1>8 DEF Good, t, q

-----------------------------------------------------------------------------
(* An action changes one connection: if that one stays good, IInv holds. *)
LEMMA OneConnection ==
    ASSUME IInv, NEW c \in Conns, NEW k, NEW s, NEW w, NEW a, NEW r,
           conn' = [conn EXCEPT ![c] = k], session' = [session EXCEPT ![c] = s],
           work' = [work EXCEPT ![c] = w], accepted' = [accepted EXCEPT ![c] = a],
           ran' = [ran EXCEPT ![c] = r],
           Good(k, s, w, a, r)
    PROVE  IInv'
<1>1. Functions'
  BY DEF IInv, Functions
<1>2. ASSUME NEW d \in Conns PROVE GoodAt(d)'
  <2>1. CASE d = c
    <3>1. conn'[d] = k /\ session'[d] = s /\ work'[d] = w /\ accepted'[d] = a /\ ran'[d] = r
      BY <2>1 DEF IInv, Functions
    <3> QED
      BY <3>1 DEF GoodAt
  <2>2. CASE d # c
    <3>1. /\ conn'[d] = conn[d] /\ session'[d] = session[d] /\ work'[d] = work[d]
          /\ accepted'[d] = accepted[d] /\ ran'[d] = ran[d]
      BY <2>2 DEF IInv, Functions
    <3>2. GoodAt(d)
      BY DEF IInv
    <3> QED
      BY <3>1, <3>2 DEF GoodAt
  <2> QED
    BY <2>1, <2>2
<1> QED
  BY <1>1, <1>2 DEF IInv

(* Every variable is its own update at a place it does not change. *)
LEMMA SameAt ==
    ASSUME IInv, NEW c \in Conns
    PROVE  /\ conn = [conn EXCEPT ![c] = conn[c]]
           /\ session = [session EXCEPT ![c] = session[c]]
           /\ work = [work EXCEPT ![c] = work[c]]
           /\ accepted = [accepted EXCEPT ![c] = accepted[c]]
           /\ ran = [ran EXCEPT ![c] = ran[c]]
  BY DEF IInv, Functions

(* Facts of a good connection. *)
LEMMA GoodFacts ==
    ASSUME NEW k, NEW s, NEW w, NEW a, NEW r, Good(k, s, w, a, r)
    PROVE  /\ s \in Sessions /\ s.queued \in Seq(Cmds) /\ s.inMulti \in BOOLEAN
           /\ s.db \in DBs
           /\ w \in Seq(Cmds) /\ a \in Seq(Cmds) /\ r \in Seq(Ran)
           /\ Commands(r) \in Seq(Cmds)
<1>1. s \in Sessions /\ w \in Seq(Cmds) /\ a \in Seq(Cmds) /\ r \in Seq(Ran)
  BY DEF Good, Shaped
<1>2. [name |-> "PING", db |-> 0] \in Cmds
  BY DEF Cmds, Plain, Control
<1>3. Commands(r) \in Seq(Cmds)
  BY <1>1, <1>2, AppendedLog, SessionAssumption
<1> QED
  BY <1>1, <1>3 DEF Sessions

(* Queueing, MULTI and DISCARD replace the MULTI state and the queue of a  *)
(* session that is authenticated.                                          *)
LEMMA RequeueKeepsGood ==
    ASSUME NEW k0, NEW s, NEW w, NEW a0, NEW r, Good(k0, s, w, a0, r),
           NEW q \in Seq(Cmds), NEW m \in BOOLEAN, NEW k \in {"ready", "exec"},
           NEW v \in Seq(Cmds), NEW a \in Seq(Cmds),
           NEW t, t = [s EXCEPT !.inMulti = m, !.queued = q],
           PasswordSet => s.authed,
           k # "exec" => v = <<>>,
           ~m => q = <<>>,
           a = Commands(r) \o v \o q
    PROVE  Good(k, t, v, a, r)
<1>1. s \in Sessions /\ r \in Seq(Ran) /\ Guarded(s, w, r) /\ Selected(s, r)
  BY DEF Good, Shaped
<1>2. /\ t \in Sessions
      /\ t.queued = q /\ t.inMulti = m /\ t.authed = s.authed /\ t.db = s.db
  BY <1>1 DEF Sessions
<1>3. Shaped(k, t, v, a, r)
  BY <1>1, <1>2 DEF Shaped
<1>4. Settled(k, t, v) /\ Guarded(t, v, r) /\ Selected(t, r)
  BY <1>1, <1>2 DEF Settled, Guarded, Selected
<1> QED
  BY <1>2, <1>3, <1>4 DEF Good

-----------------------------------------------------------------------------
(* One lemma per action *)

LEMMA QueueKeeps ==
    ASSUME IInv, NEW c \in Conns, NEW cmd \in Cmds, Queue(c, cmd) PROVE IInv'
<1>1. PICK k, s, w, a, r : /\ k = conn[c] /\ s = session[c] /\ w = work[c]
                           /\ a = accepted[c] /\ r = ran[c]
  OBVIOUS
<1> DEFINE q == Append(s.queued, cmd)
           t == [s EXCEPT !.inMulti = s.inMulti, !.queued = q]
           b == Append(a, cmd)
<1>2. Good(k, s, w, a, r)
  BY <1>1 DEF IInv, GoodAt
<1>3. s.inMulti /\ k = "ready"
  BY <1>1 DEF Queue, Receives
<1>4. w = <<>> /\ (PasswordSet => s.authed)
  BY <1>2, <1>3 DEF Good, Settled, Guarded
<1>5. q \in Seq(Cmds) /\ b \in Seq(Cmds)
  <2>1. s.queued \in Seq(Cmds) /\ a \in Seq(Cmds)
    BY <1>2, GoodFacts
  <2> QED
    BY <2>1
<1>6. b = Commands(r) \o w \o q
  <2>1. Commands(r) \in Seq(Cmds) /\ w \in Seq(Cmds) /\ s.queued \in Seq(Cmds)
    BY <1>2, GoodFacts
  <2>2. a = Commands(r) \o w \o s.queued
    BY <1>2 DEF Good
  <2>3. PICK x, z : x = Commands(r) \o w /\ z = s.queued
    OBVIOUS
  <2>4. x \in Seq(Cmds) /\ z \in Seq(Cmds)
    BY <2>1, <2>3
  <2>5. Append(x \o z, cmd) = x \o Append(z, cmd)
    BY <2>4
  <2> QED
    BY <2>2, <2>3, <2>5
<1>7. [s EXCEPT !.queued = q] = t
  BY <1>2, GoodFacts DEF Sessions
<1>8. Good(k, t, w, b, r)
  <2>1. s.inMulti \in BOOLEAN /\ w \in Seq(Cmds)
    BY <1>2, GoodFacts
  <2> HIDE DEF q, b, t
  <2>2. t = [s EXCEPT !.inMulti = s.inMulti, !.queued = q]
    BY DEF t
  <2> QED
    BY <1>2, <1>3, <1>4, <1>5, <1>6, <2>1, <2>2, RequeueKeepsGood
<1>9. /\ conn' = [conn EXCEPT ![c] = k] /\ session' = [session EXCEPT ![c] = t]
      /\ work' = [work EXCEPT ![c] = w] /\ accepted' = [accepted EXCEPT ![c] = b]
      /\ ran' = [ran EXCEPT ![c] = r]
  BY <1>1, <1>7, SameAt DEF Queue
<1> QED
  BY <1>8, <1>9, OneConnection

LEMMA ExecuteKeeps ==
    ASSUME IInv, NEW c \in Conns, NEW cmd \in Cmds, Execute(c, cmd) PROVE IInv'
<1>1. PICK k, s, w, a, r : /\ k = conn[c] /\ s = session[c] /\ w = work[c]
                           /\ a = accepted[c] /\ r = ran[c]
  OBVIOUS
<1> DEFINE q == Append(r, [cmd |-> cmd, db |-> s.db])
           b == Append(a, cmd)
<1>2. Good(k, s, w, a, r)
  BY <1>1 DEF IInv, GoodAt
<1>3. ~s.inMulti /\ k = "ready" /\ (PasswordSet /\ ~s.authed => cmd.name \in Open)
  BY <1>1 DEF Execute, Receives, Refused
<1>4. w = <<>> /\ s.queued = <<>>
  BY <1>2, <1>3 DEF Good, Settled
<1>5. Commands(q) = Append(Commands(r), cmd)
  BY <1>2, GoodFacts, AppendedLog
<1>6. b \in Seq(Cmds) /\ b = Commands(q) \o w \o s.queued
  <2>1. Commands(r) \in Seq(Cmds) /\ a \in Seq(Cmds)
    BY <1>2, GoodFacts
  <2>2. a = Commands(r) \o w \o s.queued
    BY <1>2 DEF Good
  <2> HIDE DEF q
  <2> QED
    BY <1>4, <1>5, <2>1, <2>2
<1>7. Good(k, Effect(s, cmd), w, b, q)
  <2>1. /\ s \in Sessions /\ w \in Seq(Cmds) /\ r \in Seq(Ran)
        /\ Settled(k, s, w) /\ Guarded(s, w, r) /\ Selected(s, r)
    BY <1>2 DEF Good, Shaped
  <2> HIDE DEF b
  <2> QED
    BY <1>3, <1>6, <2>1, RunKeepsGood
<1>8. /\ conn' = [conn EXCEPT ![c] = k] /\ session' = [session EXCEPT ![c] = Effect(s, cmd)]
      /\ work' = [work EXCEPT ![c] = w] /\ accepted' = [accepted EXCEPT ![c] = b]
      /\ ran' = [ran EXCEPT ![c] = q]
  BY <1>1, SameAt DEF Execute, Run
<1> QED
  BY <1>7, <1>8, OneConnection

LEMMA MultiKeeps ==
    ASSUME IInv, NEW c \in Conns, Multi(c) PROVE IInv'
<1>1. PICK k, s, w, a, r : /\ k = conn[c] /\ s = session[c] /\ w = work[c]
                           /\ a = accepted[c] /\ r = ran[c]
  OBVIOUS
<1>2. PICK t : t = [s EXCEPT !.inMulti = TRUE, !.queued = <<>>]
  OBVIOUS
<1>3. Good(k, s, w, a, r)
  BY <1>1 DEF IInv, GoodAt
<1>4. ~s.inMulti /\ k = "ready" /\ (PasswordSet => s.authed)
  BY <1>1 DEF Multi, Receives, Refused, Open
<1>5. /\ w = <<>> /\ s.queued = <<>>
      /\ w \in Seq(Cmds) /\ a \in Seq(Cmds) /\ a = Commands(r) \o w \o <<>>
  BY <1>3, <1>4, GoodFacts DEF Good, Settled
<1>6. Good(k, t, w, a, r)
  BY <1>2, <1>3, <1>4, <1>5, RequeueKeepsGood
<1>7. /\ conn' = [conn EXCEPT ![c] = k] /\ session' = [session EXCEPT ![c] = t]
      /\ work' = [work EXCEPT ![c] = w] /\ accepted' = [accepted EXCEPT ![c] = a]
      /\ ran' = [ran EXCEPT ![c] = r]
  BY <1>1, <1>2, SameAt DEF Multi, IInv, Functions
<1> QED
  BY <1>6, <1>7, OneConnection

LEMMA DiscardKeeps ==
    ASSUME IInv, NEW c \in Conns, Discard(c) PROVE IInv'
<1>1. PICK k, s, w, a, r : /\ k = conn[c] /\ s = session[c] /\ w = work[c]
                           /\ a = accepted[c] /\ r = ran[c]
  OBVIOUS
<1>2. PICK t : t = [s EXCEPT !.inMulti = FALSE, !.queued = <<>>]
  OBVIOUS
<1>3. PICK x : x = Commands(r) \o w
  OBVIOUS
<1>4. Good(k, s, w, a, r)
  BY <1>1 DEF IInv, GoodAt
<1>5. k = "ready" /\ (PasswordSet => s.authed)
  BY <1>1 DEF Discard, Receives, Refused, Open
<1>6. w = <<>>
  BY <1>4, <1>5 DEF Good, Settled
<1>7. /\ x \in Seq(Cmds) /\ w \in Seq(Cmds) /\ s.queued \in Seq(Cmds)
      /\ a = x \o s.queued /\ x = Commands(r) \o w \o <<>>
  <2>1. Commands(r) \in Seq(Cmds) /\ w \in Seq(Cmds) /\ s.queued \in Seq(Cmds)
    BY <1>4, GoodFacts
  <2>2. a = Commands(r) \o w \o s.queued
    BY <1>4 DEF Good
  <2> QED
    BY <1>3, <2>1, <2>2
<1>8. SubSeq(a, 1, Len(a) - Len(s.queued)) = x
  BY <1>7, EndDropped
<1>9. Good(k, t, w, x, r)
  BY <1>2, <1>4, <1>5, <1>6, <1>7, RequeueKeepsGood
<1>10. /\ conn' = [conn EXCEPT ![c] = k] /\ session' = [session EXCEPT ![c] = t]
       /\ work' = [work EXCEPT ![c] = w] /\ accepted' = [accepted EXCEPT ![c] = x]
       /\ ran' = [ran EXCEPT ![c] = r]
  BY <1>1, <1>2, <1>8, SameAt DEF Discard, IInv, Functions
<1> QED
  BY <1>9, <1>10, OneConnection

LEMMA ExecKeeps ==
    ASSUME IInv, NEW c \in Conns, Exec(c) PROVE IInv'
<1>1. PICK k, s, w, a, r : /\ k = conn[c] /\ s = session[c] /\ w = work[c]
                           /\ a = accepted[c] /\ r = ran[c]
  OBVIOUS
<1>2. PICK t : t = [s EXCEPT !.inMulti = FALSE, !.queued = <<>>]
  OBVIOUS
<1>3. PICK v : v = s.queued
  OBVIOUS
<1>4. Good(k, s, w, a, r)
  BY <1>1 DEF IInv, GoodAt
<1>5. k = "ready" /\ (PasswordSet => s.authed)
  BY <1>1 DEF Exec, Receives, Refused, Open
<1>6. w = <<>>
  BY <1>4, <1>5 DEF Good, Settled
<1>7. v \in Seq(Cmds) /\ a \in Seq(Cmds) /\ a = Commands(r) \o v \o <<>>
  <2>1. Commands(r) \in Seq(Cmds) /\ v \in Seq(Cmds) /\ a \in Seq(Cmds)
    BY <1>3, <1>4, GoodFacts
  <2>2. a = Commands(r) \o w \o s.queued
    BY <1>4 DEF Good
  <2> QED
    BY <1>3, <1>6, <2>1, <2>2
<1>8. Good("exec", t, v, a, r)
  <2>1. s \in Sessions /\ r \in Seq(Ran) /\ Guarded(s, w, r) /\ Selected(s, r)
    BY <1>4 DEF Good, Shaped
  <2>2. /\ t \in Sessions
        /\ t.queued = <<>> /\ ~t.inMulti /\ t.authed = s.authed /\ t.db = s.db
    <3>0. <<>> \in Seq(Cmds)
      OBVIOUS
    <3>1. PICK m \in BOOLEAN : ~m
      OBVIOUS
    <3> DEFINE q == <<>>
    <3>2. t = [s EXCEPT !.inMulti = m, !.queued = q]
      <4>1. m = FALSE
        BY <3>1
      <4> QED
        BY <1>2, <4>1
    <3>3. t \in Sessions /\ t.queued = q /\ t.inMulti = m /\ t.authed = s.authed /\ t.db = s.db
      BY <2>1, <3>0, <3>2 DEF Sessions
    <3> QED
      BY <3>1, <3>3
  <2>3. Shaped("exec", t, v, a, r)
    BY <1>7, <2>1, <2>2 DEF Shaped
  <2>4. Settled("exec", t, v) /\ Guarded(t, v, r) /\ Selected(t, r)
    BY <1>5, <2>1, <2>2 DEF Settled, Guarded, Selected
  <2> QED
    BY <1>7, <2>2, <2>3, <2>4 DEF Good
<1>9. /\ conn' = [conn EXCEPT ![c] = "exec"] /\ session' = [session EXCEPT ![c] = t]
      /\ work' = [work EXCEPT ![c] = v] /\ accepted' = [accepted EXCEPT ![c] = a]
      /\ ran' = [ran EXCEPT ![c] = r]
  BY <1>1, <1>2, <1>3, SameAt DEF Exec, IInv, Functions
<1> QED
  BY <1>8, <1>9, OneConnection

LEMMA ExecOneKeeps ==
    ASSUME IInv, NEW c \in Conns, ExecOne(c) PROVE IInv'
<1>1. PICK k, s, w, a, r : /\ k = conn[c] /\ s = session[c] /\ w = work[c]
                           /\ a = accepted[c] /\ r = ran[c]
  OBVIOUS
<1>2. PICK cmd, v : cmd = Head(w) /\ v = Tail(w)
  OBVIOUS
<1> DEFINE q == Append(r, [cmd |-> cmd, db |-> s.db])
<1>3. Good(k, s, w, a, r)
  BY <1>1 DEF IInv, GoodAt
<1>4. k = "exec" /\ w # <<>>
  BY <1>1 DEF ExecOne
<1>5. /\ cmd \in Cmds /\ v \in Seq(Cmds) /\ s.db \in DBs /\ s \in Sessions
      /\ r \in Seq(Ran) /\ a \in Seq(Cmds)
  <2>1. /\ w \in Seq(Cmds) /\ s.db \in DBs /\ s \in Sessions
        /\ r \in Seq(Ran) /\ a \in Seq(Cmds)
    BY <1>3, GoodFacts
  <2> QED
    BY <1>2, <1>4, <2>1
<1>6. PasswordSet => s.authed
  BY <1>3, <1>4 DEF Good, Guarded
<1>7. Commands(q) = Append(Commands(r), cmd)
  BY <1>5, AppendedLog
<1>8. a = Commands(q) \o v \o s.queued
  <2>1. Commands(r) \in Seq(Cmds) /\ w \in Seq(Cmds) /\ s.queued \in Seq(Cmds)
    BY <1>3, GoodFacts
  <2>2. a = Commands(r) \o w \o s.queued
    BY <1>3 DEF Good
  <2>3. PICK x, z : x = Commands(r) /\ z = s.queued
    OBVIOUS
  <2>4. Append(x, Head(w)) \o Tail(w) \o z = x \o w \o z
    <3>1. x \in Seq(Cmds) /\ w \in Seq(Cmds) /\ z \in Seq(Cmds) /\ w # <<>>
      BY <1>4, <2>1, <2>3
    <3> QED
      BY <3>1
  <2> HIDE DEF q
  <2> QED
    BY <1>2, <1>7, <2>2, <2>3, <2>4
<1>9. Good(k, Effect(s, cmd), v, a, q)
  <2>1. Settled(k, s, v) /\ Guarded(s, v, r) /\ Selected(s, r)
    BY <1>3, <1>4, <1>6 DEF Good, Settled, Guarded
  <2> QED
    BY <1>4, <1>5, <1>6, <1>8, <2>1, RunKeepsGood
<1>10. /\ conn' = [conn EXCEPT ![c] = k] /\ session' = [session EXCEPT ![c] = Effect(s, cmd)]
       /\ work' = [work EXCEPT ![c] = v] /\ accepted' = [accepted EXCEPT ![c] = a]
       /\ ran' = [ran EXCEPT ![c] = q]
  BY <1>1, <1>2, SameAt DEF ExecOne, Run
<1> QED
  BY <1>9, <1>10, OneConnection

LEMMA StateKeeps ==
    ASSUME IInv, NEW c \in Conns, ExecDone(c) \/ Close(c) PROVE IInv'
<1>1. PICK k \in {"ready", "closed"} : conn' = [conn EXCEPT ![c] = k]
  BY DEF ExecDone, Close
<1>2. Good(conn[c], session[c], work[c], accepted[c], ran[c])
  BY DEF IInv, GoodAt
<1>3. work[c] = <<>>
  BY <1>2 DEF ExecDone, Close, Good, Settled
<1>4. Good(k, session[c], work[c], accepted[c], ran[c])
  BY <1>1, <1>2, <1>3 DEF Good, Shaped, Settled
<1>5. /\ session' = [session EXCEPT ![c] = session[c]]
      /\ work' = [work EXCEPT ![c] = work[c]] /\ accepted' = [accepted EXCEPT ![c] = accepted[c]]
      /\ ran' = [ran EXCEPT ![c] = ran[c]]
  BY SameAt DEF ExecDone, Close
<1> QED
  BY <1>1, <1>4, <1>5, OneConnection

LEMMA ConnectKeeps ==
    ASSUME IInv, NEW c \in Conns, Connect(c) PROVE IInv'
  BY NewIsGood, OneConnection DEF Connect

-----------------------------------------------------------------------------
(* The inductive invariant follows from the initial state and is kept by   *)
(* every step of the sessions.                                             *)
LEMMA InitIInv == SessionInit => IInv
  BY NewIsGood DEF SessionInit, IInv, Functions, GoodAt

LEMMA NextIInv == IInv /\ [SessionNext]_sessionVars => IInv'
<1> SUFFICES ASSUME IInv, [SessionNext]_sessionVars PROVE IInv'
  OBVIOUS
<1>1. CASE UNCHANGED sessionVars
  BY <1>1 DEF sessionVars, IInv, Functions, GoodAt
<1>2. ASSUME NEW c \in Conns, Connect(c) \/ Close(c) \/ Command(c) PROVE IInv'
  BY <1>2, ConnectKeeps, StateKeeps, QueueKeeps, ExecuteKeeps, MultiKeeps, DiscardKeeps,
     ExecKeeps, ExecOneKeeps DEF Command
<1> QED
  BY <1>1, <1>2 DEF SessionNext

THEOREM Invariance == SessionSpec => []IInv
<1> QED
  BY InitIInv, NextIInv, PTL DEF SessionSpec

LEMMA IInvImplies == IInv => TypeOK /\ AuthBeforeData /\ NothingLost /\ SelectedDatabase
<1> SUFFICES ASSUME IInv PROVE TypeOK /\ AuthBeforeData /\ NothingLost /\ SelectedDatabase
  OBVIOUS
<1>1. TypeOK
  BY DEF IInv, Functions, GoodAt, Good, Shaped, TypeOK, Ran
<1>2. AuthBeforeData
  BY DEF IInv, GoodAt, Good, AuthBeforeData, Guarded, AuthBefore
<1>3. NothingLost
  BY DEF IInv, GoodAt, Good, NothingLost
<1>4. SelectedDatabase
  BY DEF IInv, GoodAt, Good, SelectedDatabase, Selected
<1> QED
  BY <1>1, <1>2, <1>3, <1>4

(* The types of the session state. *)
THEOREM TypeCorrect == SessionSpec => []TypeOK
  BY Invariance, IInvImplies, PTL

(* No command but the open ones runs before authentication, for any        *)
(* sequence of AUTH, MULTI, EXEC and DISCARD (Router.Handle and execute).  *)
THEOREM AuthenticationHolds == SessionSpec => []AuthBeforeData
  BY Invariance, IInvImplies, PTL

(* The queue of MULTI and the loop of EXEC run every accepted command once *)
(* and in order.                                                           *)
THEOREM QueueIsExact == SessionSpec => []NothingLost
  BY Invariance, IInvImplies, PTL

(* Every command runs in the database last selected on its connection. *)
THEOREM DatabaseIsSelected == SessionSpec => []SelectedDatabase
  BY Invariance, IInvImplies, PTL

=============================================================================
