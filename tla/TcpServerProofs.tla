-------------------------- MODULE TcpServerProofs ---------------------------
(***************************************************************************)
(* The server runs the sessions of module Session and nothing else, so     *)
(* their theorems hold of it; and its semaphore counts the handlers, for   *)
(* any number of connections and any limit.                                *)
(*                                                                         *)
(* The second needs to know which connections may be admitted: the one     *)
(* Accept returned has no handler yet, and a handler that is leaving has   *)
(* closed its connection, so that it is counted once.                      *)
(***************************************************************************)
EXTENDS TcpServer, SessionProofs, FiniteSetTheorems

States == {"closed", "ready", "exec"}

HandlersKnown ==
    /\ conn \in [Conns -> States]
    /\ leaving \subseteq Conns /\ incoming \subseteq Conns
    /\ \A c \in leaving : conn[c] = "closed"

IncomingIsNew == \A c \in incoming : conn[c] = "closed" /\ c \notin leaving

ServerInv == HandlersKnown /\ IncomingIsNew /\ SlotsCounted

-----------------------------------------------------------------------------
(* What the steps of the sessions do to the state of a connection. *)
LEMMA CommandKeepsOpen ==
    ASSUME NEW c \in Conns, conn \in [Conns -> States], Command(c)
    PROVE  /\ conn' \in [Conns -> States]
           /\ \A d \in Conns : conn'[d] = "closed" <=> conn[d] = "closed"
<1>1. conn' = conn \/ \E k \in {"ready", "exec"} : conn[c] # "closed" /\ conn' = [conn EXCEPT ![c] = k]
  <2>1. (\E cmd \in Cmds : Queue(c, cmd) \/ Execute(c, cmd)) => conn' = conn
    BY DEF Queue, Execute
  <2>2. Multi(c) \/ Discard(c) \/ ExecOne(c) => conn' = conn
    BY DEF Multi, Discard, ExecOne
  <2>3. Exec(c) => conn[c] # "closed" /\ conn' = [conn EXCEPT ![c] = "exec"]
    BY DEF Exec, Receives
  <2>4. ExecDone(c) => conn[c] # "closed" /\ conn' = [conn EXCEPT ![c] = "ready"]
    BY DEF ExecDone
  <2> QED
    BY <2>1, <2>2, <2>3, <2>4 DEF Command
<1> QED
  BY <1>1 DEF States

LEMMA HandlersFinite ==
    ASSUME HandlersKnown
    PROVE  IsFiniteSet(Handlers) /\ Cardinality(Handlers) \in Nat
  BY ServerAssumption, FS_Subset, FS_CardinalityType DEF Handlers, HandlersKnown

(* Steps that leave connections, handlers and slots alone. *)
LEMMA FrameKeeps ==
    ASSUME ServerInv, UNCHANGED <<conn, leaving, sem>>,
           incoming' \in {incoming, {}}
    PROVE  ServerInv'
  BY DEF ServerInv, HandlersKnown, IncomingIsNew, SlotsCounted, Handlers

LEMMA AcceptKeeps ==
    ASSUME ServerInv, NEW c \in Conns, Accept(c) PROVE ServerInv'
  BY DEF ServerInv, HandlersKnown, IncomingIsNew, SlotsCounted, Handlers, Accept, sessionVars

LEMMA AdmitKeeps ==
    ASSUME ServerInv, NEW c \in Conns, Admit(c) PROVE ServerInv'
<1>1. conn' = [conn EXCEPT ![c] = "ready"] /\ leaving' = leaving /\ incoming' = {} /\ c \in incoming
  BY DEF Admit, Connect
<1>2. HandlersKnown' /\ IncomingIsNew'
  BY <1>1 DEF ServerInv, HandlersKnown, IncomingIsNew, States
<1>3. Handlers' = Handlers \cup {c} /\ c \notin Handlers
  BY <1>1 DEF ServerInv, HandlersKnown, IncomingIsNew, Handlers
<1>4. Cardinality(Handlers') = Cardinality(Handlers) + 1
  BY <1>3, HandlersFinite, FS_AddElement DEF ServerInv
<1>5. SlotsCounted'
  BY <1>4, HandlersFinite, ServerAssumption DEF ServerInv, SlotsCounted, Admit, HasSlot, TakeSlot
<1> QED
  BY <1>2, <1>5 DEF ServerInv

LEMMA CommandKeeps ==
    ASSUME ServerInv, NEW c \in Conns, HandleCommand(c) PROVE ServerInv'
<1>1. leaving' = leaving /\ incoming' = incoming /\ sem' = sem /\ Command(c)
  BY DEF HandleCommand, serverVars
<1>2. /\ conn' \in [Conns -> States]
      /\ \A d \in Conns : conn'[d] = "closed" <=> conn[d] = "closed"
  BY <1>1, CommandKeepsOpen DEF ServerInv, HandlersKnown
<1>3. HandlersKnown' /\ IncomingIsNew'
  BY <1>1, <1>2 DEF ServerInv, HandlersKnown, IncomingIsNew
<1>4. Handlers' = Handlers
  BY <1>1, <1>2 DEF Handlers
<1> QED
  BY <1>1, <1>3, <1>4 DEF ServerInv, SlotsCounted

LEMMA ReturnKeeps ==
    ASSUME ServerInv, NEW c \in Conns, HandleReturns(c) PROVE ServerInv'
<1>1. /\ conn[c] = "ready" /\ conn' = [conn EXCEPT ![c] = "closed"]
      /\ leaving' = leaving \cup {c} /\ incoming' = incoming /\ sem' = sem
  BY DEF HandleReturns, Close
<1>2. HandlersKnown' /\ IncomingIsNew'
  BY <1>1 DEF ServerInv, HandlersKnown, IncomingIsNew, States
<1>3. Handlers' = Handlers
  BY <1>1 DEF ServerInv, HandlersKnown, Handlers
<1> QED
  BY <1>1, <1>2, <1>3 DEF ServerInv, SlotsCounted

LEMMA ReleaseKeeps ==
    ASSUME ServerInv, NEW c \in Conns, Release(c) PROVE ServerInv'
<1>1. conn' = conn /\ c \in leaving /\ leaving' = leaving \ {c} /\ incoming' = incoming
  BY DEF Release, sessionVars
<1>2. HandlersKnown' /\ IncomingIsNew'
  BY <1>1 DEF ServerInv, HandlersKnown, IncomingIsNew
<1>3. Handlers' = Handlers \ {c} /\ c \in Handlers
  BY <1>1 DEF ServerInv, HandlersKnown, Handlers
<1>4. Cardinality(Handlers') = Cardinality(Handlers) - 1
  BY <1>3, HandlersFinite, FS_RemoveElement DEF ServerInv
<1>5. SlotsCounted'
  BY <1>4, HandlersFinite, ServerAssumption DEF ServerInv, SlotsCounted, Release, FreeSlot
<1> QED
  BY <1>2, <1>5 DEF ServerInv

LEMMA OthersKeep ==
    ASSUME ServerInv,
           \/ Listen \/ ListenError \/ Publish \/ AcceptError
           \/ \E c \in Conns : Reject(c)
           \/ HttpStep \/ CleanerStep \/ MainStep
    PROVE  ServerInv'
<1>1. UNCHANGED <<conn, leaving, sem>> /\ incoming' \in {incoming, {}}
  BY DEF Listen, ListenError, Publish, AcceptError, Reject, HttpStep, HttpListen, HttpReturns,
         HttpError, CleanerStep, Sweep, SweepEnds, CleanerStops, MainStep, Signal, ShutdownTCP,
         ShutdownHttp, Wait, Exit, sessionVars
<1> QED
  BY <1>1, FrameKeeps

LEMMA ServerInit == Init => ServerInv
<1> SUFFICES ASSUME Init PROVE ServerInv
  OBVIOUS
<1>1. conn \in [Conns -> States] /\ incoming = {} /\ leaving = {} /\ sem = 0
  BY DEF Init, SessionInit, States
<1>2. Handlers = {}
  BY DEF Init, SessionInit, Handlers
<1> QED
  BY <1>1, <1>2, FS_EmptySet, ServerAssumption
  DEF ServerInv, HandlersKnown, IncomingIsNew, SlotsCounted

LEMMA ServerNext == ServerInv /\ [Next]_vars => ServerInv'
<1> SUFFICES ASSUME ServerInv, [Next]_vars PROVE ServerInv'
  OBVIOUS
<1>1. CASE UNCHANGED vars
  BY <1>1, FrameKeeps DEF vars, sessionVars, serverVars
<1>2. CASE ServeStep
  BY <1>2, AcceptKeeps, AdmitKeeps, OthersKeep DEF ServeStep
<1>3. CASE HandlerStep
  BY <1>3, CommandKeeps, ReturnKeeps, ReleaseKeeps DEF HandlerStep
<1>4. CASE HttpStep \/ CleanerStep \/ MainStep
  BY <1>4, OthersKeep
<1> QED
  BY <1>1, <1>2, <1>3, <1>4 DEF Next

(* At every moment the semaphore of the Redis listener holds one slot per  *)
(* handler that has not returned and at most MaxConnections of them.       *)
THEOREM SlotsAreCounted == Spec => []SlotsCounted
<1>1. ServerInv => SlotsCounted
  BY DEF ServerInv
<1> QED
  BY <1>1, ServerInit, ServerNext, PTL DEF Spec

-----------------------------------------------------------------------------
(* Every step of the process is a step of one session or leaves all of     *)
(* them alone: the server implements the specification of the sessions.    *)
LEMMA StepIsSessionStep ==
    ServerInv /\ [Next]_vars => [SessionNext]_sessionVars
<1> SUFFICES ASSUME ServerInv, [Next]_vars PROVE [SessionNext]_sessionVars
  OBVIOUS
<1>1. CASE UNCHANGED vars
  BY <1>1 DEF vars
<1>2. CASE ServeStep
  BY <1>2 DEF ServeStep, Listen, ListenError, Publish, AcceptError, Accept, Reject, Admit, SessionNext
<1>3. CASE HandlerStep
  BY <1>3 DEF HandlerStep, HandleCommand, HandleReturns, Release, SessionNext
<1>4. CASE HttpStep \/ CleanerStep \/ MainStep
  BY <1>4 DEF HttpStep, HttpListen, HttpReturns, HttpError, CleanerStep, Sweep, SweepEnds,
              CleanerStops, MainStep, Signal, ShutdownTCP, ShutdownHttp, Wait, Exit
<1> QED
  BY <1>1, <1>2, <1>3, <1>4 DEF Next

(* What the server does to its sessions is what Router.Handle and the read *)
(* loop allow, from start to shutdown.                                     *)
THEOREM ImplementsSession == Spec => SessionSpec
<1>1. Init => SessionInit
  BY DEF Init
<1> QED
  BY <1>1, StepIsSessionStep, ServerInit, ServerNext, PTL DEF Spec, SessionSpec

(* So a server with a password runs no data command for a connection that  *)
(* has not presented it.                                                   *)
THEOREM ServerAuthenticates == Spec => []AuthBeforeData
  BY ImplementsSession, AuthenticationHolds, PTL

-----------------------------------------------------------------------------
(* Types. The slots are a number because they count handlers, or because   *)
(* without a limit none is ever taken.                                     *)

ServerTypes ==
    /\ main \in {"up", "signalled", "waiting", "exited", "fatal"}
    /\ serve \in {"listen", "publish", "accept", "admit", "returned"}
    /\ ln \in {"none", "open", "closed"}
    /\ published \in BOOLEAN /\ done \in BOOLEAN
    /\ http \in [Https -> {"starting", "serving", "returned"}]
    /\ shut \subseteq Https
    /\ cleaner \in {"idle", "sweeping", "stopped"}
    /\ MaxConnections = 0 => sem = 0

LEMMA TypesStep == ServerTypes /\ [Next]_vars => ServerTypes'
<1> SUFFICES ASSUME ServerTypes, [Next]_vars PROVE ServerTypes'
  OBVIOUS
<1> USE DEF ServerTypes
<1>1. CASE UNCHANGED vars
  BY <1>1 DEF vars, serverVars
<1>2. CASE ServeStep
  <2>1. CASE Listen \/ ListenError \/ Publish
    BY <2>1 DEF Listen, ListenError, Publish
  <2>2. CASE AcceptError
    BY <2>2 DEF AcceptError
  <2>3. ASSUME NEW c \in Conns, Accept(c) \/ Reject(c) \/ Admit(c)
        PROVE  ServerTypes'
    BY <2>3 DEF Accept, Reject, Admit, TakeSlot
  <2> QED BY <1>2, <2>1, <2>2, <2>3 DEF ServeStep
<1>3. CASE HandlerStep
  BY <1>3 DEF HandlerStep, HandleCommand, HandleReturns, Release, FreeSlot, serverVars
<1>4. CASE HttpStep
  <2>1. PICK h \in Https : HttpListen(h) \/ HttpReturns(h) \/ HttpError(h)
    BY <1>4 DEF HttpStep
  <2>2. CASE HttpListen(h)
    BY <2>2 DEF HttpListen
  <2>3. CASE HttpReturns(h)
    BY <2>3 DEF HttpReturns
  <2>4. CASE HttpError(h)
    BY <2>4 DEF HttpError
  <2> QED BY <2>1, <2>2, <2>3, <2>4
<1>5. CASE CleanerStep
  BY <1>5 DEF CleanerStep, Sweep, SweepEnds, CleanerStops
<1>6. CASE MainStep
  <2>1. CASE Signal \/ Wait \/ Exit
    BY <2>1 DEF Signal, Wait, Exit
  <2>2. CASE ShutdownTCP
    BY <2>2 DEF ShutdownTCP, CloseListener
  <2>3. ASSUME NEW h \in Https, ShutdownHttp(h)
        PROVE  ServerTypes'
    BY <2>3 DEF ShutdownHttp
  <2> QED BY <1>6, <2>1, <2>2, <2>3 DEF MainStep
<1> QED BY <1>1, <1>2, <1>3, <1>4, <1>5, <1>6 DEF Next

(* Every reachable state of the server, of its sessions and of main has    *)
(* its type; no slot is given back that was not taken (ListenAndServe,     *)
(* handle, main).                                                          *)
THEOREM ServerTypeCorrect == Spec => []ServerTypeOK
<1>1. Init => ServerTypes
  BY DEF Init, ServerTypes
<1>2. ServerInv /\ ServerTypes /\ TypeOK => ServerTypeOK
  <2> SUFFICES ASSUME ServerInv, ServerTypes, TypeOK PROVE ServerTypeOK
    OBVIOUS
  <2>1. sem \in Nat
    BY HandlersFinite, ServerAssumption DEF ServerInv, SlotsCounted, ServerTypes
  <2> QED BY <2>1 DEF ServerTypeOK, ServerTypes, ServerInv, HandlersKnown
<1> QED BY <1>1, <1>2, ServerInit, ServerNext, TypesStep, ImplementsSession, TypeCorrect, PTL DEF Spec

=============================================================================
