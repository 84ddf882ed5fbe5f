----------------------------- MODULE TcpServer ------------------------------
(***************************************************************************)
(* The life of one redge process: the Redis listener and its connections   *)
(* (internal/server/tcp.go), the HTTP servers and the expiry cleaner, and  *)
(* the shutdown of main (cmd/redge/main.go). The connections it admits run *)
(* the sessions of module Session.                                         *)
(***************************************************************************)
EXTENDS Session, FiniteSets

CONSTANTS
    MaxConnections,     \* REDGE_MAX_CONNECTIONS; 0 means no limit
    Allowed,            \* connections the IP allowlist admits
    Https               \* the HTTP servers started

ASSUME ServerAssumption ==
    /\ MaxConnections \in Nat
    /\ Allowed \subseteq Conns
    /\ Https \subseteq {"status", "admin"}
    /\ IsFiniteSet(Conns)

VARIABLES
    main,       \* "up", "signalled", "waiting" (in wg.Wait), "exited", "fatal"
    serve,      \* the ListenAndServe goroutine
    incoming,   \* the connection Accept returned, as a set, while serve = "admit"
    ln,         \* the listening socket: "none", "open", "closed"
    published,  \* s.ln has been set
    done,       \* s.done has been closed
    sem,        \* the length of s.sem
    leaving,    \* handlers that closed their connection and still hold a slot
    http,       \* each HTTP server: "starting", "serving", "returned"
    shut,       \* the HTTP servers told to shut down
    cleaner     \* the cleanup goroutine: "idle", "sweeping", "stopped"

serverVars == <<main, serve, incoming, ln, published, done, sem, leaving, http, shut, cleaner>>
vars == <<sessionVars, serverVars>>

Ended == {"exited", "fatal"}
Alive == main \notin Ended

-----------------------------------------------------------------------------
(* ListenAndServe *)

Listen ==
    /\ Alive /\ serve = "listen"
    /\ ln' = "open" /\ serve' = "publish"
    /\ UNCHANGED <<sessionVars, main, incoming, published, done, sem, leaving, http, shut, cleaner>>

(* logger.Fatal ends the process. *)
ListenError ==
    /\ Alive /\ serve = "listen"
    /\ main' = "fatal"
    /\ UNCHANGED <<sessionVars, serve, incoming, ln, published, done, sem, leaving, http, shut, cleaner>>

Publish ==
    /\ Alive /\ serve = "publish"
    /\ published' = TRUE /\ serve' = "accept"
    /\ UNCHANGED <<sessionVars, main, incoming, ln, done, sem, leaving, http, shut, cleaner>>

Accept(c) ==
    /\ Alive /\ serve = "accept" /\ ln = "open"
    /\ conn[c] = "closed" /\ c \notin leaving
    /\ serve' = "admit" /\ incoming' = {c}
    /\ UNCHANGED <<sessionVars, main, ln, published, done, sem, leaving, http, shut, cleaner>>

(* Accept fails on a closed listener, or on an open one for another reason *)
(* (no more file descriptors): the loop ends, quietly only when done.      *)
AcceptError ==
    /\ Alive /\ serve = "accept" /\ ln \in {"open", "closed"}
    /\ serve' = "returned"
    /\ main' = IF done THEN main ELSE "fatal"
    /\ UNCHANGED <<sessionVars, incoming, ln, published, done, sem, leaving, http, shut, cleaner>>

IpAllowed(c) == c \in Allowed

HasSlot == MaxConnections = 0 \/ sem < MaxConnections

(* Mutants of TakeSlot and FreeSlot: the slot is not taken, or not freed. *)
TakeSlotNever == sem
FreeSlotNever == sem

TakeSlot == IF MaxConnections = 0 THEN sem ELSE sem + 1
FreeSlot == IF MaxConnections = 0 THEN sem ELSE sem - 1

(* A connection outside the allowlist or above the limit is closed. *)
Reject(c) ==
    /\ Alive /\ serve = "admit" /\ c \in incoming
    /\ ~IpAllowed(c) \/ ~HasSlot
    /\ serve' = "accept" /\ incoming' = {}
    /\ UNCHANGED <<sessionVars, main, ln, published, done, sem, leaving, http, shut, cleaner>>

Admit(c) ==
    /\ Alive /\ serve = "admit" /\ c \in incoming
    /\ IpAllowed(c) /\ HasSlot
    /\ Connect(c)
    /\ sem' = TakeSlot
    /\ serve' = "accept" /\ incoming' = {}
    /\ UNCHANGED <<main, ln, published, done, leaving, http, shut, cleaner>>

-----------------------------------------------------------------------------
(* handle: its deferred calls close the connection, then free the slot. *)

HandleCommand(c) ==
    /\ Alive
    /\ Command(c)
    /\ UNCHANGED serverVars

HandleReturns(c) ==
    /\ Alive
    /\ Close(c)
    /\ leaving' = leaving \cup {c}
    /\ UNCHANGED <<main, serve, incoming, ln, published, done, sem, http, shut, cleaner>>

Release(c) ==
    /\ Alive /\ c \in leaving
    /\ leaving' = leaving \ {c}
    /\ sem' = FreeSlot
    /\ UNCHANGED <<sessionVars, main, serve, incoming, ln, published, done, http, shut, cleaner>>

-----------------------------------------------------------------------------
(* The HTTP servers (net/http): a server told to shut down, before or      *)
(* after it listens, returns ErrServerClosed; another error is fatal.      *)

HttpListen(h) ==
    /\ Alive /\ http[h] = "starting" /\ h \notin shut
    /\ http' = [http EXCEPT ![h] = "serving"]
    /\ UNCHANGED <<sessionVars, main, serve, incoming, ln, published, done, sem, leaving, shut, cleaner>>

HttpReturns(h) ==
    /\ Alive /\ http[h] # "returned" /\ h \in shut
    /\ http' = [http EXCEPT ![h] = "returned"]
    /\ UNCHANGED <<sessionVars, main, serve, incoming, ln, published, done, sem, leaving, shut, cleaner>>

HttpError(h) ==
    /\ Alive /\ http[h] # "returned" /\ h \notin shut
    /\ main' = "fatal"
    /\ UNCHANGED <<sessionVars, serve, incoming, ln, published, done, sem, leaving, http, shut, cleaner>>

-----------------------------------------------------------------------------
(* The cleanup goroutine: its select takes a tick or the cancelled context, *)
(* either when both are ready; a sweep is not cancelled.                   *)

Sweep ==
    /\ Alive /\ cleaner = "idle"
    /\ cleaner' = "sweeping"
    /\ UNCHANGED <<sessionVars, main, serve, incoming, ln, published, done, sem, leaving, http, shut>>

SweepEnds ==
    /\ Alive /\ cleaner = "sweeping"
    /\ cleaner' = "idle"
    /\ UNCHANGED <<sessionVars, main, serve, incoming, ln, published, done, sem, leaving, http, shut>>

CleanerStops ==
    /\ Alive /\ cleaner = "idle" /\ main # "up"
    /\ cleaner' = "stopped"
    /\ UNCHANGED <<sessionVars, main, serve, incoming, ln, published, done, sem, leaving, http, shut>>

-----------------------------------------------------------------------------
(* main *)

Signal ==
    /\ main = "up"
    /\ main' = "signalled"
    /\ UNCHANGED <<sessionVars, serve, incoming, ln, published, done, sem, leaving, http, shut, cleaner>>

CloseListenerNever == ln        \* mutant: the listener stays open

(* TCP.Shutdown closes the listener only if it has been published. It does *)
(* not wait for the connections.                                           *)
CloseListener == IF published THEN "closed" ELSE ln

ShutdownTCP ==
    /\ main = "signalled" /\ ~done
    /\ done' = TRUE
    /\ ln' = CloseListener
    /\ UNCHANGED <<sessionVars, main, serve, incoming, published, sem, leaving, http, shut, cleaner>>

(* http.Server.Shutdown waits for its requests until the shutdown timeout; *)
(* the status server comes first.                                          *)
ShutdownHttp(h) ==
    /\ main = "signalled" /\ done /\ h \notin shut
    /\ h = "admin" => "status" \notin Https \ shut
    /\ shut' = shut \cup {h}
    /\ UNCHANGED <<sessionVars, main, serve, incoming, ln, published, done, sem, leaving, http, cleaner>>

Wait ==
    /\ main = "signalled" /\ done /\ shut = Https
    /\ main' = "waiting"
    /\ UNCHANGED <<sessionVars, serve, incoming, ln, published, done, sem, leaving, http, shut, cleaner>>

(* wg.Wait returns when every goroutine has returned; connections that are *)
(* still open end with the process.                                        *)
Exit ==
    /\ main = "waiting"
    /\ serve = "returned" /\ cleaner = "stopped"
    /\ \A h \in Https : http[h] = "returned"
    /\ main' = "exited"
    /\ UNCHANGED <<sessionVars, serve, incoming, ln, published, done, sem, leaving, http, shut, cleaner>>

-----------------------------------------------------------------------------
Init ==
    /\ SessionInit
    /\ main = "up" /\ serve = "listen" /\ incoming = {}
    /\ ln = "none" /\ published = FALSE /\ done = FALSE
    /\ sem = 0 /\ leaving = {}
    /\ http = [h \in Https |-> "starting"] /\ shut = {}
    /\ cleaner = "idle"

ServeStep ==
    \/ Listen \/ ListenError \/ Publish \/ AcceptError
    \/ \E c \in Conns : Accept(c) \/ Reject(c) \/ Admit(c)
HandlerStep == \E c \in Conns : HandleCommand(c) \/ HandleReturns(c) \/ Release(c)
HttpStep == \E h \in Https : HttpListen(h) \/ HttpReturns(h) \/ HttpError(h)
CleanerStep == Sweep \/ SweepEnds \/ CleanerStops
MainStep == Signal \/ ShutdownTCP \/ (\E h \in Https : ShutdownHttp(h)) \/ Wait \/ Exit

Next == ServeStep \/ HandlerStep \/ HttpStep \/ CleanerStep \/ MainStep

Spec == Init /\ [][Next]_vars

(* Every goroutine is scheduled; an Accept on a closed listener returns;   *)
(* a sweep ends; the select of the cleaner, random between a tick and the  *)
(* cancelled context, does not prefer the tick for ever. No client need    *)
(* connect, send or leave, and no signal need come.                        *)
Fairness ==
    /\ WF_vars(Listen \/ ListenError) /\ WF_vars(Publish)
    /\ \A c \in Conns : WF_vars(Reject(c) \/ Admit(c))
    /\ WF_vars(ln = "closed" /\ AcceptError)
    /\ \A c \in Conns : WF_vars(Release(c))
    /\ \A h \in Https : WF_vars(HttpReturns(h)) /\ WF_vars(ShutdownHttp(h))
    /\ WF_vars(SweepEnds) /\ SF_vars(CleanerStops)
    /\ WF_vars(ShutdownTCP) /\ WF_vars(Wait) /\ WF_vars(Exit)

FairSpec == Spec /\ Fairness

-----------------------------------------------------------------------------
(* Properties *)

ServerTypeOK ==
    /\ TypeOK
    /\ main \in {"up", "signalled", "waiting", "exited", "fatal"}
    /\ serve \in {"listen", "publish", "accept", "admit", "returned"}
    /\ incoming \subseteq Conns
    /\ ln \in {"none", "open", "closed"}
    /\ published \in BOOLEAN /\ done \in BOOLEAN
    /\ sem \in Nat /\ leaving \subseteq Conns
    /\ http \in [Https -> {"starting", "serving", "returned"}]
    /\ shut \subseteq Https
    /\ cleaner \in {"idle", "sweeping", "stopped"}

(* The connections whose handler has not returned yet. *)
Handlers == {c \in Conns : conn[c] # "closed"} \cup leaving

(* No slot leaks and none is freed twice: the semaphore counts the running *)
(* handlers, also while they come and go during the shutdown, so at most   *)
(* MaxConnections connections are served at once and a server whose        *)
(* clients have left admits new ones (s.sem in ListenAndServe and handle). *)
SlotsCounted ==
    MaxConnections > 0 =>
        sem = Cardinality(Handlers) /\ sem <= MaxConnections

(* Once the listener is published, a signal ends the process: the loop of  *)
(* ListenAndServe, the HTTP servers and the cleaner all return, whatever   *)
(* the clients do, also when they neither send nor leave.                  *)
StopsOnSignal == (main = "signalled" /\ published /\ ~done) ~> (main \in Ended)
=============================================================================
