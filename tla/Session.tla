------------------------------ MODULE Session -------------------------------
(***************************************************************************)
(* The Redis sessions of one server: Router.Handle and Router.execute      *)
(* (internal/command/router.go) as called by the read loop of each         *)
(* connection (TCP.handle, internal/server/tcp.go).                        *)
(*                                                                         *)
(* EXEC runs the queued commands one by one on the connection's goroutine; *)
(* the other connections go on in between. Commands that neither change    *)
(* the session nor are treated specially are all "DATA": GET, SET, ...     *)
(***************************************************************************)
EXTENDS Naturals, Sequences

CONSTANTS
    Conns,          \* connections
    DBs,            \* logical database numbers for SELECT; 0 is the first
    PasswordSet,    \* whether REDGE_PASSWORD is set
    MaxLog          \* bound on the commands accepted from one connection

ASSUME SessionAssumption ==
    /\ DBs \subseteq Nat /\ 0 \in DBs
    /\ PasswordSet \in BOOLEAN
    /\ MaxLog \in Nat

VARIABLES
    conn,       \* "closed", "ready" (reading a request) or "exec" (inside EXEC)
    session,    \* the Session of each connection
    work,       \* what is left of the queue EXEC is running
    accepted,   \* history: the commands accepted, queued or run, less the discarded
    ran         \* history: the commands run, each with the database it ran in

sessionVars == <<conn, session, work, accepted, ran>>

(* A command is its name and, for SELECT, the database. "AUTH" carries the *)
(* right password and "BADAUTH" does not. QUIT is answered and then closes *)
(* the connection (Close), unless its case is mixed: then nothing follows. *)
Plain == {"AUTH", "BADAUTH", "PING", "DATA"}
Control == {"MULTI", "EXEC", "DISCARD", "QUIT"}
Cmds == [name : Plain \cup Control, db : {0}] \cup [name : {"SELECT"}, db : DBs]

Sessions == [authed : BOOLEAN, db : DBs, inMulti : BOOLEAN, queued : Seq(Cmds)]
NewSession == [authed |-> ~PasswordSet, db |-> 0, inMulti |-> FALSE, queued |-> <<>>]

(* Commands answered before authentication *)
Open == {"AUTH", "BADAUTH", "PING", "QUIT"}

-----------------------------------------------------------------------------
(* Mutants of Effect: any password will do; databases count from one. *)
EffectAnyPassword(s, cmd) ==
    CASE cmd.name \in {"AUTH", "BADAUTH"} -> [s EXCEPT !.authed = TRUE]
      [] cmd.name = "SELECT" -> [s EXCEPT !.db = cmd.db]
      [] OTHER -> s

EffectFromOne(s, cmd) ==
    CASE cmd.name = "AUTH" -> [s EXCEPT !.authed = s.authed \/ PasswordSet]
      [] cmd.name = "SELECT" -> [s EXCEPT !.db = cmd.db + 1]
      [] OTHER -> s

(* The effect of one command on the session (Router.execute). AUTH without *)
(* a configured password is an error.                                      *)
Effect(s, cmd) ==
    CASE cmd.name = "AUTH" -> [s EXCEPT !.authed = s.authed \/ PasswordSet]
      [] cmd.name = "SELECT" -> [s EXCEPT !.db = cmd.db]
      [] OTHER -> s

Refused(c, cmd) == PasswordSet /\ ~session[c].authed /\ cmd.name \notin Open

(* The read loop of handle has a request for the router, and the router    *)
(* does not refuse it with NOAUTH.                                         *)
Receives(c, cmd) == conn[c] = "ready" /\ ~Refused(c, cmd)

(* Inside MULTI everything but the control commands is queued. *)
Queue(c, cmd) ==
    /\ Receives(c, cmd)
    /\ session[c].inMulti /\ cmd.name \notin Control
    /\ Len(accepted[c]) < MaxLog
    /\ session' = [session EXCEPT ![c].queued = Append(@, cmd)]
    /\ accepted' = [accepted EXCEPT ![c] = Append(@, cmd)]
    /\ UNCHANGED <<conn, work, ran>>

Run(c, cmd) ==
    /\ session' = [session EXCEPT ![c] = Effect(@, cmd)]
    /\ ran' = [ran EXCEPT ![c] = Append(@, [cmd |-> cmd, db |-> session[c].db])]

Execute(c, cmd) ==
    /\ Receives(c, cmd)
    /\ ~session[c].inMulti /\ cmd.name \notin Control
    /\ Len(accepted[c]) < MaxLog
    /\ Run(c, cmd)
    /\ accepted' = [accepted EXCEPT ![c] = Append(@, cmd)]
    /\ UNCHANGED <<conn, work>>

(* A MULTI inside MULTI is an error that changes nothing. *)
Multi(c) ==
    /\ Receives(c, [name |-> "MULTI", db |-> 0])
    /\ ~session[c].inMulti
    /\ session' = [session EXCEPT ![c].inMulti = TRUE, ![c].queued = <<>>]
    /\ UNCHANGED <<conn, work, accepted, ran>>

Discard(c) ==
    /\ Receives(c, [name |-> "DISCARD", db |-> 0])
    /\ session[c].inMulti
    /\ session' = [session EXCEPT ![c].inMulti = FALSE, ![c].queued = <<>>]
    /\ accepted' = [accepted EXCEPT
                      ![c] = SubSeq(@, 1, Len(@) - Len(session[c].queued))]
    /\ UNCHANGED <<conn, work, ran>>

(* Mutant of Exec: the queue is not reset. *)
ExecKeepsQueue(c) ==
    /\ Receives(c, [name |-> "EXEC", db |-> 0])
    /\ session[c].inMulti
    /\ work' = [work EXCEPT ![c] = session[c].queued]
    /\ session' = [session EXCEPT ![c].inMulti = FALSE]
    /\ conn' = [conn EXCEPT ![c] = "exec"]
    /\ UNCHANGED <<accepted, ran>>

Exec(c) ==
    /\ Receives(c, [name |-> "EXEC", db |-> 0])
    /\ session[c].inMulti
    /\ work' = [work EXCEPT ![c] = session[c].queued]
    /\ session' = [session EXCEPT ![c].inMulti = FALSE, ![c].queued = <<>>]
    /\ conn' = [conn EXCEPT ![c] = "exec"]
    /\ UNCHANGED <<accepted, ran>>

(* One round of EXEC's loop calls execute, not Handle: no test of the      *)
(* authentication and of MULTI.                                            *)
ExecOne(c) ==
    /\ conn[c] = "exec" /\ work[c] # <<>>
    /\ Run(c, Head(work[c]))
    /\ work' = [work EXCEPT ![c] = Tail(@)]
    /\ UNCHANGED <<conn, accepted>>

ExecDone(c) ==
    /\ conn[c] = "exec" /\ work[c] = <<>>
    /\ conn' = [conn EXCEPT ![c] = "ready"]
    /\ UNCHANGED <<session, work, accepted, ran>>

-----------------------------------------------------------------------------
(* Mutant of Connect: the session of an earlier connection is used again. *)
ConnectReuses(c) ==
    /\ conn[c] = "closed"
    /\ conn' = [conn EXCEPT ![c] = "ready"]
    /\ session' = [session EXCEPT ![c] = [NewSession EXCEPT !.db = session[c].db]]
    /\ work' = [work EXCEPT ![c] = <<>>]
    /\ accepted' = [accepted EXCEPT ![c] = <<>>]
    /\ ran' = [ran EXCEPT ![c] = <<>>]

(* handle makes a new session for a new connection. *)
Connect(c) ==
    /\ conn[c] = "closed"
    /\ conn' = [conn EXCEPT ![c] = "ready"]
    /\ session' = [session EXCEPT ![c] = NewSession]
    /\ work' = [work EXCEPT ![c] = <<>>]
    /\ accepted' = [accepted EXCEPT ![c] = <<>>]
    /\ ran' = [ran EXCEPT ![c] = <<>>]

(* handle returns: after QUIT, on a read error, a timeout or end of input, *)
(* or when a reply cannot be written. It does not return inside EXEC.      *)
Close(c) ==
    /\ conn[c] = "ready"
    /\ conn' = [conn EXCEPT ![c] = "closed"]
    /\ UNCHANGED <<session, work, accepted, ran>>

SessionInit ==
    /\ conn = [c \in Conns |-> "closed"]
    /\ session = [c \in Conns |-> NewSession]
    /\ work = [c \in Conns |-> <<>>]
    /\ accepted = [c \in Conns |-> <<>>]
    /\ ran = [c \in Conns |-> <<>>]

Command(c) ==
    \/ \E cmd \in Cmds : Queue(c, cmd) \/ Execute(c, cmd)
    \/ Multi(c) \/ Discard(c) \/ Exec(c) \/ ExecOne(c) \/ ExecDone(c)

SessionNext == \E c \in Conns : Connect(c) \/ Close(c) \/ Command(c)

SessionSpec == SessionInit /\ [][SessionNext]_sessionVars

-----------------------------------------------------------------------------
(* Properties *)

TypeOK ==
    /\ conn \in [Conns -> {"closed", "ready", "exec"}]
    /\ session \in [Conns -> Sessions]
    /\ work \in [Conns -> Seq(Cmds)]
    /\ accepted \in [Conns -> Seq(Cmds)]
    /\ ran \in [Conns -> Seq([cmd : Cmds, db : DBs])]

(* With a password configured, no command but those open to everybody runs *)
(* on a connection before an AUTH with the password ran on that same       *)
(* connection, also not through a queue, which EXEC runs without the test  *)
(* of Handle, and not on a connection that follows an authenticated one.   *)
AuthBeforeData ==
    PasswordSet =>
        \A c \in Conns : \A i \in DOMAIN ran[c] :
            \/ ran[c][i].cmd.name \in Open
            \/ \E j \in DOMAIN ran[c] : j < i /\ ran[c][j].cmd.name = "AUTH"

(* MULTI, EXEC and DISCARD lose, repeat and reorder nothing: what a        *)
(* connection had accepted is what it ran, then what EXEC has still to     *)
(* run, then what is queued (Session.Queued, the loop of EXEC).            *)
Commands(log) == [i \in DOMAIN log |-> log[i].cmd]

NothingLost ==
    \A c \in Conns :
        accepted[c] = Commands(ran[c]) \o work[c] \o session[c].queued

(* A command runs in the database of the last SELECT run before it on the  *)
(* same connection, also when SELECT and the command were queued together, *)
(* and never in a database selected on another connection (Session.DB).    *)
Selects(log, i) == {j \in DOMAIN log : j < i /\ log[j].cmd.name = "SELECT"}

InForce(log, i, db) ==
    IF Selects(log, i) = {}
    THEN db = 0
    ELSE \E j \in Selects(log, i) :
            (\A k \in Selects(log, i) : k <= j) /\ db = log[j].cmd.db

SelectedDatabase ==
    \A c \in Conns : \A i \in DOMAIN ran[c] : InForce(ran[c], i, ran[c][i].db)

=============================================================================
