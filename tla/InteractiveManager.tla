------------------------ MODULE InteractiveManager ------------------------
(***************************************************************************)
(* The life of the native TUI sessions: the command that asks the daemon   *)
(* for one, runs the TUI and gives it back (_run_codex_tui), the handlers  *)
(* of the daemon, the manager's table of app-servers and gateways, and the *)
(* shutdown of the daemon.  What a gateway does while it is open is in     *)
(* Gateway, what becomes of a session's row in CodexOrchestrator.          *)
(*                                                                         *)
(* _lock is never held over an await, and neither the insertion of a row   *)
(* nor its closing suspends: they are parts of the steps around them.      *)
(***************************************************************************)
EXTENDS Naturals

CONSTANTS
    Clis,       \* commands, each of which asks for one session, named after it
    Faults,     \* what may fail: "spawn", "listen", "gateway", "server", "cli"
    MaxKills    \* bound on how often the daemon is killed

ASSUME ManagerAssumption == MaxKills \in Nat

VARIABLES
    life,       \* the daemon: "down", "up", "draining" handlers, "closing"
    kills,      \* how often it was killed
    cut,        \* sessions that were in progress when it was
    cli,        \* cli[c], see CliStates
    creating,   \* creating[c]: create_session, see CreateStages
    closing,    \* closing[c]: close_session: "none", "gateway", "process", "over"
    todo,       \* what the loop of close has still to close
    sessions,   \* _sessions
    process,    \* process[c]: the app-server: "none", "up", "died", "left", "stopped"
    gateway,    \* gateway[c]: "none", "open", "lost" its terminal, "closed"
    row         \* row[c]: the session in the store: "none", "active", "ended"

serverVars == <<process, gateway, row>>
managerVars == <<life, kills, cut, cli, creating, closing, todo, sessions, serverVars>>

CliStates == {"idle", "posting", "tui", "exited", "deleting", "done", "killed"}

(* "starting": the gateway connects and listens; "stopping": the app-server of a session *)
(* that could not be started is stopped.                                                 *)
Underway == {"spawning", "listening", "starting", "stopping"}
CreateStages == Underway \cup {"none", "created", "failed"}

ManagerTypeOK ==
    /\ life \in {"down", "up", "draining", "closing"}
    /\ kills \in Nat /\ cut \subseteq Clis
    /\ cli \in [Clis -> CliStates] /\ creating \in [Clis -> CreateStages]
    /\ closing \in [Clis -> {"none", "gateway", "process", "over"}]
    /\ todo \subseteq Clis /\ sessions \subseteq Clis
    /\ process \in [Clis -> {"none", "up", "died", "left", "stopped"}]
    /\ gateway \in [Clis -> {"none", "open", "lost", "closed"}]
    /\ row \in [Clis -> {"none", "active", "ended"}]

ManagerInit ==
    /\ life = "down" /\ kills = 0 /\ cut = {}
    /\ cli = [c \in Clis |-> "idle"]
    /\ creating = [c \in Clis |-> "none"] /\ closing = [c \in Clis |-> "none"]
    /\ todo = {} /\ sessions = {}
    /\ process = [c \in Clis |-> "none"]
    /\ gateway = [c \in Clis |-> "none"]
    /\ row = [c \in Clis |-> "none"]

Creating(c) == creating[c] \in Underway
Closing(c) == closing[c] \in {"gateway", "process"}
Owned(c) == c \in sessions \/ Creating(c) \/ Closing(c)

EndRow(c) == row' = [row EXCEPT ![c] = IF @ = "active" THEN "ended" ELSE @]
StopProcess(c) == process' = [process EXCEPT ![c] = IF @ = "up" THEN "stopped" ELSE @]

-----------------------------------------------------------------------------
(* the command *)

\* POST interactive-sessions; without a daemon the command gives up.
Post(c) ==
    /\ cli[c] = "idle"
    /\ IF life = "up"
       THEN /\ cli' = [cli EXCEPT ![c] = "posting"]
            /\ creating' = [creating EXCEPT ![c] = "spawning"]
       ELSE cli' = [cli EXCEPT ![c] = "done"] /\ UNCHANGED creating
    /\ UNCHANGED <<life, kills, cut, closing, todo, sessions, serverVars>>

\* The answer arrives: a descriptor starts the TUI, an error ends the command.
Answered(c) ==
    /\ cli[c] = "posting" /\ creating[c] \in {"created", "failed"}
    /\ cli' = [cli EXCEPT ![c] = IF creating[c] = "created" THEN "tui" ELSE "done"]
    /\ UNCHANGED <<life, kills, cut, creating, closing, todo, sessions, serverVars>>

\* httpx gives up after ten seconds: the handler goes on, for nobody.
TimesOut(c) ==
    /\ cli[c] \in {"posting", "deleting"}
    /\ cli' = [cli EXCEPT ![c] = "done"]
    /\ UNCHANGED <<life, kills, cut, creating, closing, todo, sessions, serverVars>>

\* The user leaves the TUI, or it has lost its connection.
TuiExits(c) ==
    /\ cli[c] = "tui"
    /\ cli' = [cli EXCEPT ![c] = "exited"]
    /\ UNCHANGED <<life, kills, cut, creating, closing, todo, sessions, serverVars>>

\* The finally of _run_codex_tui: DELETE, whose failure is ignored, and the first part of
\* close_session.
Delete(c) ==
    /\ cli[c] = "exited"
    /\ IF life = "up" /\ c \in sessions
       THEN /\ cli' = [cli EXCEPT ![c] = "deleting"]
            /\ sessions' = sessions \ {c}
            /\ closing' = [closing EXCEPT ![c] = "gateway"]
       ELSE cli' = [cli EXCEPT ![c] = "done"] /\ UNCHANGED <<sessions, closing>>
    /\ UNCHANGED <<life, kills, cut, creating, todo, serverVars>>

Deleted(c) ==
    /\ cli[c] = "deleting" /\ closing[c] = "over"
    /\ cli' = [cli EXCEPT ![c] = "done"]
    /\ UNCHANGED <<life, kills, cut, creating, closing, todo, sessions, serverVars>>

\* The command is killed, and the DELETE is never sent.
CliKilled(c) ==
    /\ "cli" \in Faults /\ cli[c] \in {"posting", "tui", "exited"}
    /\ cli' = [cli EXCEPT ![c] = "killed"]
    /\ UNCHANGED <<life, kills, cut, creating, closing, todo, sessions, serverVars>>

-----------------------------------------------------------------------------
(* create_session *)

Advance(c, stage) == creating' = [creating EXCEPT ![c] = stage]

Spawned(c) ==
    /\ creating[c] = "spawning"
    /\ \/ process' = [process EXCEPT ![c] = "up"] /\ Advance(c, "listening")
       \/ "spawn" \in Faults /\ Advance(c, "failed") /\ UNCHANGED process
    /\ UNCHANGED <<life, kills, cut, cli, closing, todo, sessions, gateway, row>>

\* The app-server listens, the row is inserted and the gateway is made; or it exits or takes
\* too long.
Listening(c) ==
    /\ creating[c] = "listening"
    /\ \/ /\ process[c] = "up"
          /\ row' = [row EXCEPT ![c] = "active"] /\ Advance(c, "starting")
       \/ /\ "listen" \in Faults \/ process[c] # "up"
          /\ Advance(c, "stopping") /\ UNCHANGED row
    /\ UNCHANGED <<life, kills, cut, cli, closing, todo, sessions, process, gateway>>

\* gateway.start returns and the session is entered in the table, or it raises, closed.
GatewayStarts(c) ==
    /\ creating[c] = "starting"
    /\ \/ /\ gateway' = [gateway EXCEPT ![c] = "open"]
          /\ sessions' = sessions \cup {c}
          /\ Advance(c, "created")
       \/ /\ "gateway" \in Faults \/ process[c] # "up"
          /\ gateway' = [gateway EXCEPT ![c] = "closed"]
          /\ Advance(c, "stopping") /\ UNCHANGED sessions
    /\ UNCHANGED <<life, kills, cut, cli, closing, todo, process, row>>

\* Mutant of Undo: only a row that was inserted is taken back.
UndoRow(c) ==
    /\ creating[c] = "stopping"
    /\ IF row[c] = "none" THEN UNCHANGED process ELSE StopProcess(c)
    /\ EndRow(c) /\ Advance(c, "failed")
    /\ UNCHANGED <<life, kills, cut, cli, closing, todo, sessions, gateway>>

Undo(c) ==
    /\ creating[c] = "stopping"
    /\ StopProcess(c) /\ EndRow(c) /\ Advance(c, "failed")
    /\ UNCHANGED <<life, kills, cut, cli, closing, todo, sessions, gateway>>

-----------------------------------------------------------------------------
(* close_session, once the session is out of the table *)

CloseGateway(c) ==
    /\ closing[c] = "gateway"
    /\ gateway' = [gateway EXCEPT ![c] = "closed"]
    /\ closing' = [closing EXCEPT ![c] = "process"]
    /\ UNCHANGED <<life, kills, cut, cli, creating, todo, sessions, process, row>>

CloseProcess(c) ==
    /\ closing[c] = "process"
    /\ StopProcess(c) /\ EndRow(c)
    /\ closing' = [closing EXCEPT ![c] = "over"]
    /\ UNCHANGED <<life, kills, cut, cli, creating, todo, sessions, gateway>>

-----------------------------------------------------------------------------
(* app-servers *)

\* It dies, which nobody watches, or leaves after it has closed its connection in order.
ServerEnds(c) ==
    /\ "server" \in Faults /\ process[c] = "up"
    /\ process' = [process EXCEPT ![c] = "died"] \/ process' = [process EXCEPT ![c] = "left"]
    /\ UNCHANGED <<life, kills, cut, cli, creating, closing, todo, sessions, gateway, row>>

\* Mutant of GatewayLoses: the terminal is not closed.
GatewayIgnores(c) ==
    /\ gateway[c] = "open" /\ process[c] = "died"
    /\ UNCHANGED managerVars

\* The reader of the gateway finds the connection lost and closes the terminal.
GatewayLoses(c) ==
    /\ gateway[c] = "open" /\ process[c] = "died"
    /\ gateway' = [gateway EXCEPT ![c] = "lost"]
    /\ UNCHANGED <<life, kills, cut, cli, creating, closing, todo, sessions, process, row>>

-----------------------------------------------------------------------------
(* the daemon *)

\* Startup ends the sessions that a daemon before has left active (reconcile_startup).
Start ==
    /\ life = "down" /\ life' = "up"
    /\ row' = [c \in Clis |-> IF row[c] = "active" THEN "ended" ELSE row[c]]
    /\ UNCHANGED <<kills, cut, cli, creating, closing, todo, sessions, process, gateway>>

Stop ==
    /\ life = "up" /\ life' = "draining"
    /\ UNCHANGED <<kills, cut, cli, creating, closing, todo, sessions, serverVars>>

\* Mutant of Drained: the lifespan ends while handlers are still at work.
DrainedAtOnce ==
    /\ life = "draining" /\ life' = "closing"
    /\ todo' = sessions
    /\ UNCHANGED <<kills, cut, cli, creating, closing, sessions, serverVars>>

\* uvicorn has waited for the handlers and ends the lifespan; close takes a snapshot.
Drained ==
    /\ life = "draining" /\ \A c \in Clis : ~Creating(c) /\ ~Closing(c)
    /\ life' = "closing" /\ todo' = sessions
    /\ UNCHANGED <<kills, cut, cli, creating, closing, sessions, serverVars>>

\* The loop of close goes on to the next session.
CloseNext(c) ==
    /\ life = "closing" /\ c \in todo /\ \A d \in Clis : ~Closing(d)
    /\ todo' = todo \ {c}
    /\ IF c \in sessions
       THEN sessions' = sessions \ {c} /\ closing' = [closing EXCEPT ![c] = "gateway"]
       ELSE UNCHANGED <<sessions, closing>>
    /\ UNCHANGED <<life, kills, cut, cli, creating, serverVars>>

Stopped ==
    /\ life = "closing" /\ todo = {} /\ \A c \in Clis : ~Closing(c)
    /\ life' = "down"
    /\ UNCHANGED <<kills, cut, cli, creating, closing, todo, sessions, serverVars>>

\* The daemon is killed: its connections break, the app-servers stay.
Killed ==
    /\ life # "down" /\ kills < MaxKills
    /\ life' = "down" /\ kills' = kills + 1
    /\ cut' = cut \cup {c \in Clis : Owned(c)}
    /\ cli' = [c \in Clis |-> IF cli[c] \in {"posting", "deleting"} THEN "done" ELSE cli[c]]
    /\ creating' = [c \in Clis |-> IF Creating(c) THEN "failed" ELSE creating[c]]
    /\ closing' = [c \in Clis |-> IF Closing(c) THEN "over" ELSE closing[c]]
    /\ todo' = {} /\ sessions' = {}
    /\ gateway' = [c \in Clis |-> IF gateway[c] = "open" THEN "lost" ELSE gateway[c]]
    /\ UNCHANGED <<process, row>>

-----------------------------------------------------------------------------

Cli(c) ==
    Post(c) \/ Answered(c) \/ TimesOut(c) \/ TuiExits(c) \/ Delete(c) \/ Deleted(c) \/ CliKilled(c)
Handler(c) ==
    Spawned(c) \/ Listening(c) \/ GatewayStarts(c) \/ Undo(c) \/ CloseGateway(c) \/ CloseProcess(c)
Daemon == Start \/ Stop \/ Drained \/ Stopped \/ Killed \/ \E c \in Clis : CloseNext(c)

ManagerNext == Daemon \/ \E c \in Clis : Cli(c) \/ Handler(c) \/ ServerEnds(c) \/ GatewayLoses(c)

ManagerSpec == ManagerInit /\ [][ManagerNext]_managerVars

\* The event loop runs what is ready, every await of a handler is bounded by a timeout, and
\* a TUI that has lost its connection exits.
ManagerFairness ==
    /\ WF_managerVars(Drained) /\ WF_managerVars(Stopped)
    /\ \A c \in Clis :
          /\ WF_managerVars(Handler(c)) /\ WF_managerVars(CloseNext(c)) /\ WF_managerVars(GatewayLoses(c))
          /\ WF_managerVars(gateway[c] # "open" /\ TuiExits(c)) /\ WF_managerVars(Delete(c))

-----------------------------------------------------------------------------

\* Whatever fails, and whoever gives up waiting: an app-server that runs, a gateway that is
\* open and a row that is active belong to a session that is in the table, being created or
\* being closed, so that somebody will end them.  Only a kill of the daemon leaves
\* app-servers behind, and the rows it leaves are ended by the next start.
NoneIsStray ==
    \A c \in Clis :
        /\ process[c] = "up" => Owned(c) \/ c \in cut
        /\ gateway[c] \in {"open", "lost"} => Owned(c) \/ c \in cut
        /\ row[c] = "active" => Owned(c) \/ (life = "down" /\ c \in cut)

\* "The daemon also reaps sessions during shutdown" (commands/app.py): when it has stopped
\* there is nothing left of a session, not even of one whose command is gone.
StoppedLeavesNothing ==
    life = "down" =>
        \A c \in Clis \ cut :
            process[c] # "up" /\ gateway[c] # "open" /\ row[c] # "active"

\* A session whose app-server dies is ended as long as its command lives, by way of the
\* gateway, the TUI and the command, as nobody watches the process; and shutdown ends all,
\* whatever is being created (close_session, close).
SessionsEnd ==
    \A c \in Clis :
        row[c] = "active" /\ (life = "draining" \/ (process[c] = "died" /\ cli[c] = "tui"))
            ~> row[c] = "ended" \/ cli[c] = "killed" \/ life = "down"
=============================================================================
