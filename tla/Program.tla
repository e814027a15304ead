------------------------------ MODULE Program -------------------------------
(***************************************************************************)
(* The server program (src/main.c) around the loop of module Server: main  *)
(* and master_routine create the database and the server, run the loop and *)
(* destroy everything in turn; a signal may arrive between any two steps.  *)
(***************************************************************************)
EXTENDS Server

VARIABLES
  phase,      \* how far main and master_routine are
  g_server    \* "null", "live", or "freed": it is never set back to NULL

program_vars == << phase, g_server >>
all_vars == << vars, program_vars >>

Ended == { "stopped", "died", "killed", "crashed" }

ProgramInit ==
  /\ Init
  /\ phase = "start"
  /\ g_server = "null"

Step(from, to) == phase = from /\ phase' = to

(* main: the signal handlers are installed. *)
InstallHandlers == Step("start", "signals") /\ UNCHANGED << vars, g_server >>

CreateDatabase == Step("signals", "database") /\ UNCHANGED << vars, g_server >>

CreateServer ==
  /\ Step("database", "created")
  /\ g_server' = "live"
  /\ UNCHANGED vars

(* server_run binds and listens, or dies. *)
Listen ==
  /\ Step("created", "running") \/ Step("created", "died")
  /\ UNCHANGED << vars, g_server >>

(* A step of the loop or of a client while uv_run is being executed. *)
InLoop(A) == phase = "running" /\ A /\ UNCHANGED program_vars

Return ==
  /\ Step("running", "returned")
  /\ server_run_returns
  /\ UNCHANGED g_server

DestroyServer ==
  /\ Step("returned", "destroyed")
  /\ g_server' = "freed"
  /\ UNCHANGED vars

(* client_handler_destroy, database_destroy and the end of main. *)
CloseDatabase == Step("destroyed", "stopped") /\ UNCHANGED << vars, g_server >>

(* A signal: the default action before the handlers are installed, then    *)
(* control_signal_handler.  A server that is freed already is written to,  *)
(* with any outcome.                                                       *)
Signal ==
  \/ Step("start", "killed") /\ UNCHANGED << vars, g_server >>
  \/ /\ phase \notin Ended \cup { "start" } /\ g_server = "null"
     /\ UNCHANGED all_vars
  \/ /\ phase \notin Ended /\ g_server = "live"
     /\ server_stop /\ UNCHANGED program_vars
  \/ /\ phase \notin Ended /\ g_server = "freed"
     /\ phase' \in { phase, "crashed" }
     /\ UNCHANGED << vars, g_server >>

ProgramStep ==
  \/ InstallHandlers \/ CreateDatabase \/ CreateServer \/ Listen
  \/ InLoop(on_server_shutdown) \/ Return
  \/ DestroyServer \/ CloseDatabase

ProgramNext ==
  \/ ProgramStep
  \/ \E c \in Conn : InLoop(Client(c)) \/ InLoop(Callback(c))
  \/ Signal

(* One thread takes the program's steps, and its loop polls all handles.   *)
ProgramFairness ==
  /\ WF_all_vars(ProgramStep)
  /\ \A c \in Conn : /\ WF_all_vars(InLoop(on_client_connected(c)))
                     /\ WF_all_vars(InLoop(on_data_read(c)))
                     /\ WF_all_vars(InLoop(on_hang_up(c)))
                     /\ WF_all_vars(InLoop(on_write_complete(c)))
                     /\ WF_all_vars(InLoop(on_client_free(c)))

ProgramSpec == ProgramInit /\ [][ProgramNext]_all_vars /\ ProgramFairness
-----------------------------------------------------------------------------
(* Once the server is freed no connection refers to it: every client was   *)
(* closed and freed, and no answer is left with uv_write.                  *)
NothingOutlivesServer ==
  g_server = "freed" =>
    /\ \A c \in Conn : sock[c] = "none"
    /\ \A c \in Conn : writing[c] = 0
    /\ \A i \in Slot : clients[i] = NoConn

(* A signal that finds the server ends the program, also one between       *)
(* server_create and the loop, and whatever clients do meanwhile.          *)
SignalEndsProgram == (phase \notin Ended /\ stop_request) ~> phase \in Ended
=============================================================================
