-------------------------------- MODULE Ctl ---------------------------------
(***************************************************************************)
(* The programs on top of a session: the commands of shakadbctl            *)
(* (src/ctl/main.c), that is write, which sends STDIN in batches, read,    *)
(* truncate and latest, each on one session; and "calls", a program that   *)
(* makes the session's calls in any order, as the tests do.                *)
(***************************************************************************)
EXTENDS Session

CONSTANTS
  Commands,     \* the commands that are run
  MaxBatches    \* bound: batches on STDIN

ASSUME CtlAssumption ==
  /\ Commands \subseteq { "write", "read", "truncate", "latest", "calls", "python", "dotnet" }
  /\ MaxBatches \in Nat

VARIABLES
  command,   \* config->command
  pc,        \* "begin", then "loop" once the command has made its first call
  batches,   \* the sizes of the batches that are left on STDIN
  total,     \* points the series must have taken after the write
  exit       \* "running", "ok", "failed" or "undefined"

ctl == << command, pc, batches, total, exit >>
ctl_vars == << vars, ctl >>

CtlInit ==
  /\ Init
  /\ command \in Commands
  /\ pc = "begin"
  /\ batches \in UNION { [ 1 .. k -> 1 .. MaxBatch ] : k \in 0 .. MaxBatches }
  /\ command # "write" => batches = << >>
  /\ total = accepted
  /\ exit = "running"

Exit(status) ==
  /\ exit' = status
  /\ UNCHANGED << vars, command, pc, batches, total >>

Running(c) == exit = "running" /\ command = c /\ call = "none"

(* Mutant: a batch that was not written is skipped. *)
execute_write_Skip ==
  /\ Running("write")
  /\ \/ batches = << >> /\ Exit("ok")
     \/ /\ batches # << >>
        /\ session_write(Head(batches))
        /\ batches' = Tail(batches)
        /\ total' = total + Head(batches)
        /\ pc' = "loop"
        /\ UNCHANGED << command, exit >>

(* execute_write: a batch after the other, up to the first that fails. *)
execute_write ==
  /\ Running("write")
  /\ \/ pc = "loop" /\ result.value # 0 /\ Exit("failed")
     \/ /\ pc = "begin" \/ result.value = 0
        /\ \/ batches = << >> /\ Exit("ok")
           \/ /\ batches # << >>
              /\ session_write(Head(batches))
              /\ batches' = Tail(batches)
              /\ total' = total + Head(batches)
              /\ pc' = "loop"
              /\ UNCHANGED << command, exit >>

(* while (session_read_next(session)) *)
ReadLoop ==
  /\ pc = "loop" /\ result # Returned("read_next", 0)
  /\ session_read_next
  /\ UNCHANGED ctl

LoopEnded == pc = "loop" /\ result = Returned("read_next", 0)

(* Mutant: the read loop does not stop at the end of the data. *)
execute_read_Forever ==
  /\ Running("read")
  /\ \/ /\ pc = "begin"
        /\ \E window \in 0 .. accepted : session_read(window)
        /\ pc' = "loop"
        /\ UNCHANGED << command, batches, total, exit >>
     \/ /\ pc = "loop"
        /\ session_read_next
        /\ UNCHANGED ctl

(* execute_read *)
execute_read ==
  /\ Running("read")
  /\ \/ /\ pc = "begin"
        /\ \E window \in 0 .. accepted : session_read(window)
        /\ pc' = "loop"
        /\ UNCHANGED << command, batches, total, exit >>
     \/ ReadLoop
     \/ LoopEnded /\ Exit("ok")

(* execute_truncate *)
execute_truncate ==
  /\ Running("truncate")
  /\ \/ /\ pc = "begin"
        /\ session_truncate
        /\ pc' = "loop"
        /\ UNCHANGED << command, batches, total, exit >>
     \/ /\ pc = "loop"
        /\ Exit(IF result.value = 0 THEN "ok" ELSE "failed")

(* execute_get_latest; after the loop it reads through read_response,      *)
(* which session_read_next has left NULL.                                  *)
execute_get_latest ==
  /\ Running("latest")
  /\ \/ /\ pc = "begin"
        /\ session_read_latest
        /\ pc' = "loop"
        /\ UNCHANGED << command, batches, total, exit >>
     \/ ReadLoop
     \/ LoopEnded /\ Exit(IF read_response = 0 THEN "undefined" ELSE "ok")

execute_command == execute_write \/ execute_read \/ execute_truncate \/ execute_get_latest

(* Any calls in any order, on one session after another. *)
AnyCalls ==
  /\ Running("calls")
  /\ Call \/ Reopen
  /\ UNCHANGED ctl

CtlNext ==
  \/ AnyCalls
  \/ execute_command
  \/ (Step \/ Disconnect) /\ UNCHANGED ctl

(* The command runs on and the server handles what arrives; nothing makes  *)
(* the connection break.                                                   *)
CtlSpec ==
  /\ CtlInit /\ [][CtlNext]_ctl_vars
  /\ WF_ctl_vars(execute_command)
  /\ WF_ctl_vars(Step /\ UNCHANGED ctl)

-----------------------------------------------------------------------------
CtlTypeOK ==
  /\ TypeOK
  /\ command \in Commands /\ pc \in { "begin", "loop" }
  /\ batches \in Seq(1 .. MaxBatch)
  /\ total \in Nat
  /\ exit \in { "running", "ok", "failed", "undefined" }

(* "write: writes the binary stream from STDIN to the time series": a      *)
(* write that reports success has had every batch taken; a truncate that   *)
(* does was carried out by the server.                                     *)
SuccessIsTrue ==
  exit = "ok" =>
    /\ command = "write" => batches = << >> /\ accepted = total
    /\ command = "truncate" => carried_out

(* "truncate: removes all data from the given time series".  This fails:   *)
(* the server reports success when it could not open or remove the file.   *)
TruncateEmpties == exit = "ok" /\ command = "truncate" => accepted = 0

(* write, read and truncate come to an end, whether or not the server      *)
(* answers.                                                                *)
CommandsEnd ==
  exit = "running" /\ command \in { "write", "read", "truncate" } ~> exit # "running"

(* "latest: reads the latest value from the time series": the command      *)
(* comes to an end.                                                        *)
LatestEnds == exit = "running" ~> exit \in { "ok", "failed" }
=============================================================================
