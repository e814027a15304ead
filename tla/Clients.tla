------------------------------- MODULE Clients -------------------------------
(***************************************************************************)
(* Programs that use the client libraries (clients/python/pyshaka and      *)
(* clients/dotnet/ShakaDB.Client), against the same server as module Ctl.  *)
(*                                                                         *)
(* Both libraries split a write into requests, block for every answer and  *)
(* report failures by raising.  A read of theirs is lazy: the caller gets  *)
(* an iterator and the packets are received as it is advanced.  In Python  *)
(* it is a generator, so that even the request is sent by the first        *)
(* advance, after other calls perhaps, while read_open was looked at when  *)
(* it was created.  A result is iterated over once.                        *)
(***************************************************************************)
EXTENDS Ctl

CONSTANTS
  WritePoints,   \* MAX_POINTS_PER_PACKET
  Readers        \* the iterators a program has at the same time

ASSUME ClientsAssumption == WritePoints \in Nat \ {0}

VARIABLES
  reader,     \* each iterator: its state, the points it asks for and has got
  pending,    \* points of the current write that were not sent yet
  expected    \* points the series must have taken after the write

lib == << reader, pending, expected >>
clients_vars == << ctl_vars, lib >>

Reader == [ state : { "none", "created", "open", "waiting", "ended", "failed" },
            due : 0 .. MaxPoints, got : 0 .. MaxPoints ]
NoReader == [ state |-> "none", due |-> 0, got |-> 0 ]

ClientsInit ==
  /\ CtlInit
  /\ reader = [ r \in Readers |-> NoReader ]
  /\ pending = 0 /\ expected = 0

(* The program is about to make a call of the library. *)
InProgram(languages) == exit = "running" /\ command \in languages /\ call = "none"

(* A call is refused while a read is open. *)
EnsurePreConditions == ~ read_open

(* Sending to a server that is gone may raise. *)
SendFails(c) ==
  /\ ~ up
  /\ result' = Returned(c, 1)
  /\ UNCHANGED << accepted, conn, call, read_response, carried_out, due, got >>

-----------------------------------------------------------------------------
(* write: the points in requests of WritePoints each, if there are any. *)
SendPage(left) ==
  LET count == Smaller(WritePoints, left)
  IN  session_send("write", count) /\ pending' = left - count

write(count) ==
  /\ InProgram({ "python", "dotnet" })
  /\ \/ Refuse("lib_write") /\ UNCHANGED lib
     \/ EnsurePreConditions /\ count > 0 /\ SendFails("lib_write") /\ UNCHANGED << read_open, lib >>
     \/ /\ EnsurePreConditions
        /\ expected' = accepted + count
        /\ \/ /\ count = 0
              /\ result' = Returned("lib_write", 0)
              /\ UNCHANGED << to_server, call, pending >>
           \/ /\ count > 0
              /\ SendPage(count)
              /\ call' = "lib_write"
              /\ UNCHANGED result
        /\ UNCHANGED << accepted, up, to_client, read_open, read_response, carried_out, due, got, reader >>
  /\ UNCHANGED ctl

Ask(c, type, count) ==
  /\ InProgram({ "python", "dotnet" })
  /\ \/ Refuse(c)
     \/ EnsurePreConditions /\ SendFails(c) /\ UNCHANGED read_open
     \/ /\ EnsurePreConditions
        /\ session_send(type, count)
        /\ call' = c
        /\ UNCHANGED << accepted, up, to_client, read_open, read_response, result, carried_out, due, got >>
  /\ UNCHANGED << ctl, lib >>

truncate == Ask("lib_truncate", "truncate", 0)

latest == \E window \in Latest : Ask("lib_latest", "latest", window)

(* The request of a read, and the flag. *)
SendRead(r, state) ==
  /\ \E window \in 0 .. accepted :
       /\ session_send("read", window)
       /\ reader' = [ reader EXCEPT ![r] = [ state |-> state, due |-> window, got |-> 0 ] ]
  /\ read_open' = TRUE

(* Python: read makes the generator and does nothing else. *)
read(r) ==
  /\ InProgram({ "python" }) /\ reader[r].state = "none"
  /\ \/ Refuse("lib_read") /\ UNCHANGED reader
     \/ /\ EnsurePreConditions
        /\ reader' = [ reader EXCEPT ![r].state = "created" ]
        /\ UNCHANGED vars
  /\ UNCHANGED << ctl, pending, expected >>

(* Python: its first advance sends the request and waits for a packet. *)
Start(r) ==
  /\ InProgram({ "python" }) /\ reader[r].state = "created"
  /\ \/ /\ SendFails("lib_next")
        /\ reader' = [ reader EXCEPT ![r].state = "failed" ]
        /\ UNCHANGED read_open
     \/ /\ SendRead(r, "waiting")
        /\ call' = "lib_next"
        /\ UNCHANGED << accepted, up, to_client, read_response, result, carried_out, due, got >>
  /\ UNCHANGED << ctl, pending, expected >>

(* .NET: Read sets the flag and sends the request. *)
Read(r) ==
  /\ InProgram({ "dotnet" }) /\ reader[r].state = "none"
  /\ \/ Refuse("lib_read") /\ UNCHANGED reader
     \/ EnsurePreConditions /\ SendFails("lib_read") /\ read_open' = TRUE /\ UNCHANGED reader
     \/ /\ EnsurePreConditions
        /\ SendRead(r, "open")
        /\ UNCHANGED << accepted, up, to_client, read_response, call, result, carried_out, due, got >>
  /\ UNCHANGED << ctl, pending, expected >>

(* The iterator is advanced past the points it holds. *)
Advanced(r) ==
  /\ InProgram({ "python", "dotnet" }) /\ reader[r].state = "open"
  /\ reader' = [ reader EXCEPT ![r].state = "waiting" ]
  /\ call' = "lib_next"
  /\ UNCHANGED << accepted, conn, read_open, read_response, result, carried_out, due, got, ctl, pending, expected >>

(* The program is done with the iterator; read_open stays as it is. *)
Drop(r) ==
  /\ InProgram({ "python", "dotnet" }) /\ reader[r].state # "none"
  /\ reader' = [ reader EXCEPT ![r] = NoReader ]
  /\ UNCHANGED << vars, ctl, pending, expected >>

(* close or Dispose, and another session. *)
Close ==
  /\ InProgram({ "python", "dotnet" })
  /\ Reopen
  /\ reader' = [ r \in Readers |-> NoReader ]
  /\ UNCHANGED << ctl, pending, expected >>

-----------------------------------------------------------------------------
(* Python reads the header and raises if the type is not the expected one, *)
(* with the payload still unread; .NET reads the packet.                   *)
Consumed(type) ==
  to_client' =
    IF to_client = << >> THEN << >>
    ELSE IF Head(to_client).type # type /\ command = "python" THEN << Null >> \o Tail(to_client)
    ELSE Tail(to_client)

Arrived(c) == call = c /\ (to_client # << >> \/ ~ up)

(* Mutant: whatever the server answers is success. *)
Success_AnyCode(response) == response # Null

Success(response) == response # Null /\ response.count = OK

(* The answer to a request of write: the next one, or the end. *)
AnswerWrite ==
  LET response == session_receive("simple")
  IN  /\ Arrived("lib_write") /\ Consumed("simple")
      /\ \/ /\ Success(response) /\ pending > 0
            /\ SendPage(pending)
            /\ UNCHANGED << call, result >>
         \/ /\ ~ (Success(response) /\ pending > 0)
            /\ call' = "none" /\ result' = Returned("lib_write", IF Success(response) THEN 0 ELSE 1)
            /\ pending' = 0
            /\ UNCHANGED to_server
      /\ UNCHANGED << accepted, up, read_open, read_response, carried_out, due, got, reader, expected >>

AnswerTruncate ==
  /\ Arrived("lib_truncate") /\ Consumed("simple")
  /\ call' = "none" /\ result' = Returned("lib_truncate", IF Success(session_receive("simple")) THEN 0 ELSE 1)
  /\ UNCHANGED << accepted, up, to_server, read_open, read_response, carried_out, due, got, lib >>

(* Mutant: latest reads up to an empty packet, as a read does. *)
AnswerLatest_UpToEmpty ==
  LET response == session_receive("read")
  IN  /\ Arrived("lib_latest") /\ Consumed("read")
      /\ IF response = Null \/ response.count = 0
         THEN call' = "none" /\ result' = Returned("lib_latest", IF response # Null THEN 0 ELSE 1)
         ELSE UNCHANGED << call, result >>
      /\ UNCHANGED << accepted, up, to_server, read_open, read_response, carried_out, due, got, lib >>

AnswerLatest ==
  /\ Arrived("lib_latest") /\ Consumed("read")
  /\ call' = "none" /\ result' = Returned("lib_latest", IF session_receive("read") # Null THEN 0 ELSE 1)
  /\ UNCHANGED << accepted, up, to_server, read_open, read_response, carried_out, due, got, lib >>

(* Mutant: a connection that ends is taken for the end of the data. *)
Outcome_Lenient(response) ==
  IF response = Null \/ response.count = 0 THEN "ended" ELSE "open"

(* What becomes of the iterator: it raises, ends, or yields the points. *)
Outcome(response) ==
  IF response = Null THEN "failed" ELSE IF response.count = 0 THEN "ended" ELSE "open"

AnswerPage ==
  LET response == session_receive("read")
      outcome  == Outcome(response)
  IN  /\ Arrived("lib_next") /\ Consumed("read")
      /\ \E r \in Readers :
           /\ reader[r].state = "waiting"
           /\ reader' = [ reader EXCEPT ![r].state = outcome, ![r].got = @ + response.count ]
      /\ read_open' = (outcome # "ended" /\ read_open)
      /\ call' = "none" /\ result' = Returned("lib_next", IF outcome = "failed" THEN 1 ELSE 0)
      /\ UNCHANGED << accepted, up, to_server, read_response, carried_out, due, got, pending, expected >>

Answered == (AnswerWrite \/ AnswerTruncate \/ AnswerLatest \/ AnswerPage) /\ UNCHANGED ctl

Program ==
  \/ \E count \in 0 .. MaxBatch : write(count)
  \/ truncate \/ latest
  \/ \E r \in Readers : read(r) \/ Start(r) \/ Read(r) \/ Advanced(r) \/ Drop(r)
  \/ Close

ClientsNext ==
  \/ CtlNext /\ UNCHANGED lib
  \/ Program
  \/ Answered

(* The commands and the server are as fair as in Ctl, and a program that   *)
(* waits for an answer takes it.                                           *)
ClientsSpec ==
  /\ ClientsInit /\ [][ClientsNext]_clients_vars
  /\ WF_clients_vars(execute_command /\ UNCHANGED lib)
  /\ WF_clients_vars(Step /\ UNCHANGED << ctl, lib >>)
  /\ WF_clients_vars(Answered)

-----------------------------------------------------------------------------
ClientsTypeOK ==
  /\ CtlTypeOK
  /\ reader \in [ Readers -> Reader ]
  /\ pending \in 0 .. MaxBatch
  /\ expected \in 0 .. MaxPoints + MaxBatch

(* A write of a library that returns without raising has had every point   *)
(* taken, however many requests it took.                                   *)
LibraryWriteIsTrue ==
  result = Returned("lib_write", 0) /\ call = "none" => accepted = expected

(* An iterator that comes to its end has yielded every point of the        *)
(* window, also when the connection breaks: then it raises.                *)
IterationIsComplete ==
  \A r \in Readers : reader[r].state = "ended" => reader[r].got = reader[r].due

(* Every call of a library returns or raises. *)
LibraryCallsEnd ==
  call \in { "lib_write", "lib_truncate", "lib_latest", "lib_next" } ~> call = "none"

(* "Multiple active reads are not supported" (pyshaka.py, which raises     *)
(* this error): at most one iterator has a read under way.                 *)
OneActiveRead ==
  LET active == { r \in Readers : reader[r].state \in { "open", "waiting" } }
  IN  \A r, s \in active : r = s
=============================================================================
