------------------------------ MODULE Session -------------------------------
(***************************************************************************)
(* A client session (src/ctl/session.c) and the server's packet handler    *)
(* (src/network/client-handler.c) at the two ends of a TCP connection.     *)
(*                                                                         *)
(* The session's calls block: a call sends a request and, in a later step, *)
(* takes the answer from the connection.  The server may go away at any    *)
(* moment, also between storing points and answering.  Of a series only    *)
(* counts are kept: the points of the writes carried out since it was last *)
(* emptied, and for a read how many of the points in its window the server *)
(* finds.  The series holds some of the accepted points, and one at least, *)
(* if any: points of the same time replace each other, those of time 0 are *)
(* dropped, and a write of nothing else fails.  Which points these are is  *)
(* the matter of Series and ReadPages.  Module Ctl adds the programs that  *)
(* make the calls.                                                         *)
(***************************************************************************)
EXTENDS Integers, Sequences

CONSTANTS
  MaxPoints,      \* bound: points accepted for the series
  MaxBatch,       \* bound: points in a write
  PacketPoints,   \* points that fit in SDB_SERVER_PACKET_MAX_LEN
  PagePoints      \* points_per_packet of handle_read

ASSUME SessionAssumption ==
  /\ MaxPoints \in Nat /\ MaxBatch \in Nat /\ PacketPoints \in Nat
  /\ PagePoints \in Nat \ {0}

VARIABLES
  accepted,       \* points of the writes the series has taken
  up,             \* the server still holds the connection
  to_server,      \* requests under way
  to_client,      \* answers under way
  read_open,      \* session->read_open
  read_response,  \* points_count of session->read_response, 0 for NULL
  call,           \* the call that waits for an answer
  result,         \* what the last call returned
  carried_out,    \* the server has done what the last session_write or session_truncate asked
  due,            \* points the server finds in the window of the open read
  got             \* points session_read_next has delivered

conn == << up, to_server, to_client >>
session == << read_open, read_response, call, result >>
vars == << accepted, conn, session, carried_out, due, got >>

OK == 0
ERROR == 1
Packet == [ type : { "write", "truncate", "read", "latest" }, count : 0 .. MaxPoints + MaxBatch ]
Answer == [ type : { "simple" }, count : { OK, ERROR } ] \cup [ type : { "read" }, count : 0 .. MaxPoints ]
(* The payloads protocol.c puts together: a type and what it carries. *)
Message(type, count) == [ type |-> type, count |-> count ]

Null == Message("null", 0)

Returned(c, v) == [ call |-> c, value |-> v ]
Smaller(a, b) == IF a < b THEN a ELSE b

-----------------------------------------------------------------------------
(* session_create: a connection to the server, on which nothing was sent. *)
Init ==
  /\ accepted \in 0 .. MaxPoints
  /\ up = TRUE /\ to_server = << >> /\ to_client = << >>
  /\ read_open = FALSE /\ read_response = 0
  /\ call = "none" /\ result = Returned("create", 0)
  /\ carried_out = FALSE /\ due = 0 /\ got = 0

(* session_destroy, and session_create of another session. *)
Reopen ==
  /\ call = "none"
  /\ up' = TRUE /\ to_server' = << >> /\ to_client' = << >>
  /\ read_open' = FALSE /\ read_response' = 0
  /\ result' = Returned("create", 0)
  /\ carried_out' = FALSE /\ due' = 0 /\ got' = 0
  /\ UNCHANGED << accepted, call >>

(* session_send_and_destroy; what is sent to a server that is gone is lost. *)
session_send(type, count) ==
  to_server' = IF up THEN Append(to_server, Message(type, count)) ELSE to_server

Refuse(c) ==
  /\ read_open
  /\ result' = Returned(c, -1)
  /\ UNCHANGED << accepted, conn, read_open, read_response, call, carried_out, due, got >>

(* Mutant: a write does not look at read_open. *)
session_write_WhileReading(count) ==
  /\ call = "none"
  /\ session_send("write", count)
  /\ call' = "write"
  /\ carried_out' = FALSE
  /\ UNCHANGED << accepted, up, to_client, read_open, read_response, result, due, got >>

(* session_write up to the answer. *)
session_write(count) ==
  /\ call = "none"
  /\ \/ Refuse("write")
     \/ /\ ~ read_open
        /\ session_send("write", count)
        /\ call' = "write"
        /\ carried_out' = FALSE
        /\ UNCHANGED << accepted, up, to_client, read_open, read_response, result, due, got >>

session_truncate ==
  /\ call = "none"
  /\ \/ Refuse("truncate")
     \/ /\ ~ read_open
        /\ session_send("truncate", 0)
        /\ call' = "truncate"
        /\ carried_out' = FALSE
        /\ UNCHANGED << accepted, up, to_client, read_open, read_response, result, due, got >>

OpenRead(type, window) ==
  /\ ~ read_open
  /\ session_send(type, window)
  /\ read_open' = TRUE
  /\ result' = Returned(type, 0)
  /\ due' = window
  /\ got' = 0
  /\ UNCHANGED << accepted, up, to_client, read_response, call, carried_out >>

(* The points found are some of the accepted ones, and none when the       *)
(* series cannot be opened.                                                *)
session_read(window) ==
  /\ call = "none"
  /\ window <= accepted
  /\ Refuse("read") \/ OpenRead("read", window)

Latest == { 0, Smaller(1, accepted) }

session_read_latest ==
  /\ call = "none"
  /\ Refuse("latest") \/ \E window \in Latest : OpenRead("latest", window)

(* session_read_next up to the answer. *)
session_read_next ==
  /\ call = "none"
  /\ \/ /\ ~ read_open
        /\ result' = Returned("read_next", 0)
        /\ UNCHANGED << read_response, call >>
     \/ /\ read_open
        /\ read_response' = 0
        /\ call' = "read_next"
        /\ UNCHANGED result
  /\ UNCHANGED << accepted, conn, read_open, carried_out, due, got >>

-----------------------------------------------------------------------------
(* session_receive: NULL for a connection that ended, and for a packet of  *)
(* another type.                                                           *)
session_receive(type) ==
  IF to_client # << >> /\ Head(to_client).type = type THEN Head(to_client) ELSE Null

(* Mutant: any answer of the server is taken for success. *)
SimpleResult_AnyCode(response) ==
  IF response = Null THEN 1 ELSE 0

SimpleResult(response) ==
  IF response = Null \/ response.count # OK THEN 1 ELSE 0

Received == to_client' = IF to_client = << >> THEN to_client ELSE Tail(to_client)

(* The answer to session_write or session_truncate: the rest of            *)
(* session_send_with_simple_response.                                      *)
ReceiveSimple ==
  /\ call \in { "write", "truncate" }
  /\ to_client # << >> \/ ~ up
  /\ result' = Returned(call, SimpleResult(session_receive("simple")))
  /\ call' = "none"
  /\ Received
  /\ UNCHANGED << accepted, up, to_server, read_open, read_response, carried_out, due, got >>

(* Mutant: a read is closed by its first packet. *)
StaysOpen_Never(response) == FALSE

StaysOpen(response) == response # Null /\ response.count # 0

(* The rest of session_read_next. *)
ReceivePage ==
  LET response == session_receive("read")
      more     == response # Null /\ response.count # 0
  IN  /\ call = "read_next"
      /\ to_client # << >> \/ ~ up
      /\ read_open' = StaysOpen(response)
      /\ read_response' = IF more THEN response.count ELSE 0
      /\ result' = Returned("read_next", IF more THEN 1 ELSE 0)
      /\ got' = IF more THEN got + response.count ELSE got
      /\ call' = "none"
      /\ Received
      /\ UNCHANGED << accepted, up, to_server, carried_out, due >>

-----------------------------------------------------------------------------
Simple(status) == << Message("simple", IF status = 0 THEN OK ELSE ERROR) >>
ReadResponse(count) == Message("read", count)

(* Mutant: every packet but the empty one is sent full. *)
Pages_LastFull(window) ==
  LET full == (window + PagePoints - 1) \div PagePoints
  IN  [ i \in 1 .. full + 1 |-> ReadResponse(IF i > full THEN 0 ELSE PagePoints) ]

(* The answer of handle_read, see ReadPages; for a series that cannot be   *)
(* opened it is a single empty packet, too.                                *)
Pages(window) ==
  LET full == (window + PagePoints - 1) \div PagePoints
  IN  [ i \in 1 .. full + 1 |->
          ReadResponse(IF i > full THEN 0 ELSE Smaller(PagePoints, window - (i - 1) * PagePoints)) ]

(* handle_write: database_write takes the points, or fails.  The bound     *)
(* MaxPoints stands for a database that refuses them.                      *)
handle_write(request) ==
  \E status \in { 0, -1 } :
    /\ status = 0 => accepted + request.count <= MaxPoints
    /\ accepted' = IF status = 0 THEN accepted + request.count ELSE accepted
    /\ carried_out' = (status = 0)
    /\ to_client' = to_client \o Simple(status)

(* handle_truncate: database_truncate returns 0 in any case, also when the *)
(* series could not be opened or its file not removed.                     *)
handle_truncate ==
  /\ accepted' \in { 0, accepted }
  /\ carried_out' = TRUE
  /\ to_client' = to_client \o Simple(0)

handle_read(request) ==
  /\ to_client' = to_client \o Pages(request.count)
  /\ UNCHANGED << accepted, carried_out >>

handle_read_latest(request) ==
  /\ to_client' = Append(to_client, ReadResponse(request.count))
  /\ UNCHANGED << accepted, carried_out >>

Dispatch(request) ==
  \/ request.type = "write" /\ handle_write(request)
  \/ request.type = "truncate" /\ handle_truncate
  \/ request.type = "read" /\ handle_read(request)
  \/ request.type = "latest" /\ handle_read_latest(request)

(* A request that arrives: one that is too long costs the connection, the  *)
(* others are handled to the end.                                          *)
client_handler_process_message ==
  /\ up /\ to_server # << >>
  /\ LET request == Head(to_server)
     IN  \/ /\ request.count > PacketPoints /\ request.type = "write"
            /\ up' = FALSE /\ to_server' = << >>
            /\ UNCHANGED << accepted, to_client, carried_out >>
         \/ /\ ~ (request.count > PacketPoints /\ request.type = "write")
            /\ Dispatch(request)
            /\ to_server' = Tail(to_server)
            /\ UNCHANGED up
  /\ UNCHANGED << session, due, got >>

(* The server stops or the connection breaks; what was under way to the    *)
(* client arrives up to some packet.                                       *)
Disconnect ==
  /\ up
  /\ up' = FALSE
  /\ to_server' = << >>
  /\ \E n \in 0 .. Len(to_client) : to_client' = SubSeq(to_client, 1, n)
  /\ UNCHANGED << accepted, session, carried_out, due, got >>

Call ==
  \/ \E count \in 1 .. MaxBatch : session_write(count)
  \/ session_truncate
  \/ \E window \in 0 .. MaxPoints : session_read(window)
  \/ session_read_latest
  \/ session_read_next

Step == ReceiveSimple \/ ReceivePage \/ client_handler_process_message

-----------------------------------------------------------------------------
TypeOK ==
  /\ accepted \in 0 .. MaxPoints
  /\ up \in BOOLEAN /\ read_open \in BOOLEAN /\ carried_out \in BOOLEAN
  /\ to_server \in Seq(Packet) /\ to_client \in Seq(Answer)
  /\ read_response \in 0 .. PagePoints
  /\ call \in { "none", "write", "truncate", "read_next",
                 "lib_write", "lib_truncate", "lib_latest", "lib_next" }  \* see Clients
  /\ due \in 0 .. MaxPoints /\ got \in 0 .. due

(* The two ends stay in step: when no call waits and no read is open       *)
(* nothing is under way, so that no call is given the answer to an earlier *)
(* one; a simple answer is never mixed with the packets of a read.         *)
InStep ==
  /\ call = "none" /\ ~ read_open => to_server = << >> /\ to_client = << >>
  /\ read_open => \A i \in 1 .. Len(to_client) : to_client[i].type = "read"
  /\ call \in { "write", "truncate", "lib_write", "lib_truncate" } =>
       /\ Len(to_server) + Len(to_client) <= 1
       /\ \A i \in 1 .. Len(to_client) : to_client[i].type = "simple"

(* session_write returns 0 only for points the server has taken, and       *)
(* reports a failure for such points only when the connection was lost     *)
(* before the answer came.                                                 *)
WriteResultIsTrue ==
  result.call = "write" /\ call = "none" /\ result.value # -1 =>
    /\ result.value = 0 => carried_out
    /\ carried_out /\ up => result.value = 0

(* As long as the connection stands, session_read_next returns 0 only      *)
(* after it has delivered every point the server found in the window.      *)
ReadIsComplete ==
  result = Returned("read_next", 0) /\ call = "none" /\ ~ read_open /\ up => got = due
=============================================================================
