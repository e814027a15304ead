------------------------------- MODULE Server -------------------------------
(***************************************************************************)
(* The server (src/network/server.c): one libuv loop whose callbacks       *)
(* accept connections into a table of SDB_MAX_CLIENTS slots, put packets   *)
(* together from the chunks the socket delivers, hand them to the packet   *)
(* handler, send its answer, and close connections and the loop.           *)
(*                                                                         *)
(* Requests are any stream of packets.  A client sends one and waits for   *)
(* the answer, as those of the repository do, or sends up to Depth of them *)
(* without waiting.  Bytes are counted, not represented.  What libuv does  *)
(* is taken from how server.c uses it and marked external in the map.      *)
(***************************************************************************)
EXTENDS Integers, FiniteSets, Sequences

CONSTANTS
  Conn,          \* the connections clients make, one after another
  NoConn,        \* an empty slot
  Pipelining,    \* those whose client does not wait for an answer
  Depth,         \* bound: the requests it has under way at once
  MaxClients,    \* SDB_MAX_CLIENTS
  HeaderLen,     \* sizeof(packet_t)
  PacketMax,     \* SDB_SERVER_PACKET_MAX_LEN
  ReadMax,       \* SDB_SERVER_READ_BUFFER_MAX_LEN
  Request        \* the packets clients send

(* A packet has the wrong magic, is one the handler refuses (a payload     *)
(* that does not validate), or is good.  A total_size that leaves no       *)
(* payload is none of the sizes payload_validate accepts.                  *)
Packets ==
  { r \in [ size : Nat, kind : { "no_magic", "refused", "good" } ] :
      r.kind = "good" => r.size > HeaderLen }

ASSUME ServerAssumption ==
  /\ NoConn \notin Conn
  /\ Depth \in Nat \ {0}
  /\ MaxClients \in Nat \ {0}
  /\ HeaderLen \in Nat \ {0}
  /\ PacketMax \in Nat /\ HeaderLen <= PacketMax
  /\ ReadMax \in Nat \ {0}
  /\ Request \subseteq Packets

VARIABLES
  sock,           \* the connection, as the server sees it
  peer,           \* the client at its other end
  clients,        \* server->clients
  buffer_length,  \* client->buffer_length
  requests,       \* the packets sent and not handled, the oldest first
  in_flight,      \* how many of their bytes were not read yet
  writing,        \* how many answers are with uv_write
  unanswered,     \* how many requests the client has no answer to
  listening,      \* libuv watches the master socket
  stop_request,   \* uv_async_send was called
  loop            \* "running", "stopping" or "ended"

conn_vars == << sock, peer, clients, buffer_length, requests, in_flight, writing, unanswered >>
vars == << conn_vars, listening, stop_request, loop >>

Slot == 0 .. MaxClients - 1

FreeSlots == { i \in Slot : clients[i] = NoConn }

(* Mutant: the last slot is not looked at. *)
OpenClients_AllButLast == { clients[i] : i \in Slot \ { MaxClients - 1 } } \ { NoConn }

OpenClients == { clients[i] : i \in Slot } \ { NoConn }

Window(c) == IF c \in Pipelining THEN Depth ELSE 1

(* A packet on its way, and the place behind it, counted from the front of *)
(* the buffer.                                                             *)
Sent == [ packet : Request, end : Nat ]

(* The bytes a packet has: a header at least. *)
Bytes(r) == IF r.size < HeaderLen THEN HeaderLen ELSE r.size

EndOf(q) == IF q = << >> THEN 0 ELSE q[Len(q)].end

WithLast(q, r) == Append(q, [ packet |-> r, end |-> EndOf(q) + Bytes(r) ])

(* The packets behind the first, once that has left the buffer. *)
Behind(q) ==
  [ i \in 1 .. Len(q) - 1 |-> [ packet |-> q[i + 1].packet, end |-> q[i + 1].end - q[1].end ] ]

-----------------------------------------------------------------------------
Init ==
  /\ sock = [ c \in Conn |-> "none" ]
  /\ peer = [ c \in Conn |-> "here" ]
  /\ clients = [ i \in Slot |-> NoConn ]
  /\ buffer_length = [ c \in Conn |-> 0 ]
  /\ requests = [ c \in Conn |-> << >> ]
  /\ in_flight = [ c \in Conn |-> 0 ]
  /\ writing = [ c \in Conn |-> 0 ]
  /\ unanswered = [ c \in Conn |-> 0 ]
  /\ listening = TRUE
  /\ stop_request = FALSE
  /\ loop = "running"

(* The clients: connect, send a request, hang up. *)
Connect(c) ==
  /\ loop = "running" /\ sock[c] = "none"
  /\ sock' = [ sock EXCEPT ![c] = "backlog" ]
  /\ UNCHANGED << peer, clients, buffer_length, requests, in_flight, writing, unanswered,
                  listening, stop_request, loop >>

Send(c) ==
  /\ sock[c] \in { "backlog", "held", "alive" } /\ peer[c] = "here"
  /\ unanswered[c] < Window(c)
  /\ \E r \in Request :
       /\ requests' = [ requests EXCEPT ![c] = WithLast(@, r) ]
       /\ in_flight' = [ in_flight EXCEPT ![c] = @ + Bytes(r) ]
  /\ unanswered' = [ unanswered EXCEPT ![c] = @ + 1 ]
  /\ UNCHANGED << sock, peer, clients, buffer_length, writing, listening, stop_request, loop >>

HangUp(c) ==
  /\ sock[c] \in { "backlog", "held", "alive" } /\ peer[c] = "here"
  /\ peer' = [ peer EXCEPT ![c] = "gone" ]
  /\ UNCHANGED << sock, clients, buffer_length, requests, in_flight, writing, unanswered,
                  listening, stop_request, loop >>

-----------------------------------------------------------------------------
client_create(c, index) ==
  /\ clients' = [ clients EXCEPT ![index] = c ]
  /\ sock' = [ sock EXCEPT ![c] = "alive" ]

(* on_client_connected: take the first free slot, or return.  libuv stops  *)
(* watching the master socket until the connection it has handed out is    *)
(* accepted.                                                               *)
on_client_connected(c) ==
  /\ loop = "running" /\ listening /\ sock[c] = "backlog"
  /\ \/ /\ \E new_client_index \in FreeSlots :
             /\ \A j \in FreeSlots : new_client_index <= j
             /\ client_create(c, new_client_index)
        /\ UNCHANGED listening
     \/ /\ FreeSlots = {}
        /\ sock' = [ sock EXCEPT ![c] = "held" ]
        /\ listening' = FALSE
        /\ UNCHANGED clients
  /\ UNCHANGED << peer, buffer_length, requests, in_flight, writing, unanswered, stop_request, loop >>

(* Mutant: the slot of a closed client stays taken. *)
client_disconnect_and_destroy_KeepSlot(C) ==
  /\ UNCHANGED clients
  /\ sock' = [ c \in Conn |-> IF c \in C THEN "closing" ELSE sock[c] ]

(* client_disconnect_and_destroy for a set of clients. *)
client_disconnect_and_destroy(C) ==
  /\ clients' = [ i \in Slot |-> IF clients[i] \in C THEN NoConn ELSE clients[i] ]
  /\ sock' = [ c \in Conn |-> IF c \in C THEN "closing" ELSE sock[c] ]

Disconnect(c) ==
  /\ client_disconnect_and_destroy({ c })
  /\ UNCHANGED << peer, buffer_length, requests, in_flight, writing, unanswered >>

(* Mutant: the length of a packet is not looked at. *)
Malformed_AnySize(r) == r.kind = "no_magic"

Malformed(r) == r.kind = "no_magic" \/ r.size > PacketMax

(* Mutant: the header is counted twice. *)
Rest_TwoHeaders(length, r) == length - (r.size + HeaderLen)

(* Mutant: only the payload is removed. *)
Rest_PayloadOnly(length, r) == length - (r.size - HeaderLen)

(* The bytes of the buffer after a packet was handled: what came behind it *)
(* moves to the front.                                                     *)
Rest(length, r) == length - r.size

(* Wait for more bytes. *)
Buffer(c, length) ==
  /\ buffer_length' = [ buffer_length EXCEPT ![c] = length ]
  /\ UNCHANGED << sock, peer, clients, requests, writing >>

(* Mutant: the handler returns without an answer. *)
Answered_Never(c) == UNCHANGED writing

(* The answer is with uv_write, unless that refuses it because the client  *)
(* is gone; the handler returns 0 all the same.                            *)
Answered(c) ==
  \/ writing' = [ writing EXCEPT ![c] = @ + 1 ]
  \/ peer[c] = "gone" /\ UNCHANGED writing

(* The handler accepts the packet at the front of the buffer. *)
Handle(c, length) ==
  /\ Answered(c)
  /\ buffer_length' = [ buffer_length EXCEPT ![c] = Rest(length, requests[c][1].packet) ]
  /\ requests' = [ requests EXCEPT ![c] = Behind(@) ]
  /\ UNCHANGED << sock, peer, clients >>

(* How many bytes one read can yield. *)
on_alloc == 1 .. ReadMax

(* on_data_read with k > 0 bytes: at most one packet is handled, also when *)
(* the buffer holds more.                                                  *)
on_data_read(c) ==
  /\ loop = "running" /\ sock[c] = "alive"
  /\ \E k \in on_alloc :
       LET length == buffer_length[c] + k
           r      == requests[c][1].packet
       IN  /\ k <= in_flight[c]
           /\ in_flight' = [ in_flight EXCEPT ![c] = @ - k ]
           /\ \/ length < HeaderLen /\ Buffer(c, length)
              \/ /\ length >= HeaderLen /\ (Malformed(r) \/ (length >= r.size /\ r.kind = "refused"))
                 /\ client_disconnect_and_destroy({ c })
                 /\ buffer_length' = [ buffer_length EXCEPT ![c] = length ]
                 /\ UNCHANGED << peer, requests, writing >>
              \/ length >= HeaderLen /\ ~ Malformed(r) /\ length < r.size /\ Buffer(c, length)
              \/ length >= HeaderLen /\ ~ Malformed(r) /\ length >= r.size /\ r.kind = "good" /\ Handle(c, length)
  /\ UNCHANGED << unanswered, listening, stop_request, loop >>

(* on_data_read with nread < 0: the client hung up or the connection broke. *)
on_hang_up(c) ==
  /\ loop = "running" /\ sock[c] = "alive" /\ peer[c] = "gone"
  /\ Disconnect(c)
  /\ UNCHANGED << listening, stop_request, loop >>

(* on_write_complete: the answer is on its way, the client can go on. *)
on_write_complete(c) ==
  /\ writing[c] > 0 /\ sock[c] = "alive"
  /\ writing' = [ writing EXCEPT ![c] = @ - 1 ]
  /\ unanswered' = [ unanswered EXCEPT ![c] = @ - 1 ]
  /\ UNCHANGED << sock, peer, clients, buffer_length, requests, in_flight,
                  listening, stop_request, loop >>

(* on_client_free; writes that were pending are completed before it. *)
on_client_free(c) ==
  /\ sock[c] = "closing"
  /\ sock' = [ sock EXCEPT ![c] = "none" ]
  /\ peer' = [ peer EXCEPT ![c] = "here" ]
  /\ buffer_length' = [ buffer_length EXCEPT ![c] = 0 ]
  /\ requests' = [ requests EXCEPT ![c] = << >> ]
  /\ in_flight' = [ in_flight EXCEPT ![c] = 0 ]
  /\ writing' = [ writing EXCEPT ![c] = 0 ]
  /\ unanswered' = [ unanswered EXCEPT ![c] = 0 ]
  /\ UNCHANGED << clients, listening, stop_request, loop >>

-----------------------------------------------------------------------------
(* control_signal_handler and server_stop; signals may repeat. *)
server_stop ==
  /\ stop_request' = TRUE
  /\ UNCHANGED << conn_vars, listening, loop >>

(* on_server_shutdown: connections that were not accepted go with the      *)
(* master socket.                                                          *)
on_server_shutdown ==
  /\ loop = "running" /\ stop_request
  /\ LET waiting == { c \in Conn : sock[c] \in { "backlog", "held" } }
     IN  /\ sock' = [ c \in Conn |-> IF c \in waiting THEN "none"
                                     ELSE IF c \in OpenClients THEN "closing" ELSE sock[c] ]
         /\ clients' = [ i \in Slot |-> IF clients[i] \in OpenClients THEN NoConn ELSE clients[i] ]
         /\ in_flight' = [ c \in Conn |-> IF c \in waiting THEN 0 ELSE in_flight[c] ]
         /\ peer' = [ c \in Conn |-> IF c \in waiting THEN "here" ELSE peer[c] ]
         /\ requests' = [ c \in Conn |-> IF c \in waiting THEN << >> ELSE requests[c] ]
         /\ unanswered' = [ c \in Conn |-> IF c \in waiting THEN 0 ELSE unanswered[c] ]
  /\ listening' = FALSE
  /\ loop' = "stopping"
  /\ UNCHANGED << buffer_length, writing, stop_request >>

(* Mutant: the loop is left without waiting for the handles to close. *)
server_run_returns_AtOnce ==
  /\ loop = "stopping"
  /\ loop' = "ended"
  /\ UNCHANGED << conn_vars, listening, stop_request >>

(* uv_run returns once every handle is closed. *)
server_run_returns ==
  /\ loop = "stopping"
  /\ \A c \in Conn : sock[c] = "none"
  /\ loop' = "ended"
  /\ UNCHANGED << conn_vars, listening, stop_request >>

Client(c) == Connect(c) \/ Send(c) \/ HangUp(c)

Callback(c) ==
  \/ on_client_connected(c)
  \/ on_data_read(c)
  \/ on_hang_up(c)
  \/ on_write_complete(c)
  \/ on_client_free(c)

Next ==
  \/ \E c \in Conn : Client(c) \/ Callback(c)
  \/ server_stop
  \/ on_server_shutdown
  \/ server_run_returns

(* The loop polls all its handles in every round: a callback that stays    *)
(* due is run.  Nothing is assumed of clients and signals.                 *)
Fairness ==
  /\ \A c \in Conn : /\ WF_vars(on_client_connected(c))
                     /\ WF_vars(on_data_read(c))
                     /\ WF_vars(on_hang_up(c))
                     /\ WF_vars(on_write_complete(c))
                     /\ WF_vars(on_client_free(c))
  /\ WF_vars(on_server_shutdown)
  /\ WF_vars(server_run_returns)

Spec == Init /\ [][Next]_vars /\ Fairness
-----------------------------------------------------------------------------
TypeOK ==
  /\ sock \in [ Conn -> { "none", "backlog", "held", "alive", "closing" } ]
  /\ peer \in [ Conn -> { "here", "gone" } ]
  /\ clients \in [ Slot -> Conn \cup { NoConn } ]
  /\ buffer_length \in [ Conn -> Nat ]
  /\ requests \in [ Conn -> Seq(Sent) ]
  /\ in_flight \in [ Conn -> Nat ]
  /\ writing \in [ Conn -> Nat ] /\ unanswered \in [ Conn -> Nat ]
  /\ listening \in BOOLEAN /\ stop_request \in BOOLEAN
  /\ loop \in { "running", "stopping", "ended" }

(* The table holds exactly the connections that are open, each once: a     *)
(* connection that is being closed cannot be reached, and so closed again, *)
(* through server->clients, and no connection is forgotten at shutdown.    *)
TableIsExact ==
  /\ \A c \in Conn : sock[c] = "alive" <=> \E i \in Slot : clients[i] = c
  /\ \A i, j \in Slot : clients[i] = clients[j] /\ clients[i] # NoConn => i = j

(* server.h: "at any given time we will not need more memory than          *)
(* SDB_SERVER_PACKET_MAX_LEN + SDB_SERVER_READ_BUFFER_MAX_LEN".  Whatever  *)
(* the next read yields, on_data_read has room for it in client->buffer.   *)
BufferFits ==
  \A c \in Conn : sock[c] = "alive" =>
    \A k \in on_alloc : k <= in_flight[c] => buffer_length[c] + k <= PacketMax + ReadMax

(* The condition server.h leaves out: on_data_read handles one packet per  *)
(* read, so every further packet under way may leave a read in the buffer. *)
FewUnderWay == (Depth - 1) * ReadMax <= PacketMax

(* The bytes of the buffer and those to come are the packets that were not *)
(* handled: the buffer begins where a packet begins.  When clients wait    *)
(* for their answers it never keeps a packet that is complete.             *)
FramingInSync ==
  \A c \in Conn : sock[c] = "alive" =>
    /\ buffer_length[c] + in_flight[c] = EndOf(requests[c])
    /\ c \notin Pipelining /\ requests[c] # << >> => buffer_length[c] < requests[c][1].end

(* A request on an open connection is answered or its connection closed,   *)
(* when the client waits for the answer.                                   *)
RequestsEnd ==
  \A c \in Conn \ Pipelining :
    (sock[c] = "alive" /\ unanswered[c] > 0) ~> (sock[c] # "alive" \/ unanswered[c] = 0)

(* "Max clients connected, ignoring this ctl" (server.c): a connection     *)
(* that finds every slot taken is ignored, and only that one.  One that    *)
(* waits while a slot stays free is accepted.                              *)
ConnectionsAreAccepted ==
  \A c \in Conn :
    LET Free == \E i \in Slot : clients[i] = NoConn
    IN  (sock[c] = "backlog" /\ Free) ~> (sock[c] # "backlog" \/ ~ Free)
=============================================================================
