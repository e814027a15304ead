----------------------------- MODULE ReadPages ------------------------------
(***************************************************************************)
(* The loop of handle_read (src/network/client-handler.c): the points of   *)
(* [begin, end) are sent in packets of at most points_per_packet points.   *)
(* Every iteration asks the database for one point more than fits, whose   *)
(* time is where the next packet begins; an empty packet ends the answer.  *)
(* The server has one thread, so the series does not change meanwhile.     *)
(***************************************************************************)
EXTENDS DataPointLists

CONSTANT MaxPerPacket  \* bound: points_per_packet

ASSUME MaxPerPacketAssumption == MaxPerPacket \in Nat

VARIABLES
  known,               \* whether the series exists (its point size is not 0)
  first, end,          \* request->begin, request->end
  points_per_packet,
  begin,
  sent, sent_count,    \* all points sent so far
  packets              \* how many packets were sent

read_args == << known, first, end, points_per_packet >>
read_vars == << read_args, begin, sent, sent_count, packets >>

NoRead ==
  /\ known = 0 /\ first = 0 /\ end = 0 /\ points_per_packet = 0 /\ begin = 0
  /\ sent = 0 /\ sent_count = 0 /\ packets = 0

ReadInit ==
  /\ routine = "read"
  /\ n \in 0 .. MaxCount
  /\ points \in [ 1 .. n -> Point ]
  /\ Ascending(points, n)
  /\ known \in BOOLEAN
  /\ n > 0 => known
  /\ first \in Time
  /\ end \in Time
  /\ points_per_packet \in 1 .. MaxPerPacket
  /\ begin = first
  /\ sent = << >>
  /\ sent_count = 0
  /\ packets = 0
  /\ pc = "start"

Least(a, b) == IF a < b THEN a ELSE b

(* How many points database_read finds, and behind which offset. *)
Offset == Find(points, n, begin)
Found == IF begin > end THEN 0
         ELSE Least(points_per_packet + 1, Find(points, n, end) - Offset)

(* A packet with the first k of the points found; uv_write may fail. *)
SendPacket(k) ==
  /\ sent' = [ i \in 1 .. sent_count + k |->
                 IF i <= sent_count THEN sent[i] ELSE points[Offset + i - sent_count] ]
  /\ sent_count' = sent_count + k
  /\ packets' = packets + 1

SendFails == pc' = "failed" /\ UNCHANGED << sent, sent_count, packets >>

(* A series without points on disk has no point size: one empty packet. *)
ReadStart ==
  /\ pc = "start"
  /\ \/ /\ ~ known
        /\ \/ SendPacket(0) /\ pc' = "done"
           \/ SendFails
     \/ /\ known
        /\ pc' = "loop"
        /\ UNCHANGED << sent, sent_count, packets >>
  /\ UNCHANGED << points, n, read_args, begin >>

(* Mutant: the next packet begins at the last point of this one. *)
NextBegin_LastSent ==
  IF Found = points_per_packet + 1 THEN points[Offset + points_per_packet].time ELSE end

(* Where the next packet begins. *)
NextBegin ==
  IF Found = points_per_packet + 1 THEN points[Offset + Found].time ELSE end

(* Mutant: a packet that is not full ends the answer. *)
IsLast_Short(points_to_send) == points_to_send < points_per_packet

(* Only the empty packet ends the answer. *)
IsLast(points_to_send) == points_to_send = 0

ReadIterate ==
  LET points_to_send == Least(points_per_packet, Found)
  IN  /\ pc = "loop"
      /\ begin' = NextBegin
      /\ \/ /\ SendPacket(points_to_send)
            /\ pc' = IF IsLast(points_to_send) THEN "done" ELSE "loop"
         \/ SendFails
      /\ UNCHANGED << points, n, read_args >>

ReadNext == routine = "read" /\ (ReadStart \/ ReadIterate)

-----------------------------------------------------------------------------
ReadTypeOK ==
  /\ begin \in Time
  /\ sent_count \in 0 .. n
  /\ sent \in [ 1 .. sent_count -> Point ]
  /\ packets \in Nat
  /\ pc \in { "start", "loop", "done", "failed" }

(* What was sent is the beginning of the answer, up to where the next      *)
(* packet begins: no point twice, none left out at the border of two       *)
(* packets.                                                                *)
SentSoFar ==
  routine = "read" /\ pc # "failed" =>
  /\ first <= end => first <= begin /\ begin <= end
  /\ sent_count = IF first <= end THEN Offset - Find(points, n, first) ELSE 0
  /\ \A i \in 1 .. sent_count : sent[i] = points[Find(points, n, first) + i]

(* A complete answer holds every point of [first, end) once and in order,  *)
(* in full packets but for the last one, and one empty packet at its end.  *)
AnswerIsTheWindow ==
  routine = "read" /\ pc = "done" =>
    /\ sent_count = Cardinality({ i \in 1 .. n : first <= points[i].time /\ points[i].time < end })
    /\ \A i \in 1 .. sent_count : first <= sent[i].time /\ sent[i].time < end
    /\ Ascending(sent, sent_count)
    /\ (packets - 1) * points_per_packet >= sent_count
    /\ (packets - 2) * points_per_packet < sent_count
=============================================================================
