---------------------------- MODULE ServerProofs ----------------------------
(***************************************************************************)
(* The safety of the server and of the program around it, for any number   *)
(* of connections and slots and any sizes of packets and reads.            *)
(***************************************************************************)
EXTENDS Program, TLAPS

(* The packets lie one behind the other. *)
InOrder(q) ==
  /\ q # << >> => q[1].end = Bytes(q[1].packet)
  /\ \A i \in 1 .. Len(q) - 1 : q[i + 1].end = q[i].end + Bytes(q[i + 1].packet)
  /\ \A i, j \in 1 .. Len(q) : i <= j => q[i].end <= q[j].end

(* What j reads can leave in the buffer. *)
Room(j) == j * ReadMax

(* The first packet is not complete, or every packet that was handled      *)
(* since it was has let at most one read in: of w packets under way the    *)
(* buffer has i complete ones and at most w - 1 - i reads more.            *)
Pending(length, q, w) ==
  \/ q # << >> /\ length < q[1].end
  \/ /\ length <= Room(w - 1)
     /\ \A i \in 1 .. Len(q) : i < w => length <= q[i].end + Room(w - 1 - i)

Balanced(c) ==
  /\ InOrder(requests[c])
  /\ buffer_length[c] + in_flight[c] = EndOf(requests[c])
  /\ Len(requests[c]) + writing[c] <= unanswered[c]
  /\ unanswered[c] <= Window(c)
  /\ Pending(buffer_length[c], requests[c], Window(c))

ConnOK(c) ==
  /\ sock[c] \in { "none", "backlog", "held" } => buffer_length[c] = 0 /\ writing[c] = 0
  /\ sock[c] = "none" => in_flight[c] = 0 /\ requests[c] = << >> /\ unanswered[c] = 0
  /\ sock[c] # "closing" => Balanced(c) /\ buffer_length[c] <= PacketMax

LoopOK ==
  /\ loop # "running" => \A c \in Conn : sock[c] \in { "none", "closing" }
  /\ loop = "ended" => \A c \in Conn : sock[c] = "none"

IInv == TypeOK /\ TableIsExact /\ LoopOK /\ \A c \in Conn : ConnOK(c)

(* The program's steps in turn: what is freed was left by the loop. *)
PhaseOK == phase \in { "returned", "destroyed", "stopped" } \/ g_server = "freed" => loop = "ended"

ProgramInv == IInv /\ PhaseOK

-----------------------------------------------------------------------------
LEMMA WindowType == ASSUME NEW c \in Conn PROVE Window(c) \in Nat /\ Window(c) > 0
BY ServerAssumption DEF Window

LEMMA BytesType ==
  ASSUME NEW r \in Request
  PROVE  /\ r.size \in Nat /\ Bytes(r) \in Nat /\ Bytes(r) > 0 /\ Bytes(r) >= HeaderLen
         /\ r.kind = "good" => Bytes(r) = r.size
BY ServerAssumption DEF Bytes, Packets

LEMMA RoomType ==
  /\ \A j \in Nat : Room(j) \in Nat
  /\ \A j \in Nat : Room(j + 1) = Room(j) + ReadMax
  /\ Room(0) = 0
BY ServerAssumption DEF Room

LEMMA RoomLeft ==
  ASSUME NEW w \in Nat \ {0}, NEW i \in 0 .. w - 1
  PROVE  /\ Room(w - 1 - i) \in Nat
         /\ i > 0 => Room(w - 1 - (i - 1)) = Room(w - 1 - i) + ReadMax
<1>1. w - 1 - i \in Nat /\ w - 1 - (i - 1) = (w - 1 - i) + 1
  OBVIOUS
<1> QED
  BY <1>1, RoomType

LEMMA RoomOfWindow == ASSUME NEW c \in Conn PROVE Room(Window(c) - 1) \in Nat
<1>1. Window(c) - 1 \in Nat
  BY WindowType
<1> QED
  BY <1>1, RoomType

LEMMA EndType ==
  ASSUME NEW q \in Seq(Sent)
  PROVE  /\ EndOf(q) \in Nat
         /\ q # << >> => EndOf(q) = q[Len(q)].end
         /\ \A i \in 1 .. Len(q) : q[i].packet \in Request /\ q[i].end \in Nat
         /\ Len(q) \in Nat /\ (q # << >> <=> Len(q) >= 1)
<1>1. Len(q) \in Nat /\ (q # << >> <=> Len(q) >= 1)
  OBVIOUS
<1>2. \A i \in 1 .. Len(q) : q[i] \in Sent
  OBVIOUS
<1>3. \A x \in Sent : x.packet \in Request /\ x.end \in Nat
  BY DEF Sent
<1>4. \A i \in 1 .. Len(q) : q[i].packet \in Request /\ q[i].end \in Nat
  BY <1>2, <1>3
<1>5. q # << >> => q[Len(q)].end \in Nat
  BY <1>1, <1>4
<1> QED
  BY <1>1, <1>4, <1>5 DEF EndOf

(* A packet that is sent comes behind the others. *)
LEMMA Sending ==
  ASSUME NEW q \in Seq(Sent), InOrder(q), NEW r \in Request
  PROVE  LET s == WithLast(q, r)
         IN  /\ s \in Seq(Sent) /\ Len(s) = Len(q) + 1 /\ InOrder(s)
             /\ EndOf(s) = EndOf(q) + Bytes(r) /\ s # << >>
             /\ \A i \in 1 .. Len(q) : s[i] = q[i]
             /\ s[Len(s)].end = EndOf(s)
<1> DEFINE s == WithLast(q, r)
<1> HIDE DEF s
<1>1. EndOf(q) + Bytes(r) \in Nat
  BY BytesType, EndType
<1>2. /\ s \in Seq(Sent) /\ Len(s) = Len(q) + 1 /\ s # << >>
      /\ \A i \in 1 .. Len(q) : s[i] = q[i]
      /\ s[Len(q) + 1].packet = r /\ s[Len(q) + 1].end = EndOf(q) + Bytes(r)
  BY <1>1 DEF Sent, WithLast, s
<1>3. EndOf(s) = EndOf(q) + Bytes(r) /\ s[Len(s)].end = EndOf(s)
  BY <1>2 DEF EndOf
<1>4. \A i \in 1 .. Len(q) : q[i].end <= EndOf(q)
  BY EndType DEF InOrder
<1>5. InOrder(s)
  <2>1. s[1].end = Bytes(s[1].packet)
    BY <1>2, BytesType, EndType DEF InOrder, EndOf
  <2>2. ASSUME NEW i \in 1 .. Len(s) - 1 PROVE s[i + 1].end = s[i].end + Bytes(s[i + 1].packet)
    <3>1. CASE i = Len(q)
      BY <1>2, <2>2, <3>1, EndType
    <3>2. CASE i # Len(q)
      BY <1>2, <2>2, <3>2 DEF InOrder
    <3> QED
      BY <3>1, <3>2
  <2>3. ASSUME NEW i \in 1 .. Len(s), NEW j \in 1 .. Len(s), i <= j PROVE s[i].end <= s[j].end
    <3>1. CASE j = Len(q) + 1
      <4>1. s[j].end = EndOf(q) + Bytes(r) /\ EndOf(q) \in Nat /\ Bytes(r) \in Nat
        BY <1>2, <3>1, BytesType, EndType
      <4>2. CASE i = j
        BY <4>1, <4>2
      <4>3. CASE i # j
        <5>1. i \in 1 .. Len(q)
          BY <1>2, <2>3, <3>1, <4>3
        <5>2. s[i].end <= EndOf(q) /\ s[i].end \in Nat
          BY <1>2, <1>4, <5>1, EndType
        <5> QED
          BY <4>1, <5>2
      <4> QED
        BY <4>2, <4>3
    <3>2. CASE j # Len(q) + 1
      BY <1>2, <2>3, <3>2 DEF InOrder
    <3> QED
      BY <3>1, <3>2
  <2> QED
    BY <2>1, <2>2, <2>3 DEF InOrder
<1> QED
  BY <1>2, <1>3, <1>5 DEF s

(* What is behind the first packet when that is gone. *)
LEMMA Handling ==
  ASSUME NEW q \in Seq(Sent), InOrder(q), q # << >>,
         NEW s, s = Behind(q)
  PROVE  /\ s \in Seq(Sent) /\ Len(s) = Len(q) - 1 /\ InOrder(s)
         /\ \A i \in 1 .. Len(s) : s[i].end = q[i + 1].end - q[1].end
         /\ EndOf(s) = EndOf(q) - q[1].end
<1>1. /\ Len(q) \in Nat /\ Len(q) >= 1 /\ EndOf(q) = q[Len(q)].end
      /\ \A i \in 1 .. Len(q) : q[i].packet \in Request /\ q[i].end \in Nat
  BY EndType
<1> DEFINE n == Len(q) - 1
           Moved(i) == [ packet |-> q[i + 1].packet, end |-> q[i + 1].end - q[1].end ]
<1>2. n \in Nat /\ n + 1 = Len(q)
  BY <1>1
<1>3. s = [ i \in 1 .. n |-> Moved(i) ]
  BY DEF Behind
<1>4. ASSUME NEW i \in 1 .. n
      PROVE  /\ s[i].packet = q[i + 1].packet /\ s[i].end = q[i + 1].end - q[1].end
             /\ s[i].packet \in Request /\ s[i].end \in Nat /\ s[i] \in Sent
  <2>1. s[i] = Moved(i)
    BY <1>3, <1>4
  <2>2. 1 \in 1 .. Len(q) /\ i + 1 \in 1 .. Len(q) /\ 1 <= i + 1
    BY <1>1, <1>4
  <2>3. q[1].end <= q[i + 1].end /\ q[1].end \in Nat /\ q[i + 1].end \in Nat /\ q[i + 1].packet \in Request
    BY <1>1, <2>2 DEF InOrder
  <2>4. q[i + 1].end - q[1].end \in Nat
    BY <2>3
  <2> QED
    BY <2>1, <2>3, <2>4 DEF Sent
<1>5. s \in Seq(Sent) /\ Len(s) = n
  <2> HIDE DEF n, Moved
  <2> QED
    BY <1>2, <1>3, <1>4
<1>6. q[1].end \in Nat
  BY <1>1
<1>7. InOrder(s)
  <2>1. s # << >> => s[1].end = Bytes(s[1].packet)
    <3> SUFFICES ASSUME s # << >> PROVE s[1].end = Bytes(s[1].packet)
      OBVIOUS
    <3>1. 1 \in 1 .. n /\ 1 + 1 = 2 /\ 2 \in 1 .. Len(q)
      BY <1>2, <1>5
    <3>2. q[2].end = q[1].end + Bytes(q[2].packet)
      BY <3>1 DEF InOrder
    <3>3. s[1].end = q[2].end - q[1].end /\ s[1].packet = q[2].packet
      BY <1>4, <3>1
    <3>4. Bytes(q[2].packet) \in Nat
      BY <1>1, <3>1, BytesType
    <3> QED
      BY <1>6, <3>2, <3>3, <3>4
  <2>2. ASSUME NEW i \in 1 .. Len(s) - 1 PROVE s[i + 1].end = s[i].end + Bytes(s[i + 1].packet)
    <3>1. i \in 1 .. n /\ i + 1 \in 1 .. n /\ i + 1 \in 1 .. Len(q) /\ (i + 1) + 1 \in 1 .. Len(q)
      BY <1>2, <1>5, <2>2
    <3> DEFINE j == i + 1
    <3>2. q[j + 1].end = q[j].end + Bytes(q[j + 1].packet)
      BY <3>1 DEF InOrder
    <3> HIDE DEF j
    <3>3. s[j].end = q[j + 1].end - q[1].end /\ s[j].packet = q[j + 1].packet
      BY <1>4, <3>1 DEF j
    <3>4. s[i].end = q[j].end - q[1].end
      BY <1>4, <3>1 DEF j
    <3>5. Bytes(q[j + 1].packet) \in Nat /\ q[j].end \in Nat
      BY <1>1, <3>1, BytesType DEF j
    <3>6. s[j].end = s[i].end + Bytes(s[j].packet)
      BY <1>6, <3>2, <3>3, <3>4, <3>5, SMTT(30)
    <3> QED
      BY <3>6 DEF j
  <2>3. ASSUME NEW i \in 1 .. Len(s), NEW j \in 1 .. Len(s), i <= j PROVE s[i].end <= s[j].end
    <3>1. i \in 1 .. n /\ j \in 1 .. n /\ i + 1 \in 1 .. Len(q) /\ j + 1 \in 1 .. Len(q) /\ i + 1 <= j + 1
      BY <1>2, <1>5, <2>3
    <3>2. q[i + 1].end <= q[j + 1].end /\ q[i + 1].end \in Nat /\ q[j + 1].end \in Nat
      BY <1>1, <3>1 DEF InOrder
    <3>3. s[i].end = q[i + 1].end - q[1].end /\ s[j].end = q[j + 1].end - q[1].end
      BY <1>4, <3>1
    <3> QED
      BY <1>6, <3>2, <3>3
  <2> QED
    BY <2>1, <2>2, <2>3 DEF InOrder
<1>8. EndOf(s) = EndOf(q) - q[1].end
  <2>1. CASE n = 0
    BY <1>1, <1>2, <1>5, <1>6, <2>1 DEF EndOf
  <2>2. CASE n # 0
    <3>1. n \in 1 .. n /\ s # << >>
      BY <1>2, <1>5, <2>2
    <3>2. EndOf(s) = s[n].end
      BY <1>5, <3>1 DEF EndOf
    <3> QED
      BY <1>1, <1>2, <1>4, <3>1, <3>2
  <2> QED
    BY <2>1, <2>2
<1> QED
  BY <1>4, <1>5, <1>7, <1>8

(* The arithmetic of a read: l bytes are in the buffer, k more are read,   *)
(* and the first packet has e.                                             *)
LEMMA FirstRead ==
  ASSUME NEW rest \in Nat, NEW e \in Nat, NEW a \in Nat, NEW m \in Nat, rest <= m
  PROVE  rest <= e + (a + m)
OBVIOUS

LEMMA FurtherRead ==
  ASSUME NEW l \in Nat, NEW k \in Nat, NEW e \in Nat, NEW a \in Nat, NEW m \in Nat, k <= m
  PROVE  /\ l <= e + a => l + k - e <= a + m
         /\ \A x \in Nat : l <= x + a => l + k - e <= (x - e) + (a + m)
OBVIOUS

LEMMA BytesKept ==
  ASSUME NEW l \in Nat, NEW f \in Nat, NEW k \in Nat, NEW e \in Nat
  PROVE  (l + k) + (f - k) = l + f /\ (l + k - e) + (f - k) = (l + f) - e
OBVIOUS

LEMMA Counted ==
  ASSUME NEW n \in Nat, NEW w \in Nat, NEW u \in Nat, n + w <= u
  PROVE  /\ (n + 1) + w <= u + 1
         /\ n > 0 => \A v \in Nat : v <= w + 1 => (n - 1) + v <= u
OBVIOUS

(* A connection none of whose variables changes stays as it is. *)
LEMMA ConnUnchanged ==
  ASSUME NEW c \in Conn, ConnOK(c),
         sock'[c] = sock[c], buffer_length'[c] = buffer_length[c],
         in_flight'[c] = in_flight[c], requests'[c] = requests[c],
         writing'[c] = writing[c], unanswered'[c] = unanswered[c]
  PROVE  ConnOK(c)'
BY Zenon DEF ConnOK, Balanced

(* The table is exact as long as the same connections are open. *)
LEMMA TableUnchanged ==
  ASSUME TableIsExact, UNCHANGED clients,
         \A c \in Conn : sock'[c] = "alive" <=> sock[c] = "alive"
  PROVE  TableIsExact'
BY DEF TableIsExact

(* A connection on which nothing was sent. *)
LEMMA Fresh ==
  ASSUME NEW c \in Conn, buffer_length[c] = 0, in_flight[c] = 0, requests[c] = << >>,
         writing[c] = 0, unanswered[c] = 0
  PROVE  Balanced(c) /\ buffer_length[c] <= PacketMax
<1>1. Room(Window(c) - 1) \in Nat
  BY RoomOfWindow
<1>2. InOrder(<< >>) /\ EndOf(<< >>) = 0
  BY DEF InOrder, EndOf
<1> QED
  BY <1>1, <1>2, WindowType, ServerAssumption DEF Balanced, Pending

LEMMA FreshNext ==
  ASSUME NEW c \in Conn, buffer_length'[c] = 0, in_flight'[c] = 0, requests'[c] = << >>,
         writing'[c] = 0, unanswered'[c] = 0
  PROVE  Balanced(c)' /\ buffer_length'[c] <= PacketMax
<1>1. Room(Window(c) - 1) \in Nat
  BY RoomOfWindow
<1>2. InOrder(<< >>) /\ EndOf(<< >>) = 0
  BY DEF InOrder, EndOf
<1> QED
  BY <1>1, <1>2, WindowType, ServerAssumption DEF Balanced, Pending

LEMMA InitIInv == Init => IInv
<1> SUFFICES ASSUME Init PROVE IInv
  OBVIOUS
<1>1. TypeOK
  <2>1. << >> \in Seq(Sent)
    OBVIOUS
  <2> QED
    BY <2>1, Zenon DEF Init, TypeOK
<1>2. TableIsExact
  BY ServerAssumption DEF Init, TableIsExact
<1>3. LoopOK
  BY DEF Init, LoopOK
<1>4. ASSUME NEW c \in Conn PROVE ConnOK(c)
  <2>1. /\ buffer_length[c] = 0 /\ in_flight[c] = 0 /\ requests[c] = << >>
        /\ writing[c] = 0 /\ unanswered[c] = 0
    BY DEF Init
  <2> QED
    BY <2>1, Fresh DEF ConnOK
<1> QED
  BY <1>1, <1>2, <1>3, <1>4 DEF IInv

LEMMA ConnectStep == ASSUME IInv, NEW c \in Conn, Connect(c) PROVE IInv'
<1>1. TypeOK'
  BY DEF IInv, TypeOK, Connect
<1>2. TableIsExact'
  BY TableUnchanged DEF IInv, TypeOK, Connect
<1>3. LoopOK'
  BY DEF IInv, TypeOK, LoopOK, Connect
<1>4. ASSUME NEW d \in Conn PROVE ConnOK(d)'
  <2>1. CASE d = c
    <3>1. /\ sock[c] = "none" /\ sock'[c] = "backlog"
          /\ UNCHANGED << buffer_length, requests, in_flight, writing, unanswered >>
      BY DEF IInv, TypeOK, Connect
    <3>2. ConnOK(c)
      BY DEF IInv
    <3> QED
      BY <2>1, <3>1, <3>2, Zenon DEF ConnOK, Balanced
  <2>2. CASE d # c
    BY <2>2, ConnUnchanged DEF IInv, TypeOK, Connect
  <2> QED
    BY <2>1, <2>2
<1> QED
  BY <1>1, <1>2, <1>3, <1>4 DEF IInv

LEMMA SendStep == ASSUME IInv, NEW c \in Conn, Send(c) PROVE IInv'
<1> DEFINE q == requests[c]
<1>0. /\ TypeOK /\ TableIsExact /\ LoopOK
      /\ sock[c] \in { "backlog", "held", "alive" } /\ unanswered[c] < Window(c)
      /\ unanswered' = [ unanswered EXCEPT ![c] = @ + 1 ]
      /\ UNCHANGED << sock, peer, clients, buffer_length, writing, listening, stop_request, loop >>
      /\ Balanced(c) /\ buffer_length[c] <= PacketMax
  BY DEF IInv, ConnOK, Send
<1>1. PICK r \in Request : /\ requests' = [ requests EXCEPT ![c] = WithLast(q, r) ]
                           /\ in_flight' = [ in_flight EXCEPT ![c] = @ + Bytes(r) ]
  BY Zenon DEF Send
<1>2. /\ q \in Seq(Sent) /\ InOrder(q) /\ EndOf(q) \in Nat
      /\ buffer_length[c] \in Nat /\ in_flight[c] \in Nat /\ unanswered[c] \in Nat /\ writing[c] \in Nat
      /\ Bytes(r) \in Nat /\ Bytes(r) > 0 /\ Len(q) \in Nat
  BY <1>0, EndType, BytesType DEF TypeOK, Balanced
<1>2a. /\ buffer_length[c] + in_flight[c] = EndOf(q)
       /\ Len(q) + writing[c] <= unanswered[c]
  BY <1>0 DEF Balanced
<1>2b. Pending(buffer_length[c], q, Window(c))
  BY <1>0 DEF Balanced
<1>2c. /\ EndOf(q) \in Nat /\ Len(q) \in Nat /\ Bytes(r) \in Nat /\ buffer_length[c] \in Nat
       /\ in_flight[c] \in Nat /\ unanswered[c] \in Nat /\ writing[c] \in Nat
  BY <1>2
<1> HIDE DEF q
<1> DEFINE t == WithLast(q, r)
<1>3. /\ t \in Seq(Sent) /\ Len(t) = Len(q) + 1 /\ InOrder(t) /\ t # << >>
      /\ EndOf(t) = EndOf(q) + Bytes(r)
      /\ \A i \in 1 .. Len(q) : t[i] = q[i]
      /\ t[Len(t)].end = EndOf(t)
  BY <1>2, Sending
<1>3a. Len(t) = Len(q) + 1 /\ EndOf(t) = EndOf(q) + Bytes(r)
  BY <1>3
<1>4. /\ requests'[c] = t /\ in_flight'[c] = in_flight[c] + Bytes(r)
      /\ unanswered'[c] = unanswered[c] + 1
      /\ requests' \in [ Conn -> Seq(Sent) ]
      /\ in_flight' \in [ Conn -> Nat ] /\ unanswered' \in [ Conn -> Nat ]
  <2> HIDE DEF t
  <2>1. requests' = [ requests EXCEPT ![c] = t ]
    BY <1>1 DEF t
  <2>2. t \in Seq(Sent) /\ in_flight[c] + Bytes(r) \in Nat /\ unanswered[c] + 1 \in Nat
    BY <1>2, <1>3, SMTT(30)
  <2>3. /\ requests \in [ Conn -> Seq(Sent) ] /\ in_flight \in [ Conn -> Nat ]
        /\ unanswered \in [ Conn -> Nat ]
    BY <1>0 DEF TypeOK
  <2> QED
    BY <1>0, <1>1, <2>1, <2>2, <2>3
<1>4a. in_flight'[c] = in_flight[c] + Bytes(r) /\ unanswered'[c] = unanswered[c] + 1
  BY <1>4
<1> HIDE DEF t
<1>5. TypeOK'
  BY <1>0, <1>4 DEF TypeOK
<1>6. TableIsExact'
  BY <1>0, TableUnchanged
<1>7. LoopOK'
  BY <1>0 DEF LoopOK
<1>8. Pending(buffer_length[c], t, Window(c))
  <2>1. buffer_length[c] <= EndOf(q)
    BY <1>2, <1>2a
  <2>2. CASE q = << >>
    <3>1. buffer_length[c] = 0 /\ t[1].end > 0
      BY <1>2, <1>3, <2>1, <2>2 DEF EndOf
    <3> QED
      BY <1>2, <1>3, <3>1 DEF Pending
  <2>3. CASE q # << >> /\ buffer_length[c] < q[1].end
    BY <1>2, <1>3, <2>3, EndType DEF Pending
  <2>4. CASE /\ buffer_length[c] <= Room(Window(c) - 1)
             /\ \A i \in 1 .. Len(q) : i < Window(c) => buffer_length[c] <= q[i].end + Room(Window(c) - 1 - i)
    <3>1. ASSUME NEW i \in 1 .. Len(t), i < Window(c)
          PROVE  buffer_length[c] <= t[i].end + Room(Window(c) - 1 - i)
      <4>1. CASE i \in 1 .. Len(q)
        BY <1>3, <2>4, <3>1, <4>1
      <4>2. CASE i = Len(t)
        <5>1. Room(Window(c) - 1 - i) \in Nat
          <6>1. i \in 0 .. Window(c) - 1
            BY <1>2, <1>3, <3>1, WindowType
          <6> QED
            BY <6>1, RoomLeft, WindowType
        <5> QED
          BY <1>2, <1>3, <2>1, <4>2, <5>1
      <4> QED
        BY <1>2, <1>3, <3>1, <4>1, <4>2
    <3> QED
      BY <2>4, <3>1 DEF Pending
  <2> QED
    BY <1>2b, <2>2, <2>3, <2>4 DEF Pending
<1>9. ASSUME NEW d \in Conn PROVE ConnOK(d)'
  <2>1. CASE d = c
    <3>1. buffer_length[c] + in_flight'[c] = EndOf(t)
      BY <1>2a, <1>2c, <1>3a, <1>4a
    <3>2. Len(t) + writing[c] <= unanswered'[c] /\ unanswered'[c] <= Window(c)
      <4>1. unanswered[c] < Window(c) /\ Window(c) \in Nat
        BY <1>0, WindowType
      <4> QED
        <5>1. (Len(q) + 1) + writing[c] <= unanswered[c] + 1
          BY <1>2a, <1>2c, Counted, Zenon
        <5>2. unanswered[c] + 1 <= Window(c)
          BY <1>2c, <4>1
        <5> QED
          BY <1>3a, <1>4a, <5>1, <5>2, Zenon
    <3>3. Balanced(c)'
      BY <1>0, <1>3, <1>4, <1>8, <3>1, <3>2, Zenon DEF Balanced
    <3>4. ConnOK(c)
      BY DEF IInv
    <3> QED
      BY <1>0, <2>1, <3>3, <3>4, Zenon DEF ConnOK
  <2>2. CASE d # c
    BY <1>0, <1>1, <2>2, ConnUnchanged DEF IInv, TypeOK
  <2> QED
    BY <2>1, <2>2
<1> QED
  BY <1>5, <1>6, <1>7, <1>9 DEF IInv

LEMMA HangUpStep == ASSUME IInv, NEW c \in Conn, HangUp(c) PROVE IInv'
<1>1. TypeOK'
  BY DEF IInv, TypeOK, HangUp
<1>2. TableIsExact'
  BY TableUnchanged DEF IInv, TypeOK, HangUp
<1>3. LoopOK'
  BY DEF IInv, LoopOK, HangUp
<1>4. ASSUME NEW d \in Conn PROVE ConnOK(d)'
  BY ConnUnchanged DEF IInv, HangUp
<1> QED
  BY <1>1, <1>2, <1>3, <1>4 DEF IInv

-----------------------------------------------------------------------------
LEMMA ConnectedStep == ASSUME IInv, NEW c \in Conn, on_client_connected(c) PROVE IInv'
<1>0. /\ TypeOK /\ TableIsExact /\ LoopOK /\ ConnOK(c)
      /\ loop = "running" /\ loop' = "running" /\ sock[c] = "backlog"
      /\ UNCHANGED << peer, buffer_length, requests, in_flight, writing, unanswered, stop_request >>
  BY DEF IInv, on_client_connected
<1>1. ASSUME NEW i \in FreeSlots, client_create(c, i), UNCHANGED listening
      PROVE  TypeOK' /\ TableIsExact' /\ sock' = [ sock EXCEPT ![c] = "alive" ]
  <2>1. i \in Slot /\ clients[i] = NoConn
    BY <1>1 DEF FreeSlots
  <2>2. TypeOK'
    BY <1>0, <1>1, <2>1 DEF TypeOK, client_create
  <2>3. \A j \in Slot : clients[j] # c
    BY <1>0 DEF TableIsExact
  <2>4. \A d \in Conn : sock'[d] = "alive" <=> \E j \in Slot : clients'[j] = d
    <3> SUFFICES ASSUME NEW d \in Conn
                 PROVE  sock'[d] = "alive" <=> \E j \in Slot : clients'[j] = d
      OBVIOUS
    <3>1. CASE d = c
      BY <1>0, <1>1, <2>1, <3>1 DEF TypeOK, client_create
    <3>2. CASE d # c
      <4>1. \A j \in Slot : clients'[j] = d <=> clients[j] = d
        BY <1>0, <1>1, <2>1, <3>2, ServerAssumption DEF TypeOK, client_create
      <4> QED
        BY <1>0, <1>1, <3>2, <4>1 DEF TypeOK, TableIsExact, client_create
    <3> QED
      BY <3>1, <3>2
  <2>5. \A j, k \in Slot : clients'[j] = clients'[k] /\ clients'[j] # NoConn => j = k
    BY <1>0, <1>1, <2>1, <2>3, ServerAssumption DEF TypeOK, TableIsExact, client_create
  <2> QED
    BY <1>1, <2>2, <2>4, <2>5 DEF TableIsExact, client_create
<1>2. ASSUME sock' = [ sock EXCEPT ![c] = "held" ], listening' = FALSE, UNCHANGED clients
      PROVE  TypeOK' /\ TableIsExact'
  <2>1. TypeOK'
    BY <1>0, <1>2, Zenon DEF TypeOK
  <2>2. TableIsExact'
    BY <1>0, <1>2, TableUnchanged DEF TypeOK
  <2> QED
    BY <2>1, <2>2
<1>3. /\ TypeOK' /\ TableIsExact'
      /\ \E st \in { "alive", "held" } : sock' = [ sock EXCEPT ![c] = st ]
  BY <1>1, <1>2, Zenon DEF on_client_connected
<1>4. LoopOK'
  BY <1>0, SMTT(30) DEF LoopOK
<1>5. ASSUME NEW d \in Conn PROVE ConnOK(d)'
  <2>1. CASE d = c
    <3>1. sock'[c] \in { "alive", "held" }
      BY <1>0, <1>3 DEF TypeOK
    <3>2. Balanced(c)'
      BY <1>0, Zenon DEF ConnOK, Balanced
    <3> QED
      BY <1>0, <2>1, <3>1, <3>2 DEF ConnOK
  <2>2. CASE d # c
    BY <1>0, <1>3, <2>2, ConnUnchanged DEF IInv, TypeOK
  <2> QED
    BY <2>1, <2>2
<1> QED
  BY <1>3, <1>4, <1>5 DEF IInv

(* Closing open connections leaves the table exact. *)
LEMMA Closing ==
  ASSUME TypeOK, TableIsExact, NEW C \in SUBSET Conn, client_disconnect_and_destroy(C)
  PROVE  /\ TableIsExact'
         /\ sock' \in [ Conn -> { "none", "backlog", "held", "alive", "closing" } ]
         /\ clients' \in [ Slot -> Conn \cup { NoConn } ]
<1>1. \A i \in Slot : clients'[i] = IF clients[i] \in C THEN NoConn ELSE clients[i]
  BY DEF client_disconnect_and_destroy
<1>2. \A d \in Conn : sock'[d] = IF d \in C THEN "closing" ELSE sock[d]
  BY DEF client_disconnect_and_destroy
<1>3. ASSUME NEW d \in Conn PROVE sock'[d] = "alive" <=> \E i \in Slot : clients'[i] = d
  <2>1. sock[d] = "alive" <=> \E i \in Slot : clients[i] = d
    BY DEF TableIsExact
  <2>2. d # NoConn
    BY ServerAssumption
  <2> QED
    BY <1>1, <1>2, <2>1, <2>2
<1>4. \A i, j \in Slot : clients'[i] = clients'[j] /\ clients'[i] # NoConn => i = j
  BY <1>1, ServerAssumption DEF TableIsExact, TypeOK
<1>5. /\ sock' \in [ Conn -> { "none", "backlog", "held", "alive", "closing" } ]
      /\ clients' \in [ Slot -> Conn \cup { NoConn } ]
  BY DEF client_disconnect_and_destroy, TypeOK
<1> QED
  BY <1>3, <1>4, <1>5 DEF TableIsExact

LEMMA HangUpSeen == ASSUME IInv, NEW c \in Conn, on_hang_up(c) PROVE IInv'
<1>0. /\ TypeOK /\ TableIsExact /\ LoopOK
      /\ client_disconnect_and_destroy({ c }) /\ { c } \in SUBSET Conn
      /\ loop = "running"
      /\ UNCHANGED << peer, buffer_length, requests, in_flight, writing, unanswered, listening, stop_request, loop >>
  BY DEF IInv, on_hang_up, Disconnect
<1>1. TableIsExact'
  BY <1>0, Closing
<1>2. TypeOK'
  BY <1>0, Closing DEF TypeOK
<1>3. LoopOK'
  BY <1>0 DEF LoopOK
<1>4. ASSUME NEW d \in Conn PROVE ConnOK(d)'
  <2>1. CASE d = c
    BY <1>0, <2>1, SMTT(30) DEF IInv, TypeOK, ConnOK, client_disconnect_and_destroy
  <2>2. CASE d # c
    BY <1>0, <2>2, ConnUnchanged DEF IInv, client_disconnect_and_destroy
  <2> QED
    BY <2>1, <2>2
<1> QED
  BY <1>1, <1>2, <1>3, <1>4 DEF IInv

-----------------------------------------------------------------------------
(* A read that completes the first packet: what it leaves behind that is   *)
(* pending among one packet less.                                          *)
LEMMA Leaves ==
  ASSUME NEW q \in Seq(Sent), InOrder(q), q # << >>, NEW s, s = Behind(q),
         NEW w \in Nat \ {0}, Len(q) <= w, NEW length \in Nat, Pending(length, q, w),
         NEW k \in on_alloc, q[1].end <= length + k, length + k <= EndOf(q),
         NEW rest, rest = length + k - q[1].end
  PROVE  rest \in Nat /\ rest <= Room(w - 1) /\ Pending(rest, s, w)
<1>1. /\ Len(s) = Len(q) - 1 /\ s \in Seq(Sent)
      /\ \A i \in 1 .. Len(s) : s[i].end = q[i + 1].end - q[1].end
      /\ EndOf(s) = EndOf(q) - q[1].end
  BY Handling, Zenon
<1>2. /\ \A i \in 1 .. Len(q) : q[i].end \in Nat
      /\ \A i \in 1 .. Len(s) : s[i].end \in Nat
      /\ Len(q) \in Nat /\ Len(q) >= 1 /\ Len(s) \in Nat
      /\ k \in Nat /\ k > 0 /\ k <= ReadMax /\ ReadMax \in Nat
      /\ EndOf(q) \in Nat /\ EndOf(s) \in Nat /\ q[1].end \in Nat
  <2>1. /\ \A i \in 1 .. Len(q) : q[i].end \in Nat
        /\ Len(q) \in Nat /\ Len(q) >= 1 /\ EndOf(q) \in Nat
    BY EndType
  <2>2. /\ \A i \in 1 .. Len(s) : s[i].end \in Nat
        /\ Len(s) \in Nat /\ EndOf(s) \in Nat
    BY <1>1, EndType, SMTT(30)
  <2>3. k \in Nat /\ k > 0 /\ k <= ReadMax /\ ReadMax \in Nat
    BY ServerAssumption DEF on_alloc
  <2>4. q[1].end \in Nat
    BY <2>1
  <2> QED
    BY <2>1, <2>2, <2>3, <2>4, Zenon
<1>2a. /\ k \in Nat /\ k <= ReadMax /\ ReadMax \in Nat /\ q[1].end \in Nat
       /\ EndOf(q) \in Nat /\ EndOf(s) \in Nat
  BY <1>2
<1>3. rest \in Nat /\ rest <= EndOf(s)
  <2>1. EndOf(s) = EndOf(q) - q[1].end
    BY <1>1
  <2> QED
    BY <1>2a, <2>1, SMTT(30)
<1>4. ASSUME NEW i \in 1 .. w - 1
      PROVE  /\ Room(w - 1 - i) \in Nat /\ Room(w - 1 - (i - 1)) \in Nat
             /\ Room(w - 1 - (i - 1)) = Room(w - 1 - i) + ReadMax
  <2>1. i \in 0 .. w - 1 /\ i > 0 /\ i - 1 \in 0 .. w - 1
    BY <1>4
  <2> QED
    BY <2>1, RoomLeft, Zenon
<1>5. ASSUME NEW i \in 1 .. Len(s), i = w - 1 PROVE rest <= s[i].end + Room(w - 1 - i)
  <2>1. Len(s) = i /\ w - 1 - i = 0 /\ s # << >> /\ s[i].end \in Nat
    BY <1>1, <1>2, <1>5
  <2>2. EndOf(s) = s[i].end
    BY <2>1 DEF EndOf
  <2>3. Room(w - 1 - i) = 0
    BY <2>1, RoomType
  <2> QED
    BY <1>3, <2>1, <2>2, <2>3
<1>6. CASE w = 1
  <2>1. Len(s) = 0 /\ s = << >>
    BY <1>1, <1>2, <1>6
  <2>2. rest = 0
    BY <1>3, <2>1 DEF EndOf
  <2>3. Room(w - 1) = 0
    BY <1>6, RoomType
  <2> QED
    BY <2>1, <2>2, <2>3 DEF Pending
<1>7. CASE w > 1 /\ length < q[1].end
  <2>1. rest <= ReadMax
    BY <1>2, <1>7, SMTT(30)
  <2>2. rest <= Room(w - 1)
    <3>1. 1 \in 1 .. w - 1 /\ w - 1 - (1 - 1) = w - 1
      BY <1>7
    <3>2. Room(w - 1) = Room(w - 1 - 1) + ReadMax /\ Room(w - 1 - 1) \in Nat
      BY <1>4, <3>1
    <3> QED
      BY <1>2, <1>3, <2>1, <3>2
  <2>3. ASSUME NEW i \in 1 .. Len(s), i < w PROVE rest <= s[i].end + Room(w - 1 - i)
    <3>1. CASE i = w - 1
      BY <1>5, <3>1
    <3>2. CASE i < w - 1
      <4>1. i + 1 \in 1 .. w - 1 /\ w - 1 - ((i + 1) - 1) = w - 1 - i /\ w - 1 - (i + 1) = w - 2 - i
        BY <1>2, <2>3, <3>2
      <4>2. Room(w - 1 - i) = Room(w - 2 - i) + ReadMax /\ Room(w - 2 - i) \in Nat
        BY <1>4, <4>1, Zenon
      <4>3. s[i].end \in Nat
        BY <1>2, <2>3
      <4> QED
        <5>1. rest <= s[i].end + (Room(w - 2 - i) + ReadMax)
          BY <1>2a, <1>3, <2>1, <4>2, <4>3, FirstRead, Zenon
        <5> QED
          BY <4>2, <5>1, Zenon
    <3> QED
      BY <1>2, <2>3, <3>1, <3>2
  <2> QED
    BY <1>3, <2>2, <2>3 DEF Pending
<1>8. CASE /\ w > 1 /\ length <= Room(w - 1)
           /\ \A i \in 1 .. Len(q) : i < w => length <= q[i].end + Room(w - 1 - i)
  <2>1. rest <= Room(w - 1)
    <3>1. 1 \in 1 .. w - 1 /\ w - 1 - (1 - 1) = w - 1 /\ 1 \in 1 .. Len(q) /\ 1 < w
      BY <1>2, <1>8
    <3>2. Room(w - 1) = Room(w - 1 - 1) + ReadMax /\ Room(w - 1 - 1) \in Nat
      BY <1>4, <3>1
    <3>3. length <= q[1].end + Room(w - 1 - 1)
      BY <1>8, <3>1
    <3> QED
      <4>1. length + k - q[1].end <= Room(w - 1 - 1) + ReadMax
        BY <1>2a, <3>2, <3>3, FurtherRead, Zenon
      <4> QED
        BY <3>2, <4>1, Zenon
  <2>2. ASSUME NEW i \in 1 .. Len(s), i < w PROVE rest <= s[i].end + Room(w - 1 - i)
    <3>1. CASE i = w - 1
      BY <1>5, <3>1
    <3>2. CASE i < w - 1
      <4>1. /\ i + 1 \in 1 .. w - 1 /\ w - 1 - ((i + 1) - 1) = w - 1 - i /\ w - 1 - (i + 1) = w - 2 - i
            /\ i + 1 \in 1 .. Len(q) /\ i + 1 < w
        BY <1>1, <1>2, <2>2, <3>2
      <4>2. Room(w - 1 - i) = Room(w - 2 - i) + ReadMax /\ Room(w - 2 - i) \in Nat
        BY <1>4, <4>1
      <4>3. length <= q[i + 1].end + Room(w - 1 - (i + 1)) /\ q[i + 1].end \in Nat
        BY <1>2, <1>8, <4>1
      <4>4. length <= q[i + 1].end + Room(w - 2 - i)
        BY <4>1, <4>3
      <4>5. s[i].end = q[i + 1].end - q[1].end
        BY <1>1, <2>2, SMTT(30)
      <4> QED
        <5>1. length + k - q[1].end <= (q[i + 1].end - q[1].end) + (Room(w - 2 - i) + ReadMax)
          BY <1>2a, <4>2, <4>3, <4>4, FurtherRead, Zenon
        <5> QED
          BY <4>2, <4>5, <5>1, Zenon
    <3> QED
      BY <1>2, <2>2, <3>1, <3>2
  <2> QED
    BY <1>3, <2>1, <2>2 DEF Pending
<1> QED
  BY <1>6, <1>7, <1>8 DEF Pending

(* What is known of a connection that is read from. *)
LEMMA Chunk ==
  ASSUME IInv, NEW c \in Conn, sock[c] = "alive", NEW k \in on_alloc, k <= in_flight[c]
  PROVE  /\ requests[c] \in Seq(Sent) /\ InOrder(requests[c]) /\ requests[c] # << >>
         /\ requests[c][1].packet \in Request /\ requests[c][1].end = Bytes(requests[c][1].packet)
         /\ k \in Nat /\ k > 0 /\ k <= ReadMax
         /\ buffer_length[c] \in Nat /\ in_flight[c] \in Nat /\ writing[c] \in Nat
         /\ unanswered[c] \in Nat /\ EndOf(requests[c]) \in Nat
         /\ buffer_length[c] <= PacketMax
         /\ buffer_length[c] + k <= EndOf(requests[c])
<1>1. /\ k \in Nat /\ k > 0 /\ k <= ReadMax
      /\ buffer_length[c] \in Nat /\ in_flight[c] \in Nat /\ writing[c] \in Nat
      /\ unanswered[c] \in Nat /\ requests[c] \in Seq(Sent) /\ EndOf(requests[c]) \in Nat
  BY ServerAssumption, EndType DEF IInv, TypeOK, on_alloc
<1>2. Balanced(c) /\ buffer_length[c] <= PacketMax
  BY SMTT(30) DEF IInv, ConnOK
<1>3. InOrder(requests[c]) /\ buffer_length[c] + k <= EndOf(requests[c]) /\ requests[c] # << >>
  BY <1>1, <1>2 DEF Balanced, EndOf
<1> QED
  BY <1>1, <1>2, <1>3, EndType DEF InOrder

LEMMA ReadStep == ASSUME FewUnderWay, IInv, NEW c \in Conn, on_data_read(c) PROVE IInv'
<1> DEFINE Length(k) == buffer_length[c] + k
           r == requests[c][1].packet
<1>1. PICK k \in on_alloc :
        /\ k <= in_flight[c]
        /\ in_flight' = [ in_flight EXCEPT ![c] = @ - k ]
        /\ \/ Length(k) < HeaderLen /\ Buffer(c, Length(k))
           \/ /\ Length(k) >= HeaderLen /\ (Malformed(r) \/ (Length(k) >= r.size /\ r.kind = "refused"))
              /\ client_disconnect_and_destroy({ c })
              /\ buffer_length' = [ buffer_length EXCEPT ![c] = Length(k) ]
              /\ UNCHANGED << peer, requests, writing >>
           \/ Length(k) >= HeaderLen /\ ~ Malformed(r) /\ Length(k) < r.size /\ Buffer(c, Length(k))
           \/ Length(k) >= HeaderLen /\ ~ Malformed(r) /\ Length(k) >= r.size /\ r.kind = "good" /\ Handle(c, Length(k))
  BY Zenon DEF on_data_read
<1>2. /\ loop = "running" /\ sock[c] = "alive" /\ UNCHANGED << unanswered, listening, stop_request, loop >>
      /\ TypeOK /\ TableIsExact /\ LoopOK /\ Balanced(c)
  BY DEF on_data_read, IInv, ConnOK
<1>3. /\ requests[c] \in Seq(Sent) /\ InOrder(requests[c]) /\ requests[c] # << >>
      /\ r \in Request /\ requests[c][1].end = Bytes(r)
      /\ k \in Nat /\ k > 0 /\ k <= ReadMax
      /\ buffer_length[c] \in Nat /\ in_flight[c] \in Nat /\ writing[c] \in Nat
      /\ unanswered[c] \in Nat /\ EndOf(requests[c]) \in Nat
      /\ buffer_length[c] <= PacketMax
      /\ Length(k) <= EndOf(requests[c])
  BY <1>1, <1>2, Chunk, ZenonT(60)
<1>4. in_flight' \in [ Conn -> Nat ] /\ in_flight'[c] = in_flight[c] - k
  <2>1. k <= in_flight[c] /\ in_flight' = [ in_flight EXCEPT ![c] = @ - k ]
    BY <1>1, Zenon
  <2>2. k \in Nat /\ in_flight[c] \in Nat
    BY <1>3, Zenon
  <2>3. in_flight[c] - k \in Nat
    BY <2>1, <2>2, SMTT(30)
  <2>4. in_flight \in [ Conn -> Nat ]
    BY <1>2, Zenon DEF TypeOK
  <2> QED
    BY <2>1, <2>3, <2>4, Zenon
<1>5. LoopOK'
  BY <1>2, Zenon DEF LoopOK
<1>6. ASSUME Buffer(c, Length(k)), Length(k) <= PacketMax, Length(k) < Bytes(r)
      PROVE  TypeOK' /\ TableIsExact' /\ ConnOK(c)'
  <2>1. TypeOK'
    BY <1>2, <1>3, <1>4, <1>6, SMTT(30) DEF TypeOK, Buffer
  <2>2. TableIsExact'
    BY <1>2, <1>6, TableUnchanged, Zenon DEF Buffer
  <2>3. buffer_length'[c] = Length(k) /\ UNCHANGED << sock, requests, writing, unanswered >>
    BY <1>2, <1>6 DEF TypeOK, Buffer
  <2>4. buffer_length'[c] + in_flight'[c] = EndOf(requests[c])
    <3>1. buffer_length[c] + in_flight[c] = EndOf(requests[c])
      BY <1>2, SMTT(30) DEF Balanced
    <3>2. buffer_length'[c] + in_flight'[c] = (buffer_length[c] + k) + (in_flight[c] - k)
      BY <1>4, <2>3, SMTT(30)
    <3>3. buffer_length[c] \in Nat /\ in_flight[c] \in Nat /\ k \in Nat
      BY <1>3, SMTT(30)
    <3> QED
      BY <3>1, <3>2, <3>3, BytesKept, SMTT(30)
  <2>5. Pending(Length(k), requests[c], Window(c))
    BY <1>3, <1>6 DEF Pending
  <2>6. Balanced(c)'
    BY <1>2, <2>3, <2>4, <2>5, Zenon DEF Balanced
  <2> QED
    BY <1>2, <1>6, <2>1, <2>2, <2>3, <2>6, ZenonT(30) DEF ConnOK
<1>7. ASSUME client_disconnect_and_destroy({ c }),
             buffer_length' = [ buffer_length EXCEPT ![c] = Length(k) ],
             UNCHANGED << peer, requests, writing >>
      PROVE  TypeOK' /\ TableIsExact' /\ ConnOK(c)'
  <2>1. TypeOK' /\ TableIsExact'
    <3>1. sock' \in [ Conn -> { "none", "backlog", "held", "alive", "closing" } ] /\ clients' \in [ Slot -> Conn \cup { NoConn } ]
          /\ TableIsExact'
      BY <1>2, <1>7, Closing, SMTT(30) DEF TypeOK
    <3>2. buffer_length' \in [ Conn -> Nat ]
      BY <1>2, <1>3, <1>7, SMTT(30) DEF TypeOK
    <3> QED
      BY <1>2, <1>4, <1>7, <3>1, <3>2, Zenon DEF TypeOK
  <2>2. sock'[c] = "closing"
    BY <1>7 DEF client_disconnect_and_destroy
  <2> QED
    BY <2>1, <2>2 DEF ConnOK
<1>8. ASSUME Length(k) >= r.size, r.kind = "good", Handle(c, Length(k))
      PROVE  TypeOK' /\ TableIsExact' /\ ConnOK(c)'
  <2> DEFINE s == Behind(requests[c])
             rest == buffer_length[c] + k - requests[c][1].end
  <2>1. Rest(Length(k), r) = rest /\ requests[c][1].end <= Length(k)
    BY <1>3, <1>8, BytesType, SMTT(30) DEF Rest
  <2>2. Len(requests[c]) <= Window(c) /\ Pending(buffer_length[c], requests[c], Window(c))
    BY <1>2, <1>3, WindowType DEF Balanced
  <2>3. rest \in Nat /\ rest <= Room(Window(c) - 1) /\ Pending(rest, s, Window(c))
    <3>1. s = Behind(requests[c]) /\ rest = buffer_length[c] + k - requests[c][1].end
      BY Zenon
    <3>2. /\ requests[c] \in Seq(Sent) /\ InOrder(requests[c]) /\ requests[c] # << >>
          /\ buffer_length[c] \in Nat /\ Window(c) \in Nat \ {0}
          /\ requests[c][1].end <= buffer_length[c] + k
          /\ buffer_length[c] + k <= EndOf(requests[c])
      BY <1>3, <2>1, WindowType, SMTT(30)
    <3> HIDE DEF s, rest
    <3> QED
      BY <2>2, <3>1, <3>2, Leaves, Zenon
  <2>4. s \in Seq(Sent) /\ Len(s) = Len(requests[c]) - 1 /\ InOrder(s) /\ EndOf(s) = EndOf(requests[c]) - requests[c][1].end
    BY <1>3, Handling, SMTT(30)
  <2> HIDE DEF s
  <2>5. /\ buffer_length' = [ buffer_length EXCEPT ![c] = rest ]
        /\ requests' = [ requests EXCEPT ![c] = s ]
        /\ UNCHANGED << sock, peer, clients >>
    BY <1>8, <2>1, ZenonT(60) DEF Handle, s
  <2>6. /\ writing' \in [ Conn -> Nat ] /\ writing'[c] <= writing[c] + 1 /\ writing'[c] \in Nat
    BY <1>2, <1>3, <1>8, SMTT(30) DEF TypeOK, Handle, Answered
  <2>7. buffer_length'[c] = rest /\ requests'[c] = s /\ sock'[c] = "alive"
    BY <1>2, <2>5, SMTT(30) DEF TypeOK
  <2>8. TypeOK'
    BY <1>2, <1>4, <2>3, <2>4, <2>5, <2>6, ZenonT(30) DEF TypeOK
  <2>9. TableIsExact'
    BY <1>2, <2>5, TableUnchanged, Zenon
  <2>10. rest <= PacketMax
    <3>1. Room(Window(c) - 1) <= PacketMax
      BY ServerAssumption, RoomType DEF FewUnderWay, Room, Window
    <3>2. Room(Window(c) - 1) \in Nat
      BY RoomType, WindowType
    <3> QED
      BY <2>3, <3>1, <3>2, ServerAssumption
  <2>11. rest + in_flight'[c] = EndOf(s)
    <3>1. buffer_length[c] + in_flight[c] = EndOf(requests[c])
      BY <1>2 DEF Balanced
    <3>2. rest + in_flight'[c] = (buffer_length[c] + k - requests[c][1].end) + (in_flight[c] - k)
      BY <1>4
    <3>3. /\ buffer_length[c] \in Nat /\ in_flight[c] \in Nat /\ k \in Nat
          /\ requests[c][1].end \in Nat
      BY <1>3, BytesType
    <3>4. EndOf(s) = EndOf(requests[c]) - requests[c][1].end
      BY <2>4, SMTT(30)
    <3> QED
      BY <3>1, <3>2, <3>3, <3>4, BytesKept
  <2>12. Len(s) + writing'[c] <= unanswered[c] /\ unanswered[c] <= Window(c)
    <3>1. Len(requests[c]) + writing[c] <= unanswered[c] /\ unanswered[c] <= Window(c)
      BY <1>2 DEF Balanced
    <3>2. Len(s) = Len(requests[c]) - 1 /\ Len(requests[c]) \in Nat /\ Len(requests[c]) > 0
      BY <1>3, <2>4, EndType, SMTT(30)
    <3>3. writing'[c] <= writing[c] + 1 /\ writing'[c] \in Nat /\ writing[c] \in Nat /\ unanswered[c] \in Nat
      BY <1>3, <2>6
    <3> QED
      BY <3>1, <3>2, <3>3, Counted
  <2> HIDE DEF rest
  <2>13. Balanced(c)'
    BY <1>2, <2>3, <2>4, <2>7, <2>11, <2>12, Zenon DEF Balanced
  <2> QED
    BY <2>7, <2>8, <2>9, <2>10, <2>13, SMTT(30) DEF ConnOK
<1>9. TypeOK' /\ TableIsExact' /\ ConnOK(c)'
  <2>1. Length(k) < HeaderLen => Length(k) <= PacketMax /\ Length(k) < Bytes(r)
    BY <1>3, ServerAssumption, BytesType, SMTT(30)
  <2>2. ~ Malformed(r) /\ Length(k) < r.size => Length(k) <= PacketMax /\ Length(k) < Bytes(r)
    BY <1>3, ServerAssumption, BytesType, SMTT(30) DEF Malformed, Bytes
  <2> HIDE DEF Length, r
  <2> QED
    BY <1>1, <1>6, <1>7, <1>8, <2>1, <2>2, SMTT(30)
<1>10. ASSUME NEW d \in Conn, d # c PROVE ConnOK(d)'
  <2>1. /\ sock'[d] = sock[d] /\ requests'[d] = requests[d]
        /\ buffer_length'[d] = buffer_length[d] /\ in_flight'[d] = in_flight[d]
        /\ writing'[d] = writing[d]
    BY <1>1, <1>2, <1>10, ZenonT(60) DEF TypeOK, Buffer, Handle, Answered, client_disconnect_and_destroy
  <2> QED
    BY <1>2, <2>1, ConnUnchanged, SMTT(30) DEF IInv
<1> QED
  BY <1>5, <1>9, <1>10 DEF IInv

LEMMA WrittenStep == ASSUME IInv, NEW c \in Conn, on_write_complete(c) PROVE IInv'
<1>0. /\ TypeOK /\ TableIsExact /\ LoopOK /\ ConnOK(c)
      /\ writing[c] > 0 /\ sock[c] = "alive"
      /\ writing' = [ writing EXCEPT ![c] = @ - 1 ]
      /\ unanswered' = [ unanswered EXCEPT ![c] = @ - 1 ]
      /\ UNCHANGED << sock, peer, clients, buffer_length, requests, in_flight, listening, stop_request, loop >>
  BY DEF IInv, on_write_complete
<1>1. /\ writing[c] \in Nat /\ unanswered[c] \in Nat /\ Len(requests[c]) \in Nat
      /\ Len(requests[c]) + writing[c] <= unanswered[c] /\ unanswered[c] <= Window(c)
  BY <1>0 DEF TypeOK, ConnOK, Balanced
<1>2. writing'[c] = writing[c] - 1 /\ unanswered'[c] = unanswered[c] - 1
  BY <1>0 DEF TypeOK
<1>3. TypeOK'
  <2>1. writing[c] - 1 \in Nat /\ unanswered[c] - 1 \in Nat
    BY <1>0, <1>1, SMTT(30)
  <2> QED
    BY <1>0, <2>1 DEF TypeOK
<1>4. TableIsExact'
  BY <1>0, TableUnchanged
<1>5. LoopOK'
  BY <1>0, SMTT(30) DEF LoopOK
<1>6. ASSUME NEW d \in Conn PROVE ConnOK(d)'
  <2>1. CASE d = c
    <3>1. Len(requests[c]) + writing'[c] <= unanswered'[c] /\ unanswered'[c] <= Window(c)
      <4>1. Window(c) \in Nat
        BY WindowType
      <4> QED
        BY <1>1, <1>2, <4>1, SMTT(30)
    <3>2. Balanced(c)'
      BY <1>0, <3>1, Zenon DEF ConnOK, Balanced
    <3> QED
      BY <1>0, <2>1, <3>2 DEF ConnOK
  <2>2. CASE d # c
    BY <1>0, <2>2, ConnUnchanged DEF IInv, TypeOK
  <2> QED
    BY <2>1, <2>2
<1> QED
  BY <1>3, <1>4, <1>5, <1>6 DEF IInv

LEMMA FreedStep == ASSUME IInv, NEW c \in Conn, on_client_free(c) PROVE IInv'
<1>1. TypeOK'
  BY DEF IInv, TypeOK, on_client_free
<1>2. TableIsExact'
  BY TableUnchanged DEF IInv, TypeOK, on_client_free
<1>3. LoopOK'
  BY DEF IInv, TypeOK, LoopOK, on_client_free
<1>4. ASSUME NEW d \in Conn PROVE ConnOK(d)'
  <2>1. CASE d = c
    <3>1. /\ sock'[c] = "none" /\ buffer_length'[c] = 0 /\ requests'[c] = << >>
          /\ in_flight'[c] = 0 /\ writing'[c] = 0 /\ unanswered'[c] = 0
      BY DEF IInv, TypeOK, on_client_free
    <3>2. Balanced(c)' /\ buffer_length'[c] <= PacketMax
      BY <3>1, FreshNext
    <3> QED
      BY <2>1, <3>1, <3>2 DEF ConnOK
  <2>2. CASE d # c
    BY <2>2, ConnUnchanged DEF IInv, TypeOK, on_client_free
  <2> QED
    BY <2>1, <2>2
<1> QED
  BY <1>1, <1>2, <1>3, <1>4 DEF IInv

-----------------------------------------------------------------------------
LEMMA ShutdownStep == ASSUME IInv, on_server_shutdown PROVE IInv'
<1> DEFINE waiting == { c \in Conn : sock[c] \in { "backlog", "held" } }
<1>0. TypeOK /\ TableIsExact /\ \A c \in Conn : ConnOK(c)
  BY DEF IInv
<1>1. \A c \in Conn : c \in OpenClients <=> sock[c] = "alive"
  BY <1>0, ServerAssumption DEF TableIsExact, OpenClients
<1>2. \A c \in Conn : sock'[c] = IF c \in waiting THEN "none"
                                 ELSE IF c \in OpenClients THEN "closing" ELSE sock[c]
  BY DEF on_server_shutdown
<1>3. \A c \in Conn : sock'[c] \in { "none", "closing" }
  BY <1>0, <1>1, <1>2 DEF TypeOK
<1>4. \A i \in Slot : clients'[i] = NoConn
  <2>1. \A i \in Slot : clients'[i] = IF clients[i] \in OpenClients THEN NoConn ELSE clients[i]
    BY DEF on_server_shutdown
  <2>2. \A i \in Slot : clients[i] \in OpenClients \/ clients[i] = NoConn
    BY DEF OpenClients
  <2> QED
    BY <2>1, <2>2
<1>5. TypeOK'
  <2>1. sock' \in [ Conn -> { "none", "backlog", "held", "alive", "closing" } ]
    BY <1>3 DEF on_server_shutdown
  <2>2. clients' \in [ Slot -> Conn \cup { NoConn } ]
    BY <1>4 DEF on_server_shutdown
  <2>3. in_flight' \in [ Conn -> Nat ]
    BY <1>0 DEF TypeOK, on_server_shutdown
  <2>4. peer' \in [ Conn -> { "here", "gone" } ]
    BY <1>0 DEF TypeOK, on_server_shutdown
  <2>5. requests' \in [ Conn -> Seq(Sent) ] /\ unanswered' \in [ Conn -> Nat ]
    BY <1>0 DEF TypeOK, on_server_shutdown
  <2>6. /\ listening' \in BOOLEAN /\ loop' = "stopping"
        /\ UNCHANGED << buffer_length, writing, stop_request >>
    BY Zenon DEF on_server_shutdown
  <2> QED
    BY <1>0, <2>1, <2>2, <2>3, <2>4, <2>5, <2>6, SMTT(30) DEF TypeOK
<1>6. TableIsExact'
  BY <1>3, <1>4, ServerAssumption DEF TableIsExact
<1>7. LoopOK'
  BY <1>3 DEF LoopOK, on_server_shutdown
<1>8. ASSUME NEW c \in Conn PROVE ConnOK(c)'
  <2>1. UNCHANGED << buffer_length, writing >>
    BY DEF on_server_shutdown
  <2>2. CASE c \in waiting
    <3>1. sock'[c] = "none" /\ in_flight'[c] = 0 /\ requests'[c] = << >> /\ unanswered'[c] = 0
      BY <2>2 DEF on_server_shutdown
    <3>2. buffer_length'[c] = 0 /\ writing'[c] = 0
      BY <1>0, <2>1, <2>2 DEF ConnOK
    <3>3. Balanced(c)' /\ buffer_length'[c] <= PacketMax
      BY <3>1, <3>2, FreshNext, SMTT(30)
    <3> QED
      BY <3>1, <3>2, <3>3, SMTT(30) DEF ConnOK
  <2>3. CASE c \notin waiting /\ sock[c] # "alive"
    <3>1. /\ sock'[c] = sock[c] /\ in_flight'[c] = in_flight[c]
          /\ requests'[c] = requests[c] /\ unanswered'[c] = unanswered[c]
      BY <1>1, <2>3, SMTT(30) DEF on_server_shutdown
    <3> QED
      BY <1>0, <2>1, <3>1, ConnUnchanged, SMTT(30)
  <2>4. CASE sock[c] = "alive"
    BY <1>0, <1>1, <1>2, <2>1, <2>4 DEF ConnOK
  <2> QED
    BY <2>2, <2>3, <2>4
<1> QED
  BY <1>5, <1>6, <1>7, <1>8 DEF IInv

LEMMA LoopStep == ASSUME IInv, server_stop \/ server_run_returns PROVE IInv'
<1>0. UNCHANGED conn_vars /\ TypeOK /\ TableIsExact
  BY DEF IInv, server_stop, server_run_returns
<1>1. TypeOK'
  BY <1>0, Zenon DEF TypeOK, conn_vars, server_stop, server_run_returns
<1>2. TableIsExact'
  BY <1>0, TableUnchanged DEF conn_vars
<1>3. LoopOK'
  BY <1>0, SMTT(30) DEF IInv, LoopOK, conn_vars, server_stop, server_run_returns
<1>4. \A c \in Conn : ConnOK(c)'
  BY <1>0, ConnUnchanged DEF IInv, conn_vars
<1> QED
  BY <1>1, <1>2, <1>3, <1>4 DEF IInv

LEMMA StutterStep == ASSUME IInv, UNCHANGED vars PROVE IInv'
<1>0. UNCHANGED conn_vars /\ UNCHANGED << listening, stop_request, loop >> /\ TypeOK /\ TableIsExact
  BY DEF IInv, vars
<1>1. TypeOK'
  BY <1>0 DEF TypeOK, conn_vars
<1>2. TableIsExact'
  BY <1>0, TableUnchanged DEF conn_vars
<1>3. LoopOK'
  BY <1>0 DEF IInv, LoopOK, conn_vars
<1>4. \A c \in Conn : ConnOK(c)'
  BY <1>0, ConnUnchanged DEF IInv, conn_vars
<1> QED
  BY <1>1, <1>2, <1>3, <1>4 DEF IInv

LEMMA NextIInv == ASSUME FewUnderWay PROVE IInv /\ [Next]_vars => IInv'
<1> SUFFICES ASSUME IInv, [Next]_vars PROVE IInv'
  OBVIOUS
<1>1. ASSUME NEW c \in Conn, Client(c) PROVE IInv'
  BY <1>1, ConnectStep, SendStep, HangUpStep DEF Client
<1>2. ASSUME NEW c \in Conn, Callback(c) PROVE IInv'
  BY <1>2, ConnectedStep, ReadStep, HangUpSeen, WrittenStep, FreedStep, SMTT(30) DEF Callback
<1> QED
  BY <1>1, <1>2, ShutdownStep, LoopStep, StutterStep DEF Next

(* Every connection that is balanced is in step with its client. *)
LEMMA IInvFraming == IInv => FramingInSync
<1> SUFFICES ASSUME IInv, NEW c \in Conn, sock[c] = "alive"
             PROVE  /\ buffer_length[c] + in_flight[c] = EndOf(requests[c])
                    /\ c \notin Pipelining /\ requests[c] # << >> => buffer_length[c] < requests[c][1].end
  BY DEF FramingInSync
<1>1. Balanced(c) /\ buffer_length[c] \in Nat /\ requests[c] \in Seq(Sent)
  BY SMTT(30) DEF IInv, ConnOK, TypeOK
<1>2. ASSUME c \notin Pipelining, requests[c] # << >> PROVE buffer_length[c] < requests[c][1].end
  <2>1. requests[c][1].end \in Nat /\ requests[c][1].end > 0
    BY <1>1, <1>2, EndType, BytesType, SMTT(30) DEF Balanced, InOrder
  <2>2. buffer_length[c] <= Room(0) \/ buffer_length[c] < requests[c][1].end
    BY <1>1, <1>2 DEF Balanced, Pending, Window
  <2>3. Room(0) = 0
    BY RoomType
  <2> QED
    BY <1>1, <2>1, <2>2, <2>3, SMTT(30)
<1> QED
  BY <1>1, <1>2 DEF Balanced

LEMMA IInvBuffer == IInv => BufferFits
<1> SUFFICES ASSUME IInv, NEW c \in Conn, sock[c] = "alive", NEW k \in on_alloc
             PROVE  buffer_length[c] + k <= PacketMax + ReadMax
  BY DEF BufferFits
<1>1. buffer_length[c] <= PacketMax /\ buffer_length[c] \in Nat /\ k \in Nat /\ k <= ReadMax
  BY ServerAssumption DEF IInv, ConnOK, TypeOK, on_alloc
<1> QED
  BY <1>1, ServerAssumption

(* The server alone (server.c), for any number of connections and slots    *)
(* and any stream of requests: the table of clients is exact, the framing  *)
(* stays in step and every read fits into the buffer.                      *)
THEOREM ServerSafety ==
  ASSUME FewUnderWay
  PROVE  Spec => [](TypeOK /\ TableIsExact /\ FramingInSync /\ BufferFits)
<1>1. IInv => TypeOK /\ TableIsExact /\ FramingInSync /\ BufferFits
  BY IInvFraming, IInvBuffer DEF IInv
<1> QED
  BY InitIInv, NextIInv, <1>1, PTL DEF Spec

-----------------------------------------------------------------------------
(* Every step of the program is one of the server, or none. *)
LEMMA ProgramStepIsServerStep == [ProgramNext]_all_vars => [Next]_vars
<1> SUFFICES ASSUME [ProgramNext]_all_vars PROVE [Next]_vars
  OBVIOUS
<1>1. CASE ProgramStep
  BY <1>1 DEF ProgramStep, InstallHandlers, CreateDatabase, CreateServer, Listen, InLoop,
              Return, DestroyServer, CloseDatabase, Next
<1>2. ASSUME NEW c \in Conn, InLoop(Client(c)) \/ InLoop(Callback(c)) PROVE Next
  BY <1>2 DEF InLoop, Next
<1>3. CASE Signal
  BY <1>3 DEF Signal, all_vars, Next
<1>4. CASE UNCHANGED all_vars
  BY <1>4 DEF all_vars
<1> QED
  BY <1>1, <1>2, <1>3, <1>4 DEF ProgramNext

(* The program implements the server of module Server (fairness aside):    *)
(* start-up, signals and tear-down in main.c let the loop do nothing that  *)
(* server.c alone could not do.                                            *)
THEOREM ProgramIsServer == ProgramSpec => Init /\ [][Next]_vars
BY ProgramStepIsServerStep, PTL DEF ProgramSpec, ProgramInit

(* The loop does not come back. *)
LEMMA EndedForGood == ASSUME loop = "ended", [Next]_vars PROVE loop' = "ended"
<1>1. ASSUME NEW c \in Conn, Client(c) PROVE loop' = "ended"
  BY <1>1, SMTT(30) DEF Client, Connect, Send, HangUp
<1>2. ASSUME NEW c \in Conn, Callback(c) PROVE loop' = "ended"
  BY <1>2, ZenonT(30) DEF Callback, on_client_connected, on_data_read, on_hang_up, on_write_complete, on_client_free
<1> QED
  BY <1>1, <1>2 DEF Next, server_stop, on_server_shutdown, server_run_returns, vars

LEMMA ProgramInvInit == ProgramInit => ProgramInv
BY InitIInv DEF ProgramInit, ProgramInv, PhaseOK

LEMMA ProgramInvNext == ASSUME FewUnderWay PROVE ProgramInv /\ [ProgramNext]_all_vars => ProgramInv'
<1> SUFFICES ASSUME ProgramInv, [ProgramNext]_all_vars PROVE ProgramInv'
  OBVIOUS
<1>1. [Next]_vars
  BY ProgramStepIsServerStep
<1>2. IInv'
  BY <1>1, NextIInv DEF ProgramInv
<1>3. loop = "ended" => loop' = "ended"
  BY <1>1, EndedForGood
<1>4. PhaseOK'
  <2>1. CASE ProgramStep
    BY <1>3, <2>1 DEF ProgramInv, PhaseOK, ProgramStep, Step, InstallHandlers, CreateDatabase, CreateServer,
         Listen, InLoop, Return, server_run_returns, DestroyServer, CloseDatabase, program_vars
  <2>2. ASSUME NEW c \in Conn, InLoop(Client(c)) \/ InLoop(Callback(c)) PROVE PhaseOK'
    BY <1>3, <2>2 DEF ProgramInv, PhaseOK, InLoop, program_vars
  <2>3. CASE Signal
    BY <1>3, <2>3 DEF ProgramInv, PhaseOK, Signal, Step, Ended, all_vars, program_vars
  <2>4. CASE UNCHANGED all_vars
    BY <1>3, <2>4 DEF ProgramInv, PhaseOK, all_vars, program_vars
  <2> QED
    BY <2>1, <2>2, <2>3, <2>4 DEF ProgramNext
<1> QED
  BY <1>2, <1>4 DEF ProgramInv

LEMMA ProgramInvariant == ASSUME FewUnderWay PROVE ProgramSpec => []ProgramInv
BY ProgramInvInit, ProgramInvNext, PTL DEF ProgramSpec

(* The sockets, slots, buffers and requests of server.c stay in their      *)
(* types, whatever order the callbacks of the program run in.              *)
THEOREM ProgramTypes == ASSUME FewUnderWay PROVE ProgramSpec => []TypeOK
<1>1. ProgramInv => TypeOK
  BY DEF ProgramInv, IInv
<1> QED
  BY <1>1, ProgramInvariant, PTL

(* server->clients holds exactly the open connections, each once, in every *)
(* state of the program.                                                   *)
THEOREM ProgramTableIsExact == ASSUME FewUnderWay PROVE ProgramSpec => []TableIsExact
<1>1. ProgramInv => TableIsExact
  BY DEF ProgramInv, IInv
<1> QED
  BY <1>1, ProgramInvariant, PTL

(* The packets on_data_read puts together stay in step with the requests.  *)
THEOREM ProgramFramingInSync == ASSUME FewUnderWay PROVE ProgramSpec => []FramingInSync
<1>1. ProgramInv => FramingInSync
  BY IInvFraming DEF ProgramInv
<1> QED
  BY <1>1, ProgramInvariant, PTL

(* client->buffer never overflows, whatever the chunks and request sizes.  *)
THEOREM ProgramBufferFits == ASSUME FewUnderWay PROVE ProgramSpec => []BufferFits
<1>1. ProgramInv => BufferFits
  BY IInvBuffer DEF ProgramInv
<1> QED
  BY <1>1, ProgramInvariant, PTL

(* server_destroy in main.c is reached with no client, write or slot left  *)
(* that refers to the server, whenever the signals came.                   *)
THEOREM ProgramNothingOutlives == ASSUME FewUnderWay PROVE ProgramSpec => []NothingOutlivesServer
<1>1. ProgramInv => NothingOutlivesServer
  <2> SUFFICES ASSUME ProgramInv, g_server = "freed" PROVE NothingOutlivesServer
    BY DEF NothingOutlivesServer
  <2>1. \A c \in Conn : sock[c] = "none"
    BY DEF ProgramInv, PhaseOK, IInv, LoopOK
  <2>2. \A c \in Conn : writing[c] = 0
    BY <2>1 DEF ProgramInv, IInv, ConnOK
  <2>3. \A i \in Slot : clients[i] = NoConn
    <3>1. clients \in [ Slot -> Conn \cup { NoConn } ] /\ TableIsExact
      BY DEF ProgramInv, IInv, TypeOK
    <3> QED
      BY <2>1, <3>1 DEF TableIsExact
  <2> QED
    BY <2>1, <2>2, <2>3 DEF NothingOutlivesServer
<1> QED
  BY <1>1, ProgramInvariant, PTL
=============================================================================
