---------------------------- MODULE ClientsProofs ----------------------------
(***************************************************************************)
(* What the calls of a session, of shakadbctl and of the client libraries  *)
(* report is true, for series, batches, packets and pages of any size and  *)
(* wherever the connection breaks.                                         *)
(*                                                                         *)
(* Whatever program runs on it, the two ends of a connection stay in step. *)
(* Wire says for every state of the session which packets can be under     *)
(* way, and SessionInv also what they will make of the read and the write  *)
(* that wait for them; the first half of the module shows that the calls   *)
(* of session.c, the server's answers, a lost connection and the requests  *)
(* of the libraries preserve it.  The second half adds, in IInv, what they *)
(* will make of the points taken, the answers and the readers of          *)
(* shakadbctl and of the libraries, which is what the invariants of the    *)
(* runs need.                                                              *)
(***************************************************************************)
EXTENDS Clients, TLAPS

Libraries == { "python", "dotnet" }
LibraryCalls == { "lib_write", "lib_truncate", "lib_latest", "lib_next" }
SimpleCalls == { "write", "truncate", "lib_write", "lib_truncate" }

-----------------------------------------------------------------------------
Quiet == to_server = << >> /\ to_client = << >>
Sent(m) == to_server = << m >> /\ to_client = << >>
Back(m) == to_server = << >> /\ to_client = << m >>

RequestOf(c) == IF c \in { "write", "lib_write" } THEN "write" ELSE "truncate"

(* What is under way, for every call that waits and for a read. *)
SimpleWire ==
  call \in SimpleCalls =>
    /\ ~ read_open
    /\ \/ Quiet
       \/ \E n \in 0 .. MaxBatch : Sent(Message(RequestOf(call), n))
       \/ \E s \in { OK, ERROR } : Back(Message("simple", s))

LatestWire ==
  call = "lib_latest" =>
    /\ ~ read_open
    /\ \/ Quiet
       \/ \E n \in 0 .. MaxPoints : Sent(Message("latest", n))
       \/ \E n \in 0 .. MaxPoints : Back(Message("read", n))

ReadWire ==
  read_open =>
    \/ \E n \in 0 .. MaxPoints : Sent(Message("read", n))
    \/ \E n \in Latest : Sent(Message("latest", n))
    \/ /\ to_server = << >>
       /\ \A i \in 1 .. Len(to_client) : to_client[i].type = "read"

Wire ==
  /\ ~ up => to_server = << >>
  /\ call = "none" /\ ~ read_open => Quiet
  /\ call \in { "read_next", "lib_next" } => read_open
  /\ SimpleWire /\ LatestWire /\ ReadWire

(* The packets q are the first ones of an answer to a read of w points. *)
Stream(q, w) ==
  /\ Len(q) <= Len(Pages(w))
  /\ \A i \in 1 .. Len(q) : q[i] = Pages(w)[i]

(* Of a read of d points, g were delivered and the others are under way,   *)
(* or as many of them as arrived before the connection broke.              *)
Serves(d, g) ==
  IF to_server = << >> THEN Stream(to_client, d - g)
  ELSE to_server[1].count = d /\ g = 0

(* The read of a session. *)
SessionRead ==
  /\ read_open /\ command \notin Libraries => Serves(due, got)
  /\ ~ read_open /\ up => got = due
  /\ command \in Libraries => got = due

(* What the answer to a session_write will say is true. *)
WriteAnswer ==
  call = "write" =>
    /\ to_server # << >> => ~ carried_out
    /\ to_client # << >> => (to_client[1].count = OK <=> carried_out)

(* Each program makes its own calls. *)
OwnCalls ==
  /\ call = "write" => command \in { "write", "calls" }
  /\ call = "truncate" => command \in { "truncate", "calls" }
  /\ call = "read_next" => command \in { "read", "latest", "calls" }
  /\ call \in LibraryCalls => command \in Libraries
  /\ result.call = "lib_write" => command \in Libraries
  /\ result.call = "write" => command \notin Libraries

SessionInv ==
  /\ TypeOK /\ command \in Commands
  /\ Wire /\ SessionRead /\ WriteAnswer /\ OwnCalls /\ WriteResultIsTrue

-----------------------------------------------------------------------------
(* What the provers need to know about sequences.                          *)
LEMMA SeqDef == \A S : Seq(S) = UNION { [ 1 .. n -> S ] : n \in Nat }
OBVIOUS

LEMMA SeqMonotonic ==
  ASSUME NEW S, NEW T, NEW s \in Seq(S), S \subseteq T
  PROVE  s \in Seq(T)
OBVIOUS

LEMMA ElementOfSeq ==
  ASSUME NEW S, NEW s \in Seq(S), NEW i \in 1 .. Len(s)
  PROVE  s[i] \in S
OBVIOUS

LEMMA EmptySeq ==
  ASSUME NEW S
  PROVE  /\ << >> \in Seq(S)
         /\ Len(<< >>) = 0
         /\ \A s \in Seq(S) : s # << >> => Len(s) \in Nat \ {0}
OBVIOUS

LEMMA LenProperties ==
  ASSUME NEW S, NEW s \in Seq(S)
  PROVE  /\ Len(s) \in Nat
         /\ s \in [ 1 .. Len(s) -> S ]
         /\ DOMAIN s = 1 .. Len(s)
OBVIOUS

LEMMA ConcatEmptySeq ==
  ASSUME NEW S, NEW s \in Seq(S)
  PROVE  s \o << >> = s /\ << >> \o s = s
OBVIOUS

LEMMA HeadTailProperties ==
  ASSUME NEW S, NEW s \in Seq(S), s # << >>
  PROVE  /\ Head(s) \in S
         /\ Tail(s) \in Seq(S)
         /\ Len(Tail(s)) = Len(s) - 1
         /\ \A i \in 1 .. Len(Tail(s)) : Tail(s)[i] = s[i + 1]
OBVIOUS

-----------------------------------------------------------------------------
LEMMA Single ==
  ASSUME NEW m
  PROVE  /\ Head(<< m >>) = m /\ Tail(<< m >>) = << >> /\ Len(<< m >>) = 1
         /\ << m >>[1] = m /\ << m >> # << >>
         /\ Append(<< >>, m) = << m >> /\ << >> \o << m >> = << m >>
OBVIOUS

LEMMA Fields == \A t, n : Message(t, n).type = t /\ Message(t, n).count = n
BY Zenon DEF Message

(* The packets of a read: a full one if there are that many points left,   *)
(* then those of what is left then.                                        *)
Left(w) == w - Smaller(PagePoints, w)

Full(w) == (w + PagePoints - 1) \div PagePoints

PageSize(w, i) == IF i > Full(w) THEN 0 ELSE Smaller(PagePoints, w - (i - 1) * PagePoints)

LEMMA PagesIs == ASSUME NEW w PROVE Pages(w) = [ i \in 1 .. Full(w) + 1 |-> ReadResponse(PageSize(w, i)) ]
BY Zenon DEF Pages, Full, PageSize

LEMMA FullIs ==
  ASSUME NEW w \in Nat
  PROVE  /\ Full(w) \in Nat
         /\ w = 0 <=> Full(w) = 0
         /\ w > 0 => Full(Left(w)) = Full(w) - 1 /\ Left(w) \in Nat /\ Left(w) < w
         /\ w <= PagePoints /\ w > 0 => Full(w) = 1
<1> PagePoints \in Nat \ {0}
  BY SessionAssumption, Zenon
<1> QED
  BY DEF Full, Left, Smaller

LEMMA PageSizeIs ==
  ASSUME NEW w \in Nat, NEW i \in 1 .. Full(w) + 1
  PROVE  /\ PageSize(w, i) \in 0 .. w
         /\ PageSize(w, 1) = Smaller(PagePoints, w)
         /\ w > 0 /\ i > 1 => PageSize(w, i) = PageSize(Left(w), i - 1)
<1> PagePoints \in Nat \ {0}
  BY SessionAssumption, Zenon
<1>1. Full(w) \in Nat
  BY FullIs, Zenon
<1>2. PageSize(w, i) \in 0 .. w
  BY <1>1 DEF PageSize, Smaller, Full
<1>3. PageSize(w, 1) = Smaller(PagePoints, w)
  BY FullIs DEF PageSize, Smaller
<1>4. ASSUME w > 0, i > 1 PROVE PageSize(w, i) = PageSize(Left(w), i - 1)
  BY <1>4, FullIs DEF PageSize, Left, Smaller
<1> QED
  BY <1>2, <1>3, <1>4, Zenon

LEMMA PagesAre ==
  ASSUME NEW w \in Nat
  PROVE  /\ Pages(w) \in Seq([ type : { "read" }, count : 0 .. w ])
         /\ Len(Pages(w)) = Full(w) + 1
         /\ \A i \in 1 .. Full(w) + 1 : Pages(w)[i] = ReadResponse(PageSize(w, i))
<1> DEFINE n == Full(w) + 1
           R == [ type : { "read" }, count : 0 .. w ]
<1>1. n \in Nat
  BY FullIs
<1>2. \A i \in 1 .. n : ReadResponse(PageSize(w, i)) \in R
  BY PageSizeIs, Zenon DEF ReadResponse, Message
<1>3. Pages(w) = [ i \in 1 .. n |-> ReadResponse(PageSize(w, i)) ]
  BY PagesIs, Zenon
<1> HIDE DEF n, R
<1>4. Pages(w) \in [ 1 .. n -> R ] /\ \A i \in 1 .. n : Pages(w)[i] = ReadResponse(PageSize(w, i))
  BY <1>2, <1>3, Zenon
<1>5. Pages(w) \in Seq(R)
  BY <1>1, <1>4, SeqDef, Zenon
<1>6. Len(Pages(w)) = n
  BY <1>1, <1>4, <1>5, LenProperties
<1> QED
  BY <1>4, <1>5, <1>6, Zenon DEF n, R

LEMMA PagesFirst ==
  ASSUME NEW w \in Nat
  PROVE  /\ Len(Pages(w)) \in Nat \ {0}
         /\ Pages(w)[1] = ReadResponse(Smaller(PagePoints, w))
         /\ w = 0 => Len(Pages(w)) = 1
<1>1. Full(w) \in Nat /\ (w = 0 => Full(w) = 0) /\ 1 \in 1 .. Full(w) + 1
  BY FullIs
<1>2. PageSize(w, 1) = Smaller(PagePoints, w)
  BY <1>1, PageSizeIs, Zenon
<1>3. Len(Pages(w)) = Full(w) + 1 /\ Pages(w)[1] = ReadResponse(PageSize(w, 1))
  BY <1>1, PagesAre, Zenon
<1> QED
  BY <1>1, <1>2, <1>3

LEMMA PagesRest ==
  ASSUME NEW w \in Nat, w > 0
  PROVE  /\ Left(w) \in Nat
         /\ Len(Pages(Left(w))) = Len(Pages(w)) - 1
         /\ \A i \in 1 .. Len(Pages(w)) - 1 : Pages(w)[i + 1] = Pages(Left(w))[i]
<1>1. Full(w) \in Nat /\ Left(w) \in Nat /\ Full(Left(w)) = Full(w) - 1
  BY FullIs, Zenon
<1>2. /\ Len(Pages(w)) = Full(w) + 1
      /\ \A i \in 1 .. Full(w) + 1 : Pages(w)[i] = ReadResponse(PageSize(w, i))
  BY PagesAre, Zenon
<1>3. /\ Len(Pages(Left(w))) = Full(w)
      /\ \A i \in 1 .. Full(w) : Pages(Left(w))[i] = ReadResponse(PageSize(Left(w), i))
  <2>1. /\ Len(Pages(Left(w))) = Full(Left(w)) + 1
        /\ \A i \in 1 .. Full(Left(w)) + 1 : Pages(Left(w))[i] = ReadResponse(PageSize(Left(w), i))
    BY <1>1, PagesAre, Zenon
  <2>2. Full(Left(w)) + 1 = Full(w)
    BY <1>1
  <2> QED
    BY <2>1, <2>2, Zenon
<1>4. ASSUME NEW i \in 1 .. Full(w) PROVE PageSize(w, i + 1) = PageSize(Left(w), i)
  <2>1. i + 1 \in 1 .. Full(w) + 1 /\ i + 1 > 1 /\ (i + 1) - 1 = i
    BY <1>1
  <2> QED
    BY <2>1, PageSizeIs, Zenon
<1> QED
  BY <1>1, <1>2, <1>3, <1>4, SMTT(30)

LEMMA StreamPages == ASSUME NEW w \in Nat PROVE Stream(Pages(w), w)
BY PagesFirst DEF Stream

LEMMA StreamNone == ASSUME NEW w \in Nat PROVE Stream(<< >>, w)
BY PagesFirst DEF Stream

(* The answer to a request for the latest point is the beginning of the    *)
(* answer to a read of one point.                                          *)
LEMMA StreamLatest == ASSUME NEW d \in 0 .. 1 PROVE Stream(<< ReadResponse(d) >>, d)
<1>1. Pages(d)[1] = ReadResponse(Smaller(PagePoints, d)) /\ 1 <= Len(Pages(d))
  <2>1. d \in Nat
    OBVIOUS
  <2>2. Len(Pages(d)) \in Nat \ {0} /\ Pages(d)[1] = ReadResponse(Smaller(PagePoints, d))
    BY <2>1, PagesFirst, Zenon
  <2> QED
    BY <2>2
<1>2. Smaller(PagePoints, d) = d
  BY SessionAssumption DEF Smaller
<1> QED
  BY <1>1, <1>2 DEF Stream

LEMMA PrefixIs ==
  ASSUME NEW q \in Seq(Answer), NEW n \in 0 .. Len(q)
  PROVE  /\ SubSeq(q, 1, n) \in Seq(Answer)
         /\ Len(SubSeq(q, 1, n)) = n
         /\ \A i \in 1 .. n : SubSeq(q, 1, n)[i] = q[i]
OBVIOUS

LEMMA StreamPrefix ==
  ASSUME NEW q \in Seq(Answer), NEW w \in Nat, Stream(q, w), NEW n \in 0 .. Len(q)
  PROVE  Stream(SubSeq(q, 1, n), w)
<1>1. Len(Pages(w)) \in Nat
  BY PagesFirst, Zenon
<1> QED
  BY <1>1, PrefixIs DEF Stream

(* The first packet that arrives holds as many points as fit, and is empty *)
(* only if none are left; the others are those of what is left.            *)
LEMMA StreamHead ==
  ASSUME NEW q \in Seq(Answer), NEW w \in Nat, Stream(q, w), q # << >>
  PROVE  /\ Head(q) = ReadResponse(Smaller(PagePoints, w))
         /\ w > 0 => Stream(Tail(q), Left(w))
<1>1. Len(q) \in Nat \ {0} /\ Head(q) = q[1]
  OBVIOUS
<1>2. Head(q) = ReadResponse(Smaller(PagePoints, w))
  <2>1. q[1] = Pages(w)[1]
    BY <1>1 DEF Stream
  <2>2. Pages(w)[1] = ReadResponse(Smaller(PagePoints, w))
    BY PagesFirst, Zenon
  <2> QED
    BY <1>1, <2>1, <2>2, Zenon
<1>3. Tail(q) \in Seq(Answer) /\ Len(Tail(q)) = Len(q) - 1 /\ \A i \in 1 .. Len(q) - 1 : Tail(q)[i] = q[i + 1]
  BY HeadTailProperties, Zenon
<1>4. ASSUME w > 0 PROVE Stream(Tail(q), Left(w))
  <2>1. /\ Len(Pages(w)) \in Nat
        /\ Len(Pages(Left(w))) = Len(Pages(w)) - 1
        /\ \A i \in 1 .. Len(Pages(w)) - 1 : Pages(w)[i + 1] = Pages(Left(w))[i]
    BY <1>4, PagesRest, PagesFirst, Zenon
  <2>2. Len(q) <= Len(Pages(w)) /\ \A i \in 1 .. Len(q) : q[i] = Pages(w)[i]
    BY Zenon DEF Stream
  <2> QED
    BY <1>1, <1>3, <2>1, <2>2, SMTT(30) DEF Stream
<1> QED
  BY <1>2, <1>4, Zenon

-----------------------------------------------------------------------------
(* The session: its calls, on a command that makes them. *)
LEMMA Sizes ==
  /\ MaxPoints \in Nat /\ MaxBatch \in Nat /\ PagePoints \in Nat \ {0}
  /\ \A n \in 0 .. MaxBatch, type \in { "write", "truncate" } : Message(type, n) \in Packet
  /\ \A n \in 0 .. MaxPoints, type \in { "read", "latest" } : Message(type, n) \in Packet
  /\ \A s \in { OK, ERROR } : Message("simple", s) \in Answer
  /\ \A n \in 0 .. MaxPoints : Message("read", n) \in Answer
BY SessionAssumption DEF Message, Packet, Answer, OK, ERROR

LEMMA LatestType == ASSUME SessionInv PROVE Latest \subseteq 0 .. MaxPoints /\ Latest \subseteq 0 .. 1
BY Sizes DEF SessionInv, TypeOK, Latest, Smaller

(* A request to a server that is there is under way. *)
LEMMA SendOne ==
  ASSUME Quiet, NEW m \in Packet, to_server' = IF up THEN Append(to_server, m) ELSE to_server
  PROVE  /\ to_server' \in Seq(Packet)
         /\ to_server' = << >> \/ to_server' = << m >>
         /\ ~ up => to_server' = << >>
BY Single DEF Quiet

LEMMA SessionSame ==
  ASSUME SessionInv, UNCHANGED vars, command' = command
  PROVE  SessionInv'
<1> USE DEF SessionInv, vars, conn, session
<1>1. TypeOK'
  BY Zenon DEF TypeOK
<1>2. Wire'
  BY Zenon DEF Wire, SimpleWire, LatestWire, ReadWire, Latest, Quiet, Sent, Back
<1>3. SessionRead'
  BY Zenon DEF SessionRead, Serves
<1>4. WriteAnswer' /\ OwnCalls' /\ WriteResultIsTrue'
  BY Zenon DEF WriteAnswer, OwnCalls, WriteResultIsTrue
<1> QED
  BY <1>1, <1>2, <1>3, <1>4, Zenon

LEMMA RefuseKeepsSession ==
  ASSUME SessionInv, NEW c, Refuse(c), command' = command,
         c = "lib_write" => command \in Libraries, c = "write" => command \notin Libraries
  PROVE  SessionInv'
<1> USE DEF SessionInv, Refuse, conn
<1>1. TypeOK'
  BY Zenon DEF TypeOK
<1>2. Wire'
  BY Zenon DEF Wire, SimpleWire, LatestWire, ReadWire, Latest, Quiet, Sent, Back
<1>3. SessionRead'
  BY Zenon DEF SessionRead, Serves
<1>4. WriteAnswer' /\ OwnCalls'
  BY Zenon DEF WriteAnswer, OwnCalls, Returned
<1>5. WriteResultIsTrue'
  BY Zenon DEF WriteResultIsTrue, Returned
<1> QED
  BY <1>1, <1>2, <1>3, <1>4, <1>5, Zenon

LEMMA WriteKeepsSession ==
  ASSUME SessionInv, NEW n \in 0 .. MaxBatch, session_write(n), ~ read_open,
         command \in { "write", "calls" }, command' = command
  PROVE  SessionInv'
<1> USE DEF SessionInv
<1>1. /\ call = "none" /\ call' = "write" /\ carried_out' = FALSE
      /\ UNCHANGED << accepted, up, to_client, read_open, read_response, result, due, got >>
      /\ Quiet
  BY Zenon DEF session_write, Refuse, Wire
<1>2. /\ to_server' \in Seq(Packet)
      /\ to_server' = << >> \/ to_server' = << Message("write", n) >>
      /\ ~ up => to_server' = << >>
  BY <1>1, SendOne, Sizes, Zenon DEF session_write, session_send, Refuse
<1>3. TypeOK'
  BY <1>1, <1>2, Zenon DEF TypeOK
<1>4. Wire'
  BY <1>1, <1>2, Zenon DEF Wire, SimpleWire, LatestWire, ReadWire, Quiet, Sent, Back, RequestOf, SimpleCalls
<1>5. SessionRead'
  BY <1>1, Zenon DEF SessionRead
<1>6. WriteAnswer' /\ OwnCalls'
  BY <1>1, Zenon DEF WriteAnswer, OwnCalls, Quiet, LibraryCalls
<1>7. WriteResultIsTrue'
  BY <1>1, Zenon DEF WriteResultIsTrue
<1> QED
  BY <1>1, <1>3, <1>4, <1>5, <1>6, <1>7, Zenon

LEMMA TruncateKeepsSession ==
  ASSUME SessionInv, session_truncate, ~ read_open,
         command \in { "truncate", "calls" }, command' = command
  PROVE  SessionInv'
<1> USE DEF SessionInv
<1>1. /\ call = "none" /\ call' = "truncate" /\ carried_out' = FALSE
      /\ UNCHANGED << accepted, up, to_client, read_open, read_response, result, due, got >>
      /\ Quiet
  BY Zenon DEF session_truncate, Refuse, Wire
<1>2. /\ to_server' \in Seq(Packet)
      /\ to_server' = << >> \/ to_server' = << Message("truncate", 0) >>
      /\ ~ up => to_server' = << >>
  BY <1>1, SendOne, Sizes DEF session_truncate, session_send, Refuse
<1>3. TypeOK'
  BY <1>1, <1>2, Zenon DEF TypeOK
<1>4. Wire'
  BY <1>1, <1>2, Sizes DEF Wire, SimpleWire, LatestWire, ReadWire, Quiet, Sent, Back, RequestOf, SimpleCalls
<1>5. SessionRead'
  BY <1>1, Zenon DEF SessionRead
<1>6. WriteAnswer' /\ OwnCalls'
  BY <1>1, Zenon DEF WriteAnswer, OwnCalls, LibraryCalls
<1>7. WriteResultIsTrue'
  BY <1>1, Zenon DEF WriteResultIsTrue
<1> QED
  BY <1>1, <1>3, <1>4, <1>5, <1>6, <1>7, Zenon

LEMMA OpenReadKeepsSession ==
  ASSUME SessionInv, call = "none", command \notin Libraries, command' = command,
         NEW type, NEW window, OpenRead(type, window),
         \/ type = "read" /\ window \in 0 .. accepted
         \/ type = "latest" /\ window \in Latest
  PROVE  SessionInv'
<1> USE DEF SessionInv
<1>1. /\ UNCHANGED << accepted, up, to_client, read_response, call, carried_out >>
      /\ ~ read_open /\ read_open' = TRUE /\ result' = Returned(type, 0)
      /\ due' = window /\ got' = 0 /\ Quiet
  BY Zenon DEF OpenRead, Wire
<1>2. accepted \in 0 .. MaxPoints /\ window \in 0 .. MaxPoints /\ Latest' = Latest
  BY <1>1, Sizes DEF Latest, Smaller, TypeOK
<1>3. /\ to_server' \in Seq(Packet)
      /\ to_server' = << >> \/ to_server' = << Message(type, window) >>
      /\ ~ up => to_server' = << >>
  BY <1>1, <1>2, SendOne, Sizes, Zenon DEF OpenRead, session_send
<1>4. TypeOK'
  BY <1>1, <1>2, <1>3 DEF TypeOK
<1>5. ReadWire'
  BY <1>1, <1>2, <1>3 DEF ReadWire, Quiet, Sent
<1>6. Wire'
  BY <1>1, <1>3, <1>5, Zenon DEF Wire, SimpleWire, LatestWire, SimpleCalls
<1>7. SessionRead'
  <2>1. CASE to_server' = << >>
    BY <1>1, <1>2, <2>1, StreamNone DEF SessionRead, Serves, Quiet
  <2>2. CASE to_server' = << Message(type, window) >>
    BY <1>1, <2>2, Single, Zenon DEF SessionRead, Serves, Message
  <2> QED
    BY <1>3, <2>1, <2>2, Zenon
<1>8. WriteAnswer' /\ OwnCalls'
  BY <1>1, Zenon DEF WriteAnswer, OwnCalls, LibraryCalls, Returned
<1>9. WriteResultIsTrue'
  BY <1>1, Zenon DEF WriteResultIsTrue, Returned
<1> QED
  BY <1>1, <1>4, <1>6, <1>7, <1>8, <1>9, Zenon

LEMMA ReadNextKeepsSession ==
  ASSUME SessionInv, session_read_next, command \in { "read", "latest", "calls" }, command' = command
  PROVE  SessionInv'
<1> USE DEF SessionInv
<1>1. /\ UNCHANGED << accepted, up, to_server, to_client, read_open, carried_out, due, got >>
      /\ call = "none"
      /\ \/ ~ read_open /\ result' = Returned("read_next", 0) /\ UNCHANGED << read_response, call >>
         \/ read_open /\ read_response' = 0 /\ call' = "read_next" /\ UNCHANGED result
  BY Zenon DEF session_read_next, conn
<1>2. TypeOK'
  BY <1>1, Sizes DEF TypeOK
<1>3. Wire'
  BY <1>1, Zenon DEF Wire, SimpleWire, LatestWire, ReadWire, Latest, Quiet, Sent, Back, SimpleCalls
<1>4. SessionRead'
  BY <1>1, Zenon DEF SessionRead, Serves
<1>5. WriteAnswer' /\ OwnCalls'
  BY <1>1 DEF WriteAnswer, OwnCalls, Returned, LibraryCalls
<1>6. WriteResultIsTrue'
  BY <1>1 DEF WriteResultIsTrue, Returned
<1> QED
  BY <1>1, <1>2, <1>3, <1>4, <1>5, <1>6, Zenon

LEMMA ReopenKeepsSession ==
  ASSUME SessionInv, Reopen, command' = command
  PROVE  SessionInv'
<1> USE DEF SessionInv, Reopen
<1>1. TypeOK'
  <2>1. << >> \in Seq(Packet) /\ << >> \in Seq(Answer) /\ 0 \in 0 .. PagePoints /\ 0 \in 0 .. MaxPoints
    BY Sizes, EmptySeq
  <2>2. accepted' \in 0 .. MaxPoints /\ call' = "none" /\ due' \in 0 .. MaxPoints /\ got' \in 0 .. due'
    BY Sizes DEF TypeOK
  <2>3. up' \in BOOLEAN /\ read_open' \in BOOLEAN /\ carried_out' \in BOOLEAN
    BY Zenon
  <2>4. to_server' \in Seq(Packet) /\ to_client' \in Seq(Answer) /\ read_response' \in 0 .. PagePoints
    BY <2>1, Zenon
  <2> QED
    BY <2>2, <2>3, <2>4, Zenon DEF TypeOK
<1>2. Wire'
  BY Zenon DEF Wire, SimpleWire, LatestWire, ReadWire, Quiet, SimpleCalls
<1>3. SessionRead'
  BY Zenon DEF SessionRead
<1>4. WriteAnswer' /\ OwnCalls' /\ WriteResultIsTrue'
  BY Zenon DEF WriteAnswer, OwnCalls, WriteResultIsTrue, Returned, LibraryCalls
<1> QED
  BY <1>1, <1>2, <1>3, <1>4, Zenon

(* A connection that breaks takes with it the request and any number of    *)
(* the last packets.                                                       *)
LEMMA DisconnectKeepsSession ==
  ASSUME SessionInv, Disconnect, command' = command
  PROVE  /\ SessionInv'
         /\ \A d \in 0 .. MaxPoints, g \in 0 .. MaxPoints :
              g <= d /\ read_open /\ Serves(d, g) => Serves(d, g)'
<1> USE DEF SessionInv
<1>1. /\ up' = FALSE /\ to_server' = << >>
      /\ UNCHANGED << accepted, read_open, read_response, call, result, carried_out, due, got >>
      /\ to_client \in Seq(Answer)
  BY Zenon DEF Disconnect, session, TypeOK
<1>2. PICK n \in 0 .. Len(to_client) : to_client' = SubSeq(to_client, 1, n)
  BY Zenon DEF Disconnect
<1>3. /\ to_client' \in Seq(Answer) /\ Len(to_client') = n
      /\ \A i \in 1 .. n : to_client'[i] = to_client[i]
  BY <1>1, <1>2, PrefixIs, Zenon
<1>4. ASSUME to_client = << >> PROVE to_client' = << >>
  BY <1>3, <1>4
<1>5. ASSUME NEW m, to_client = << m >> PROVE to_client' = << >> \/ to_client' = << m >>
  BY <1>3, <1>5
<1>6. TypeOK'
  BY <1>1, <1>3, EmptySeq, Zenon DEF TypeOK
<1>7. SimpleWire'
  BY <1>1, <1>4, <1>5, Sizes, Zenon DEF Wire, SimpleWire, Quiet, Sent, Back
<1>8. LatestWire'
  BY <1>1, <1>4, <1>5, Sizes, Zenon DEF Wire, LatestWire, Quiet, Sent, Back
<1>9. ReadWire'
  <2>1. ASSUME read_open, NEW i \in 1 .. n PROVE to_client[i].type = "read"
    BY <1>2, <2>1 DEF Wire, ReadWire, Sent
  <2> QED
    BY <1>1, <1>3, <2>1, Zenon DEF ReadWire
<1>10. Wire'
  BY <1>1, <1>4, <1>7, <1>8, <1>9, Zenon DEF Wire, Quiet
<1>11. ASSUME NEW d \in 0 .. MaxPoints, NEW g \in 0 .. MaxPoints, g <= d, read_open, Serves(d, g)
       PROVE  Serves(d, g)'
  <2>1. d - g \in Nat
    BY <1>11, Sizes
  <2>2. CASE to_server = << >>
    BY <1>1, <1>2, <1>11, <2>1, <2>2, StreamPrefix, Zenon DEF Serves
  <2>3. CASE to_server # << >>
    <3>1. to_client' = << >>
      BY <1>4, <1>11, <2>3, Zenon DEF Wire, ReadWire, Sent
    <3> QED
      BY <1>1, <2>1, <3>1, StreamNone, Zenon DEF Serves
  <2> QED
    BY <2>2, <2>3, Zenon
<1>12. SessionRead'
  <2>1. due \in 0 .. MaxPoints /\ got \in 0 .. MaxPoints /\ got <= due
    BY Sizes DEF TypeOK
  <2> QED
    BY <1>1, <1>11, <2>1, Zenon DEF SessionRead, Serves
<1>13. WriteAnswer' /\ OwnCalls' /\ WriteResultIsTrue'
  BY <1>1, <1>4, <1>5, <1>7, Zenon DEF WriteAnswer, OwnCalls, WriteResultIsTrue, Wire, SimpleWire, SimpleCalls, Sent, Back, Quiet
<1> QED
  BY <1>1, <1>6, <1>10, <1>11, <1>12, <1>13, Zenon

-----------------------------------------------------------------------------
(* What the server makes of the request under way, by the call that waits  *)
(* for its answer.                                                         *)
request_count == to_server[1].count

HandledNot ==
  /\ call \in { "write", "lib_write" } /\ ~ read_open
  /\ Quiet' /\ up' = FALSE /\ UNCHANGED << accepted, carried_out >>

HandledWrite ==
  /\ call \in { "write", "lib_write" } /\ ~ read_open /\ up' = up
  /\ request_count \in 0 .. MaxBatch
  /\ \/ /\ Back(Message("simple", OK))' /\ accepted' = accepted + request_count /\ carried_out' = TRUE
        /\ accepted' \in 0 .. MaxPoints
     \/ Back(Message("simple", ERROR))' /\ accepted' = accepted /\ carried_out' = FALSE

HandledTruncate ==
  /\ call \in { "truncate", "lib_truncate" } /\ ~ read_open /\ up' = up
  /\ Back(Message("simple", OK))' /\ carried_out' = TRUE /\ accepted' \in { 0, accepted }

HandledLatest ==
  /\ \/ call = "lib_latest" /\ ~ read_open
     \/ read_open /\ request_count \in Latest
  /\ request_count \in 0 .. MaxPoints
  /\ to_server' = << >> /\ to_client' = << ReadResponse(request_count) >>
  /\ UNCHANGED << up, accepted, carried_out >>

HandledRead ==
  /\ read_open /\ request_count \in 0 .. MaxPoints
  /\ to_server' = << >> /\ to_client' = Pages(request_count)
  /\ UNCHANGED << up, accepted, carried_out >>

Handled ==
  /\ to_server # << >> /\ to_client = << >>
  /\ UNCHANGED << read_open, read_response, call, result, due, got >>
  /\ HandledNot \/ HandledWrite \/ HandledTruncate \/ HandledLatest \/ HandledRead

LEMMA ServerHandles ==
  ASSUME SessionInv, client_handler_process_message
  PROVE  Handled
<1> USE DEF SessionInv
<1>1. PICK m \in Packet :
        /\ to_server = << m >> /\ to_client = << >>
        /\ \/ /\ call \in SimpleCalls /\ ~ read_open
              /\ \E n \in 0 .. MaxBatch : m = Message(RequestOf(call), n)
           \/ /\ call = "lib_latest" /\ ~ read_open
              /\ \E n \in 0 .. MaxPoints : m = Message("latest", n)
           \/ /\ read_open
              /\ \E n \in 0 .. MaxPoints : m = Message("read", n)
           \/ /\ read_open
              /\ \E n \in Latest : m = Message("latest", n)
  <2>1. to_server # << >>
    BY Zenon DEF client_handler_process_message
  <2>2. Latest \subseteq 0 .. MaxPoints
    BY LatestType, Zenon
  <2>3. \A type \in { "write", "truncate", "read", "latest" }, n \in 0 .. MaxBatch : Message(type, n) \in Packet
    BY Sizes, Zenon DEF Message, Packet
  <2>4. CASE read_open
    BY <2>1, <2>2, <2>4, Sizes, Zenon DEF Wire, ReadWire, Sent
  <2>5. CASE ~ read_open /\ call \in SimpleCalls
    BY <2>1, <2>3, <2>5, Zenon DEF Wire, SimpleWire, Sent, Quiet, Back, RequestOf
  <2>6. CASE ~ read_open /\ call = "lib_latest"
    BY <2>1, <2>6, Sizes, Zenon DEF Wire, LatestWire, Sent, Quiet, Back
  <2> QED
    BY <2>1, <2>4, <2>5, <2>6, Zenon DEF Wire, TypeOK, Quiet, SimpleCalls
<1>2. /\ Head(to_server) = m /\ to_server[1] = m /\ Tail(to_server) = << >>
      /\ to_server # << >> /\ request_count = m.count
  BY <1>1, Single, Zenon DEF request_count
<1>3. UNCHANGED << read_open, read_response, call, result, due, got >>
  BY Zenon DEF client_handler_process_message, session
<1>4. CASE m.count > PacketPoints /\ m.type = "write"
  <2>1. up' = FALSE /\ to_server' = << >> /\ UNCHANGED << accepted, to_client, carried_out >>
    BY <1>2, <1>4, Zenon DEF client_handler_process_message
  <2>2. call \in { "write", "lib_write" } /\ ~ read_open
    BY <1>1, <1>4 DEF Message, RequestOf, SimpleCalls
  <2> QED
    BY <1>1, <1>2, <1>3, <2>1, <2>2, Zenon DEF Handled, HandledNot, Quiet
<1>5. CASE ~ (m.count > PacketPoints /\ m.type = "write")
  <2>1. Dispatch(m) /\ to_server' = << >> /\ up' = up
    BY <1>2, <1>5, Zenon DEF client_handler_process_message
  <2>2. CASE m.type = "write" /\ handle_write(m)
    <3>1. call \in { "write", "lib_write" } /\ ~ read_open /\ m.count \in 0 .. MaxBatch
      BY <1>1, <2>2 DEF Message, RequestOf, SimpleCalls
    <3>2. PICK status \in { 0, -1 } :
            /\ status = 0 => accepted + m.count <= MaxPoints
            /\ accepted' = IF status = 0 THEN accepted + m.count ELSE accepted
            /\ carried_out' = (status = 0)
            /\ to_client' = << Message("simple", IF status = 0 THEN OK ELSE ERROR) >>
      BY <1>1, <2>2, Single, Zenon DEF handle_write, Simple
    <3>3. accepted + m.count \in Nat
      BY <3>1, Sizes DEF TypeOK
    <3>4. request_count \in 0 .. MaxBatch
      BY <1>2, <3>1, Zenon
    <3>5. ASSUME status = 0 PROVE HandledWrite
      <4>1. accepted' = accepted + request_count /\ accepted' \in 0 .. MaxPoints
        BY <1>2, <3>2, <3>3, <3>5
      <4>2. Back(Message("simple", OK))'
        BY <2>1, <3>2, <3>5, Zenon DEF Back
      <4>3. carried_out' = TRUE
        BY <3>2, <3>5, Zenon
      <4> QED
        BY <2>1, <3>1, <3>4, <4>1, <4>2, <4>3, Zenon DEF HandledWrite
    <3>6. ASSUME status # 0 PROVE HandledWrite
      <4>1. accepted' = accepted
        BY <3>2, <3>6, Zenon
      <4>2. Back(Message("simple", ERROR))'
        BY <2>1, <3>2, <3>6, Zenon DEF Back
      <4>3. carried_out' = FALSE
        BY <3>2, <3>6, Zenon
      <4> QED
        BY <2>1, <3>1, <3>4, <4>1, <4>2, <4>3, Zenon DEF HandledWrite
    <3> QED
      BY <1>1, <1>2, <1>3, <3>5, <3>6, Zenon DEF Handled
  <2>3. CASE m.type = "truncate" /\ handle_truncate
    <3>1. call \in { "truncate", "lib_truncate" } /\ ~ read_open
      BY <1>1, <2>3 DEF Message, RequestOf, SimpleCalls
    <3>2. /\ accepted' \in { 0, accepted }
          /\ carried_out' = TRUE
          /\ to_client' = << Message("simple", OK) >>
      BY <1>1, <2>3, Single, Zenon DEF handle_truncate, Simple
    <3> QED
      BY <1>1, <1>2, <1>3, <2>1, <3>1, <3>2, Zenon DEF Handled, HandledTruncate, Back
  <2>4. CASE m.type = "read" /\ handle_read(m)
    <3>1. read_open /\ m.count \in 0 .. MaxPoints
      BY <1>1, <2>4 DEF Message, RequestOf
    <3>2. to_client' = Pages(m.count) /\ UNCHANGED << accepted, carried_out >>
      BY <1>1, <2>4, <3>1, PagesAre, ConcatEmptySeq DEF handle_read
    <3> QED
      BY <1>1, <1>2, <1>3, <2>1, <3>1, <3>2, Zenon DEF Handled, HandledRead
  <2>5. CASE m.type = "latest" /\ handle_read_latest(m)
    <3>1. /\ \/ call = "lib_latest" /\ ~ read_open
             \/ read_open /\ m.count \in Latest
          /\ m.count \in 0 .. MaxPoints
      <4>1. m.type # RequestOf(call) /\ m.type # "read"
        BY <2>5, Zenon DEF RequestOf
      <4> QED
        BY <1>1, <4>1, Fields, LatestType
    <3>2. to_client' = << ReadResponse(m.count) >> /\ UNCHANGED << accepted, carried_out >>
      BY <1>1, <2>5, Single, Zenon DEF handle_read_latest
    <3> QED
      BY <1>1, <1>2, <1>3, <2>1, <3>1, <3>2, Zenon DEF Handled, HandledLatest, Back
  <2> QED
    BY <2>1, <2>2, <2>3, <2>4, <2>5, Zenon DEF Dispatch
<1> QED
  BY <1>4, <1>5, Zenon

LEMMA PagesAnswer ==
  ASSUME NEW w \in 0 .. MaxPoints
  PROVE  Pages(w) \in Seq(Answer) /\ \A i \in 1 .. Len(Pages(w)) : Pages(w)[i].type = "read"
<1>1. w \in Nat
  BY Sizes
<1>2. Pages(w) \in Seq([ type : { "read" }, count : 0 .. w ])
  BY <1>1, PagesAre, Zenon
<1>3. [ type : { "read" }, count : 0 .. w ] \subseteq Answer
  BY Sizes DEF Answer
<1> DEFINE R == [ type : { "read" }, count : 0 .. w ]
<1> HIDE DEF R
<1>4. Pages(w) \in Seq(R) /\ R \subseteq Answer
  BY <1>2, <1>3, Zenon DEF R
<1>5. Pages(w) \in Seq(Answer)
  BY <1>4, SeqMonotonic, Zenon
<1>6. ASSUME NEW i \in 1 .. Len(Pages(w)) PROVE Pages(w)[i] \in R
  BY <1>4, ElementOfSeq, Zenon
<1> QED
  BY <1>5, <1>6, Zenon DEF R

(* A request that is answered serves the read it belongs to. *)
LEMMA HandledServes ==
  ASSUME SessionInv, Handled, read_open, NEW d \in 0 .. MaxPoints, NEW g \in 0 .. MaxPoints, Serves(d, g)
  PROVE  Serves(d, g)'
<1>1. request_count = d /\ g = 0 /\ d - g = d /\ d \in Nat
  BY Sizes DEF Handled, Serves, request_count
<1>2. CASE HandledRead
  BY <1>1, <1>2, StreamPages, Zenon DEF Serves, HandledRead
<1>3. CASE HandledLatest
  <2>1. d \in 0 .. 1 /\ to_server' = << >> /\ to_client' = << ReadResponse(d) >>
    BY <1>1, <1>3, LatestType DEF HandledLatest, Back
  <2> QED
    BY <1>1, <2>1, StreamLatest, Zenon DEF Serves
<1> QED
  BY <1>2, <1>3, Zenon DEF Handled, HandledNot, HandledWrite, HandledTruncate

LEMMA HandledKeepsSession ==
  ASSUME SessionInv, Handled, command' = command
  PROVE  SessionInv'
<1> USE DEF SessionInv
<1>1. UNCHANGED << read_open, read_response, call, result, due, got >>
  BY Zenon DEF Handled
<1>2. due \in 0 .. MaxPoints /\ got \in 0 .. MaxPoints /\ accepted \in 0 .. MaxPoints
  BY Sizes DEF TypeOK
<1>3. ASSUME read_open, command \notin Libraries PROVE Serves(due, got)'
  <2>1. PICK d \in 0 .. MaxPoints, g \in 0 .. MaxPoints : d = due /\ g = got
    BY <1>2, Zenon
  <2>2. Serves(d, g)
    BY <1>3, <2>1, Zenon DEF SessionRead
  <2>3. Serves(d, g)'
    BY <1>3, <2>2, HandledServes, Zenon
  <2> QED
    BY <1>1, <2>1, <2>3, Zenon DEF Serves
<1>4. << >> \in Seq(Packet) /\ << >> \in Seq(Answer)
  BY EmptySeq, Zenon
<1>5. CASE HandledNot
  <2>1. call \in { "write", "lib_write" } /\ ~ read_open /\ up' = FALSE /\ UNCHANGED << accepted, carried_out >> /\ Quiet'
    BY <1>5, Zenon DEF HandledNot
  <2>2. TypeOK'
    BY <1>1, <1>4, <2>1, Zenon DEF TypeOK, Quiet
  <2>3. Wire' /\ SessionRead'
    BY <1>1, <2>1, Zenon DEF Wire, SimpleWire, LatestWire, ReadWire, SessionRead, Quiet
  <2>4. WriteAnswer' /\ OwnCalls' /\ WriteResultIsTrue'
    BY <1>1, <2>1, Zenon DEF WriteAnswer, OwnCalls, WriteResultIsTrue, Quiet
  <2> QED
    BY <2>2, <2>3, <2>4, Zenon
<1>6. CASE HandledWrite
  <2>1. call \in { "write", "lib_write" } /\ ~ read_open /\ up' = up /\ accepted' \in 0 .. MaxPoints
    BY <1>2, <1>6, Zenon DEF HandledWrite
  <2>2. PICK s \in { OK, ERROR } : Back(Message("simple", s))' /\ carried_out' \in BOOLEAN /\ (s = OK <=> carried_out')
    <3>1. OK # ERROR
      BY DEF OK, ERROR
    <3>2. CASE Back(Message("simple", OK))' /\ carried_out' = TRUE
      BY <3>2, Zenon
    <3>3. CASE Back(Message("simple", ERROR))' /\ carried_out' = FALSE
      BY <3>1, <3>3, Zenon
    <3> QED
      BY <1>6, <3>2, <3>3, Zenon DEF HandledWrite
  <2>3. TypeOK'
    BY <1>1, <1>4, <2>1, <2>2, Sizes DEF TypeOK, Back
  <2>4. Wire' /\ SessionRead'
    BY <1>1, <2>1, <2>2, Zenon DEF Wire, SimpleWire, LatestWire, ReadWire, SessionRead, Back
  <2>5. WriteAnswer' /\ OwnCalls' /\ WriteResultIsTrue'
    BY <1>1, <2>1, <2>2, Single, Fields DEF WriteAnswer, OwnCalls, WriteResultIsTrue, Back
  <2> QED
    BY <2>3, <2>4, <2>5, Zenon
<1>7. CASE HandledTruncate
  <2>1. call \in { "truncate", "lib_truncate" } /\ ~ read_open /\ up' = up /\ carried_out' = TRUE /\ accepted' \in 0 .. MaxPoints
    BY <1>2, <1>7, Sizes DEF HandledTruncate
  <2>2. PICK s \in { OK, ERROR } : Back(Message("simple", s))'
    BY <1>7, Zenon DEF HandledTruncate
  <2>3. TypeOK'
    BY <1>1, <1>4, <2>1, <2>2, Sizes DEF TypeOK, Back
  <2>4. Wire' /\ SessionRead'
    BY <1>1, <2>1, <2>2, Zenon DEF Wire, SimpleWire, LatestWire, ReadWire, SessionRead, Back
  <2>5. WriteAnswer' /\ OwnCalls' /\ WriteResultIsTrue'
    BY <1>1, <2>1, Zenon DEF WriteAnswer, OwnCalls, WriteResultIsTrue
  <2> QED
    BY <2>3, <2>4, <2>5, Zenon
<1>8. CASE HandledLatest
  <2>1. /\ UNCHANGED << up, accepted, carried_out >>
        /\ to_server' = << >> /\ to_client' = << ReadResponse(request_count) >>
        /\ ~ read_open => call = "lib_latest"
    BY <1>8, Zenon DEF HandledLatest, Back
  <2>2. request_count \in 0 .. MaxPoints
    BY <1>8, Zenon DEF HandledLatest
  <2>3. TypeOK'
    BY <1>1, <1>4, <2>1, <2>2, Sizes DEF TypeOK, ReadResponse
  <2>4. LatestWire' /\ ReadWire' /\ SimpleWire'
    BY <1>1, <2>1, <2>2, Fields, Single DEF Wire, SimpleWire, LatestWire, ReadWire, Back, ReadResponse, SimpleCalls
  <2>5. Wire' /\ SessionRead'
    BY <1>1, <1>3, <2>1, <2>4, Zenon DEF Wire, SessionRead
  <2>6. WriteAnswer' /\ OwnCalls' /\ WriteResultIsTrue'
    BY <1>1, <2>1, Zenon DEF WriteAnswer, OwnCalls, WriteResultIsTrue, Wire, SimpleWire, SimpleCalls
  <2> QED
    BY <2>3, <2>5, <2>6, Zenon
<1>9. CASE HandledRead
  <2>1. /\ read_open /\ request_count \in 0 .. MaxPoints /\ UNCHANGED << up, accepted, carried_out >>
        /\ to_server' = << >> /\ to_client' = Pages(request_count)
    BY <1>9, Zenon DEF HandledRead
  <2>2. to_client' \in Seq(Answer) /\ \A i \in 1 .. Len(to_client') : to_client'[i].type = "read"
    BY <2>1, PagesAnswer, Zenon
  <2>3. TypeOK'
    BY <1>1, <1>4, <2>1, <2>2, Zenon DEF TypeOK
  <2>4. Wire' /\ SessionRead'
    BY <1>1, <1>3, <2>1, <2>2, Zenon DEF Wire, SimpleWire, LatestWire, ReadWire, SessionRead
  <2>5. WriteAnswer' /\ OwnCalls' /\ WriteResultIsTrue'
    BY <1>1, <2>1, Zenon DEF WriteAnswer, OwnCalls, WriteResultIsTrue, Wire, SimpleWire, SimpleCalls
  <2> QED
    BY <2>3, <2>4, <2>5, Zenon
<1> QED
  BY <1>5, <1>6, <1>7, <1>8, <1>9, Zenon DEF Handled

-----------------------------------------------------------------------------
(* What a call is given: nothing from a connection that ended, the status  *)
(* from an answer.                                                         *)
SimpleAnswer ==
  /\ ~ read_open /\ to_server = << >>
  /\ \/ to_client = << >> /\ ~ up /\ session_receive("simple") = Null
     \/ \E s \in { OK, ERROR } : /\ to_client = << Message("simple", s) >>
                                 /\ session_receive("simple") = Message("simple", s)

LEMMA SimpleArrives ==
  ASSUME SessionInv, call \in SimpleCalls, to_client # << >> \/ ~ up
  PROVE  SimpleAnswer
<1> USE DEF SessionInv
<1>1. ~ read_open
  BY Zenon DEF Wire, SimpleWire
<1>2. CASE to_client = << >>
  BY <1>1, <1>2, Zenon DEF Wire, SimpleAnswer, session_receive
<1>3. CASE to_client # << >>
  <2>1. PICK s \in { OK, ERROR } : Back(Message("simple", s))
    BY <1>3, Zenon DEF Wire, SimpleWire, Quiet, Sent
  <2> QED
    BY <1>1, <2>1, Single, Fields DEF SimpleAnswer, session_receive, Back
<1> QED
  BY <1>2, <1>3, Zenon

LEMMA ReceiveSimpleKeepsSession ==
  ASSUME SessionInv, ReceiveSimple, command' = command
  PROVE  SessionInv'
<1> USE DEF SessionInv
<1>1. /\ UNCHANGED << accepted, up, to_server, read_open, read_response, carried_out, due, got >>
      /\ call \in { "write", "truncate" } /\ call' = "none"
      /\ result' = Returned(call, SimpleResult(session_receive("simple")))
  BY Zenon DEF ReceiveSimple
<1>2. SimpleAnswer
  BY <1>1, SimpleArrives, Zenon DEF SimpleCalls, ReceiveSimple
<1>3. ~ read_open /\ to_server = << >> /\ to_client' = << >>
  BY <1>2, Single, Zenon DEF SimpleAnswer, ReceiveSimple, Received
<1>4. TypeOK'
  BY <1>1, <1>3, EmptySeq, Zenon DEF TypeOK
<1>5. Wire' /\ SessionRead'
  BY <1>1, <1>3, Zenon DEF Wire, SimpleWire, LatestWire, ReadWire, SessionRead, Quiet, SimpleCalls
<1>6. WriteAnswer' /\ OwnCalls'
  BY <1>1, Zenon DEF WriteAnswer, OwnCalls, LibraryCalls, Libraries, Returned
<1>7. WriteResultIsTrue'
  <2>1. CASE to_client = << >> /\ ~ up /\ session_receive("simple") = Null
    BY <1>1, <2>1 DEF WriteResultIsTrue, Returned, SimpleResult
  <2>2. ASSUME NEW s \in { OK, ERROR }, to_client = << Message("simple", s) >>,
               session_receive("simple") = Message("simple", s)
        PROVE  WriteResultIsTrue'
    <3>1. SimpleResult(session_receive("simple")) = IF s = OK THEN 0 ELSE 1
      BY <2>2 DEF SimpleResult, Null, Message
    <3>2. call = "write" => (s = OK <=> carried_out)
      BY <2>2, Single, Fields DEF WriteAnswer
    <3> QED
      BY <1>1, <3>1, <3>2 DEF WriteResultIsTrue, Returned
  <2> QED
    BY <1>2, <2>1, <2>2, Zenon DEF SimpleAnswer
<1> QED
  BY <1>1, <1>4, <1>5, <1>6, <1>7, Zenon

(* What a read that waits is given: nothing from a connection that ended,  *)
(* or a packet with as many of the points that are left as fit, and what   *)
(* is left after that is being served.                                     *)
PageAnswer(d, g) ==
  LET more == Smaller(PagePoints, d - g)
  IN  /\ to_server = << >>
      /\ \/ to_client = << >> /\ ~ up /\ session_receive("read") = Null
         \/ /\ to_client # << >> /\ Head(to_client).type = "read"
            /\ session_receive("read") = ReadResponse(more)
            /\ more \in 0 .. PagePoints /\ (more = 0 <=> d = g) /\ g + more <= d
            /\ more # 0 => Stream(Tail(to_client), d - (g + more))
            /\ Tail(to_client) \in Seq(Answer)
            /\ \A i \in 1 .. Len(Tail(to_client)) : Tail(to_client)[i].type = "read"
            /\ more = 0 => Tail(to_client) = << >>

LEMMA PageArrives ==
  ASSUME SessionInv, read_open, to_client # << >> \/ ~ up,
         NEW d \in 0 .. MaxPoints, NEW g \in 0 .. MaxPoints, g <= d, Serves(d, g)
  PROVE  PageAnswer(d, g)
<1> USE DEF SessionInv
<1> DEFINE w == d - g
           more == Smaller(PagePoints, w)
<1>1. w \in Nat /\ more \in 0 .. PagePoints /\ (more = 0 <=> d = g) /\ g + more <= d /\ Left(w) = d - (g + more)
  BY Sizes DEF Smaller, Left
<1>2. to_client # << >> => to_server = << >>
  BY Zenon DEF Wire, ReadWire, Sent
<1>3. to_server = << >>
  BY <1>2, Zenon DEF Wire
<1>4. CASE to_client = << >>
  BY <1>3, <1>4, Zenon DEF PageAnswer, session_receive
<1>5. CASE to_client # << >>
  <2>1. to_client \in Seq(Answer) /\ Stream(to_client, w)
    BY <1>3, Zenon DEF TypeOK, Serves
  <2>2. Head(to_client) = ReadResponse(more) /\ (w > 0 => Stream(Tail(to_client), Left(w)))
    BY <1>1, <1>5, <2>1, StreamHead, Zenon
  <2>3. Head(to_client).type = "read" /\ session_receive("read") = ReadResponse(more)
    BY <1>5, <2>2, Fields, Zenon DEF ReadResponse, session_receive
  <2>4. /\ Len(to_client) \in Nat \ {0} /\ Tail(to_client) \in Seq(Answer) /\ Len(Tail(to_client)) = Len(to_client) - 1
        /\ \A i \in 1 .. Len(to_client) - 1 : Tail(to_client)[i] = to_client[i + 1]
    BY <1>5, <2>1, HeadTailProperties
  <2>5. \A i \in 1 .. Len(to_client) : to_client[i].type = "read"
    BY <1>3, <1>5, Zenon DEF Wire, ReadWire, Sent
  <2>6. ASSUME more = 0 PROVE Tail(to_client) = << >>
    <3>1. w = 0
      BY <1>1, <2>6
    <3>2. Len(to_client) <= 1
      BY <1>1, <2>1, <3>1, PagesFirst, Zenon DEF Stream
    <3> QED
      BY <2>4, <3>2
  <2>7. more # 0 => Stream(Tail(to_client), d - (g + more))
    BY <1>1, <2>2
  <2> QED
    BY <1>1, <1>3, <1>5, <2>3, <2>4, <2>5, <2>6, <2>7 DEF PageAnswer
<1> QED
  BY <1>4, <1>5, Zenon

LEMMA ReceivePageKeepsSession ==
  ASSUME SessionInv, ReceivePage, command' = command
  PROVE  SessionInv'
<1> USE DEF SessionInv
<1>1. /\ UNCHANGED << accepted, up, to_server, carried_out, due >>
      /\ call = "read_next" /\ call' = "none"
      /\ read_open /\ command \notin Libraries /\ result'.call = "read_next"
  BY Zenon DEF ReceivePage, Wire, OwnCalls, Libraries, Returned
<1>2. due \in 0 .. MaxPoints /\ got \in 0 .. MaxPoints /\ got <= due /\ due - got \in Nat
  BY Sizes DEF TypeOK
<1>3. PageAnswer(due, got)
  BY <1>1, <1>2, PageArrives, Zenon DEF ReceivePage, SessionRead
<1>4. WriteAnswer' /\ OwnCalls' /\ WriteResultIsTrue'
  BY <1>1, Zenon DEF WriteAnswer, OwnCalls, WriteResultIsTrue, LibraryCalls
<1>5. CASE to_client = << >> /\ ~ up /\ session_receive("read") = Null
  <2>1. read_open' = FALSE /\ read_response' = 0 /\ got' = got /\ to_client' = << >> /\ to_server = << >>
    BY <1>3, <1>5, Zenon DEF ReceivePage, Received, StaysOpen, PageAnswer
  <2>2. TypeOK'
    <3>1. << >> \in Seq(Answer) /\ 0 \in 0 .. PagePoints
      BY Sizes, EmptySeq
    <3>2. read_open' \in BOOLEAN
      BY <2>1, Zenon
    <3> QED
      BY <1>1, <2>1, <3>1, <3>2, Zenon DEF TypeOK
  <2>3. Wire' /\ SessionRead'
    BY <1>1, <1>5, <2>1, Zenon DEF Wire, SimpleWire, LatestWire, ReadWire, SessionRead, Quiet, SimpleCalls
  <2> QED
    BY <1>1, <1>4, <2>2, <2>3, Zenon
<1>6. CASE to_client # << >>
  <2> DEFINE more == Smaller(PagePoints, due - got)
  <2>1. /\ session_receive("read") = ReadResponse(more) /\ to_client' = Tail(to_client) /\ to_server = << >>
        /\ more \in 0 .. PagePoints /\ (more = 0 <=> due = got) /\ got + more <= due
        /\ more # 0 => Stream(Tail(to_client), due - (got + more))
        /\ Tail(to_client) \in Seq(Answer)
        /\ \A i \in 1 .. Len(Tail(to_client)) : Tail(to_client)[i].type = "read"
        /\ more = 0 => Tail(to_client) = << >>
    BY <1>3, <1>6, Zenon DEF PageAnswer, ReceivePage, Received
  <2>2. ReadResponse(more) # Null /\ ReadResponse(more).count = more
    BY Zenon DEF ReadResponse, Message, Null
  <2> HIDE DEF more
  <2>3. read_open' = (more # 0)
    BY <2>1, <2>2, Zenon DEF ReceivePage, StaysOpen
  <2>4. read_response' = more /\ got' = got + more
    <3> DEFINE response == session_receive("read")
    <3>1. /\ read_response' = IF response # Null /\ response.count # 0 THEN response.count ELSE 0
          /\ got' = IF response # Null /\ response.count # 0 THEN got + response.count ELSE got
      BY Zenon DEF ReceivePage
    <3>2. response # Null /\ response.count = more
      BY <2>1, <2>2, Zenon
    <3>3. more \in Nat /\ got \in Nat
      BY <1>2, <2>1, Sizes
    <3> HIDE DEF response
    <3> QED
      BY <3>1, <3>2, <3>3
  <2>5. TypeOK'
    <3>1. read_response' \in 0 .. PagePoints /\ got' \in 0 .. due'
      BY <1>1, <1>2, <2>1, <2>4, Sizes
    <3>2. read_open' \in BOOLEAN
      BY <2>3, Zenon
    <3> QED
      BY <1>1, <2>1, <3>1, <3>2, Zenon DEF TypeOK
  <2>6. ReadWire' /\ (~ read_open' => to_client' = << >>)
    BY <1>1, <2>1, <2>3, Zenon DEF ReadWire
  <2>7. Wire'
    BY <1>1, <2>1, <2>6, Zenon DEF Wire, SimpleWire, LatestWire, Quiet, SimpleCalls
  <2>8. read_open' => Serves(due, got)'
    BY <1>1, <2>1, <2>3, <2>4, Zenon DEF Serves
  <2>9. ~ read_open' => got' = due'
    <3>1. ~ read_open' => more = 0
      BY <2>3, Zenon
    <3> QED
      BY <1>1, <1>2, <2>1, <2>4, <3>1
  <2> QED
    BY <1>1, <1>4, <2>5, <2>7, <2>8, <2>9, Zenon DEF SessionRead
<1> QED
  BY <1>3, <1>5, <1>6, Zenon DEF PageAnswer

-----------------------------------------------------------------------------
(* The libraries on the same connection: what their steps have in common,  *)
(* and then what each leaves under way.                                    *)
LibraryStep ==
  /\ command \in Libraries
  /\ UNCHANGED << command, accepted, up, read_response, carried_out, due, got >>
  /\ call' \in LibraryCalls \cup { "none" }
  /\ result' = result \/ result'.call # "write"

LEMMA LibraryKeepsSession ==
  ASSUME SessionInv, LibraryStep,
         to_server' \in Seq(Packet), to_client' \in Seq(Answer), read_open' \in BOOLEAN, Wire'
  PROVE  SessionInv'
<1> USE DEF SessionInv, LibraryStep
<1>1. TypeOK'
  BY Zenon DEF TypeOK, LibraryCalls
<1>2. SessionRead'
  BY Zenon DEF SessionRead
<1>3. WriteAnswer' /\ OwnCalls'
  BY Zenon DEF WriteAnswer, OwnCalls, LibraryCalls
<1>4. WriteResultIsTrue'
  <2>1. result'.call # "write"
    BY Zenon DEF OwnCalls
  <2> QED
    BY <2>1, Zenon DEF WriteResultIsTrue
<1> QED
  BY <1>1, <1>2, <1>3, <1>4, Zenon

(* A call that raises at once, and a write of no points. *)
LEMMA RaiseKeepsSession ==
  ASSUME SessionInv, LibraryStep, call = "none", UNCHANGED << to_server, to_client, call >>,
         read_open' = read_open \/ (~ read_open /\ read_open' = TRUE)
  PROVE  SessionInv'
<1> USE DEF SessionInv
<1>1. UNCHANGED << accepted, up >>
  BY Zenon DEF LibraryStep
<1>2. Wire'
  <2>1. CASE read_open' = read_open
    BY <1>1, <2>1, Zenon DEF Wire, SimpleWire, LatestWire, ReadWire, Latest, Quiet, Sent, Back
  <2>2. CASE ~ read_open /\ read_open' = TRUE
    <3>1. Quiet
      BY <2>2, Zenon DEF Wire
    <3> QED
      BY <1>1, <2>2, <3>1 DEF Wire, SimpleWire, LatestWire, ReadWire, Quiet, SimpleCalls
  <2> QED
    BY <2>1, <2>2, Zenon
<1>3. to_server' \in Seq(Packet) /\ to_client' \in Seq(Answer) /\ read_open' \in BOOLEAN
  BY Zenon DEF TypeOK
<1> QED
  BY <1>2, <1>3, LibraryKeepsSession, Zenon

(* A request, sent after the answer to the one before was taken. *)
LEMMA RequestKeepsSession ==
  ASSUME SessionInv, LibraryStep, UNCHANGED read_open, ~ read_open,
         to_server = << >>, to_client' = << >>, NEW n, NEW type, session_send(type, n),
         \/ call' = "lib_write" /\ type = "write" /\ n \in 0 .. MaxBatch
         \/ call' = "lib_truncate" /\ type = "truncate" /\ n \in 0 .. MaxBatch
         \/ call' = "lib_latest" /\ type = "latest" /\ n \in 0 .. MaxPoints
  PROVE  /\ SessionInv'
         /\ to_server' = << >> \/ to_server' = << Message(type, n) >>
<1> USE DEF SessionInv
<1>1. Message(type, n) \in Packet
  BY Sizes, Zenon
<1>2. to_server' = IF up THEN << Message(type, n) >> ELSE << >>
  BY Single, Zenon DEF session_send
<1>3. to_server' \in Seq(Packet) /\ to_client' \in Seq(Answer) /\ read_open' \in BOOLEAN
  BY <1>1, <1>2, EmptySeq DEF TypeOK
<1>4. /\ ~ up' => to_server' = << >>
      /\ ~ read_open' /\ call' # "none"
      /\ Quiet' \/ Sent(Message(type, n))'
  BY <1>2, Zenon DEF LibraryStep, Quiet, Sent
<1>5. Wire'
  BY <1>4, Zenon DEF Wire, SimpleWire, LatestWire, ReadWire, SimpleCalls, RequestOf
<1> QED
  BY <1>2, <1>3, <1>5, LibraryKeepsSession, Zenon

(* The request of a read. *)
LEMMA ReadKeepsSession ==
  ASSUME SessionInv, LibraryStep, call = "none", ~ read_open, read_open' = TRUE,
         to_client' = to_client, NEW n \in 0 .. MaxPoints, session_send("read", n),
         call' \in { "none", "lib_next" }
  PROVE  SessionInv' /\ Serves(n, 0)'
<1> USE DEF SessionInv
<1>1. Message("read", n) \in Packet /\ Quiet
  BY Sizes, Zenon DEF Wire
<1>2. to_server' = IF up THEN << Message("read", n) >> ELSE << >>
  BY <1>1, Single, Zenon DEF session_send, Quiet
<1>3. to_server' \in Seq(Packet) /\ to_client' \in Seq(Answer) /\ read_open' \in BOOLEAN
  BY <1>1, <1>2, EmptySeq DEF TypeOK
<1>4. (~ up' => to_server' = << >>) /\ (Quiet' \/ Sent(Message("read", n))')
  BY <1>1, <1>2, Zenon DEF LibraryStep, Quiet, Sent
<1>5. Wire'
  <2>1. ReadWire'
    <3>1. CASE Quiet'
      BY <3>1, EmptySeq DEF Quiet, ReadWire
    <3>2. CASE Sent(Message("read", n))'
      BY <3>2, Zenon DEF ReadWire
    <3> QED
      BY <1>4, <3>1, <3>2, Zenon
  <2>2. SimpleWire' /\ LatestWire'
    BY Zenon DEF SimpleWire, LatestWire, SimpleCalls
  <2> QED
    BY <1>4, <2>1, <2>2, Zenon DEF Wire
<1>6. Serves(n, 0)'
  <2>1. n - 0 = n /\ n \in Nat
    BY Sizes
  <2>2. CASE Quiet'
    BY <2>1, <2>2, StreamNone, Zenon DEF Serves, Quiet
  <2>3. CASE Sent(Message("read", n))'
    BY <2>1, <2>3, Single, Fields, Zenon DEF Serves, Sent
  <2> QED
    BY <1>4, <2>2, <2>3, Zenon
<1> QED
  BY <1>3, <1>5, <1>6, LibraryKeepsSession, Zenon

(* An answer is taken and the call returns. *)
LEMMA ReturnKeepsSession ==
  ASSUME SessionInv, LibraryStep, call' = "none", UNCHANGED to_server, to_server = << >>,
         to_client' \in Seq(Answer), read_open' \in BOOLEAN,
         ~ read_open' => to_client' = << >>,
         \A i \in 1 .. Len(to_client') : to_client'[i].type = "read"
  PROVE  SessionInv'
<1> USE DEF SessionInv
<1>1. Wire'
  BY Zenon DEF Wire, SimpleWire, LatestWire, ReadWire, SimpleCalls, Quiet
<1>2. to_server' \in Seq(Packet)
  BY EmptySeq, Zenon
<1> QED
  BY <1>1, <1>2, LibraryKeepsSession, Zenon

(* An iterator waits for a packet of its read. *)
LEMMA WaitKeepsSession ==
  ASSUME SessionInv, LibraryStep, call' = "lib_next", read_open, UNCHANGED << to_server, to_client, read_open >>
  PROVE  SessionInv'
<1> USE DEF SessionInv
<1>1. UNCHANGED << accepted, up >>
  BY Zenon DEF LibraryStep
<1>2. Wire'
  BY <1>1, Zenon DEF Wire, SimpleWire, LatestWire, ReadWire, Latest, SimpleCalls, Sent
<1>3. to_server' \in Seq(Packet) /\ to_client' \in Seq(Answer) /\ read_open' \in BOOLEAN
  BY Zenon DEF TypeOK
<1> QED
  BY <1>2, <1>3, LibraryKeepsSession, Zenon

-----------------------------------------------------------------------------
(* The programs on top of a session: shakadbctl and the client libraries.  *)

(* Python looks at read_open when an iterator is created, not when it      *)
(* sends its request (MCClientsReads.cfg): its programs use one iterator   *)
(* at a time.  Those of .NET have as many as they like.                    *)
OneAtATime == "python" \in Commands => \A r, s \in Readers : r = s

-----------------------------------------------------------------------------
(* The batches execute_write has sent, and the truncate, were carried out  *)
(* if their results say so.                                                *)
WriteCommand ==
  command = "write" =>
    /\ ~ read_open
    /\ call # "none" => pc = "loop"
    /\ call = "none" /\ (pc = "begin" \/ result.value = 0) => accepted = total
    /\ call = "write" /\ to_server # << >> => accepted + to_server[1].count = total
    /\ call = "write" /\ to_client # << >> /\ to_client[1].count = OK => accepted = total
    /\ exit = "ok" => accepted = total /\ batches = << >>
    /\ exit # "running" => call = "none"

TruncateCommand ==
  command = "truncate" =>
    /\ ~ read_open
    /\ call = "none" /\ pc = "loop" /\ result.value = 0 => carried_out
    /\ call = "truncate" /\ to_client # << >> /\ to_client[1].count = OK => carried_out
    /\ exit = "ok" => carried_out
    /\ exit # "running" => call = "none"

CtlInv ==
  /\ CtlTypeOK /\ WriteCommand /\ TruncateCommand

-----------------------------------------------------------------------------
(* Whoever has a read under way is alone, and is being served. *)
Active(r) == reader[r].state \in { "open", "waiting" }

ReadersOK ==
  \A r \in Readers :
    /\ reader[r].state # "none" => command \in Libraries
    /\ reader[r].state = "created" => ~ read_open /\ command = "python"
    /\ reader[r].state = "waiting" => call = "lib_next"
    /\ reader[r].got <= reader[r].due
    /\ Active(r) =>
         /\ read_open /\ Serves(reader[r].due, reader[r].got)
         /\ \A s \in Readers : Active(s) => s = r

LibraryAnswer ==
  call = "lib_write" =>
    /\ to_server # << >> => accepted + to_server[1].count + pending = expected
    /\ to_client # << >> /\ to_client[1].count = OK => accepted + pending = expected

LibInv ==
  /\ ClientsTypeOK /\ ReadersOK /\ LibraryAnswer
  /\ LibraryWriteIsTrue /\ IterationIsComplete

IInv == SessionInv /\ CtlInv /\ LibInv

-----------------------------------------------------------------------------
(* What a program of the C client does leaves the libraries alone, and the *)
(* other way round.                                                        *)
LEMMA CommandKeepsLib ==
  ASSUME IInv, command \notin Libraries, command' = command, UNCHANGED lib, SessionInv', CtlTypeOK'
  PROVE  LibInv'
<1> USE DEF IInv, LibInv, SessionInv, lib
<1>1. ClientsTypeOK'
  BY Zenon DEF ClientsTypeOK
<1>2. ReadersOK'
  BY Zenon DEF ReadersOK, Active
<1>3. LibraryAnswer' /\ LibraryWriteIsTrue'
  BY DEF LibraryAnswer, LibraryWriteIsTrue, OwnCalls, LibraryCalls, Returned
<1>4. IterationIsComplete'
  BY Zenon DEF IterationIsComplete
<1> QED
  BY <1>1, <1>2, <1>3, <1>4, Zenon

LEMMA LibraryKeepsCtl ==
  ASSUME IInv, command \in Libraries, UNCHANGED ctl, SessionInv'
  PROVE  CtlInv'
BY Zenon DEF IInv, CtlInv, SessionInv, ctl, CtlTypeOK, WriteCommand, TruncateCommand, Libraries

(* A step of a session that is neither a write nor a truncate command's. *)
LEMMA OtherKeepsCtl ==
  ASSUME IInv, command \notin { "write", "truncate" }, command' = command, SessionInv',
         pc' \in { "begin", "loop" }, UNCHANGED << batches, total >>,
         exit' \in { "running", "ok", "failed", "undefined" }
  PROVE  CtlInv'
BY Zenon DEF IInv, CtlInv, SessionInv, CtlTypeOK, WriteCommand, TruncateCommand

LEMMA ExitKeeps ==
  ASSUME IInv, NEW status \in { "ok", "failed", "undefined" }, Exit(status), UNCHANGED lib,
         command \notin Libraries, call = "none",
         command = "write" /\ status = "ok" => accepted = total /\ batches = << >>,
         command = "truncate" /\ status = "ok" => carried_out
  PROVE  IInv'
<1> USE DEF IInv, Exit, vars, conn, session
<1>1. SessionInv'
  BY SessionSame, Zenon
<1>2. CtlTypeOK'
  BY <1>1, Zenon DEF CtlInv, CtlTypeOK, SessionInv
<1>3. WriteCommand' /\ TruncateCommand'
  BY Zenon DEF CtlInv, WriteCommand, TruncateCommand
<1>4. LibInv'
  BY <1>1, <1>2, CommandKeepsLib, Zenon
<1> QED
  BY <1>1, <1>2, <1>3, <1>4, Zenon DEF CtlInv

LEMMA ExecuteWriteKeeps ==
  ASSUME IInv, execute_write, UNCHANGED lib
  PROVE  IInv'
<1> USE DEF IInv
<1>1. command = "write" /\ exit = "running" /\ call = "none" /\ command \notin Libraries /\ ~ read_open
  BY Zenon DEF execute_write, Running, Libraries, CtlInv, WriteCommand
<1>2. CASE pc = "loop" /\ result.value # 0 /\ Exit("failed")
  BY <1>1, <1>2, ExitKeeps, Zenon
<1>3. CASE pc = "begin" \/ result.value = 0
  <2>1. accepted = total
    BY <1>1, <1>3, Zenon DEF CtlInv, WriteCommand
  <2>2. CASE batches = << >> /\ Exit("ok")
    BY <1>1, <2>1, <2>2, ExitKeeps, Zenon
  <2>3. CASE /\ batches # << >> /\ session_write(Head(batches)) /\ batches' = Tail(batches)
             /\ total' = total + Head(batches) /\ pc' = "loop" /\ UNCHANGED << command, exit >>
    <3>1. PICK n \in 1 .. MaxBatch : n = Head(batches)
      BY <2>3, HeadTailProperties, Zenon DEF CtlInv, CtlTypeOK
    <3>2. n \in 0 .. MaxBatch /\ session_write(n) /\ total' = total + n
      BY <2>3, <3>1, Sizes
    <3>3. SessionInv'
      BY <1>1, <2>3, <3>2, WriteKeepsSession, Zenon
    <3>4. CtlTypeOK'
      <4>1. batches' \in Seq(1 .. MaxBatch)
        BY <2>3, HeadTailProperties, Zenon DEF CtlInv, CtlTypeOK
      <4>2. total' \in Nat
        BY <3>2, Sizes DEF CtlInv, CtlTypeOK
      <4> QED
        BY <2>3, <3>3, <4>1, <4>2, Zenon DEF CtlInv, CtlTypeOK, SessionInv
    <3>5. /\ accepted' = accepted /\ read_open' = read_open /\ call' = "write" /\ to_client' = << >>
          /\ to_server' = << >> \/ to_server' = << Message("write", n) >>
      BY <1>1, <3>2, Single, Zenon DEF session_write, Refuse, session_send, SessionInv, Wire, Quiet
    <3>6. WriteCommand' /\ TruncateCommand'
      BY <1>1, <2>1, <2>3, <3>2, <3>5, Single, Fields DEF WriteCommand, TruncateCommand
    <3>7. LibInv'
      BY <1>1, <2>3, <3>3, <3>4, CommandKeepsLib, Zenon
    <3> QED
      BY <3>3, <3>4, <3>6, <3>7, Zenon DEF CtlInv
  <2> QED
    BY <1>2, <1>3, <2>2, <2>3, Zenon DEF execute_write
<1> QED
  BY <1>2, <1>3, Zenon DEF execute_write

LEMMA ExecuteTruncateKeeps ==
  ASSUME IInv, execute_truncate, UNCHANGED lib
  PROVE  IInv'
<1> USE DEF IInv
<1>1. command = "truncate" /\ exit = "running" /\ call = "none" /\ command \notin Libraries /\ ~ read_open
  BY Zenon DEF execute_truncate, Running, Libraries, CtlInv, TruncateCommand
<1>2. CASE pc = "loop" /\ Exit(IF result.value = 0 THEN "ok" ELSE "failed")
  <2>1. result.value = 0 => carried_out
    BY <1>1, <1>2, Zenon DEF CtlInv, TruncateCommand
  <2>2. CASE result.value = 0
    BY <1>1, <1>2, <2>1, <2>2, ExitKeeps, Zenon
  <2>3. CASE result.value # 0
    BY <1>1, <1>2, <2>3, ExitKeeps, Zenon
  <2> QED
    BY <2>2, <2>3, Zenon
<1>3. CASE pc = "begin" /\ session_truncate /\ pc' = "loop" /\ UNCHANGED << command, batches, total, exit >>
  <2>1. SessionInv'
    BY <1>1, <1>3, TruncateKeepsSession, Zenon
  <2>2. CtlTypeOK'
    BY <1>3, <2>1, Zenon DEF CtlInv, CtlTypeOK, SessionInv
  <2>3. read_open' = read_open /\ call' = "truncate" /\ to_client' = << >>
    BY <1>1, <1>3, Zenon DEF session_truncate, Refuse, SessionInv, Wire, Quiet
  <2>4. WriteCommand' /\ TruncateCommand'
    BY <1>1, <1>3, <2>3, Zenon DEF WriteCommand, TruncateCommand
  <2>5. LibInv'
    BY <1>1, <1>3, <2>1, <2>2, CommandKeepsLib, Zenon
  <2> QED
    BY <2>1, <2>2, <2>4, <2>5, Zenon DEF CtlInv
<1> QED
  BY <1>2, <1>3, Zenon DEF execute_truncate

(* A call of a program that is none of these two. *)
LEMMA OtherCommandKeeps ==
  ASSUME IInv, command \in { "read", "latest", "calls" }, UNCHANGED lib, SessionInv',
         pc' \in { "begin", "loop" }, UNCHANGED << command, batches, total, exit >>
  PROVE  IInv'
<1> USE DEF IInv
<1>1. CtlInv'
  BY OtherKeepsCtl, Zenon DEF CtlInv, CtlTypeOK
<1>2. LibInv'
  BY <1>1, CommandKeepsLib, Zenon DEF CtlInv, Libraries
<1> QED
  BY <1>1, <1>2, Zenon

LEMMA ReadCallKeepsSession ==
  ASSUME SessionInv, command \notin Libraries, command' = command, NEW n \in 0 .. MaxPoints, session_read(n)
  PROVE  SessionInv'
<1>1. CASE Refuse("read")
  BY <1>1, RefuseKeepsSession, Zenon
<1>2. CASE OpenRead("read", n)
  <2>1. n \in 0 .. accepted /\ call = "none"
    BY DEF session_read, SessionInv, TypeOK
  <2> QED
    BY <1>2, <2>1, OpenReadKeepsSession, Zenon
<1> QED
  BY <1>1, <1>2, Zenon DEF session_read

LEMMA LatestCallKeepsSession ==
  ASSUME SessionInv, command \notin Libraries, command' = command, session_read_latest
  PROVE  SessionInv'
<1>1. CASE Refuse("latest")
  BY <1>1, RefuseKeepsSession, Zenon
<1>2. CASE \E window \in Latest : OpenRead("latest", window)
  BY <1>2, OpenReadKeepsSession, Zenon DEF session_read_latest
<1> QED
  BY <1>1, <1>2, Zenon DEF session_read_latest

LEMMA ReadLoopKeeps ==
  ASSUME IInv, command \in { "read", "latest" }, ReadLoop, UNCHANGED lib
  PROVE  IInv'
<1>1. SessionInv'
  BY ReadNextKeepsSession, Zenon DEF IInv, ReadLoop, ctl
<1> QED
  BY <1>1, OtherCommandKeeps, Zenon DEF IInv, CtlInv, CtlTypeOK, ReadLoop, ctl

LEMMA ExecuteReadKeeps ==
  ASSUME IInv, execute_read, UNCHANGED lib
  PROVE  IInv'
<1>1. command = "read" /\ call = "none" /\ command \notin Libraries
  BY Zenon DEF execute_read, Running, Libraries
<1>2. CASE /\ \E window \in 0 .. accepted : session_read(window)
           /\ pc' = "loop" /\ UNCHANGED << command, batches, total, exit >>
  <2>1. PICK n \in 0 .. accepted : session_read(n)
    BY <1>2, Zenon
  <2>2. n \in 0 .. MaxPoints
    BY Sizes DEF IInv, SessionInv, TypeOK
  <2>3. SessionInv'
    BY <1>1, <1>2, <2>1, <2>2, ReadCallKeepsSession, Zenon DEF IInv
  <2> QED
    BY <1>1, <1>2, <2>3, OtherCommandKeeps, Zenon
<1>3. CASE ReadLoop
  BY <1>1, <1>3, ReadLoopKeeps, Zenon
<1>4. CASE Exit("ok")
  BY <1>1, <1>4, ExitKeeps, Zenon
<1> QED
  BY <1>2, <1>3, <1>4, Zenon DEF execute_read

LEMMA ExecuteLatestKeeps ==
  ASSUME IInv, execute_get_latest, UNCHANGED lib
  PROVE  IInv'
<1>1. command = "latest" /\ call = "none" /\ command \notin Libraries
  BY Zenon DEF execute_get_latest, Running, Libraries
<1>2. CASE session_read_latest /\ pc' = "loop" /\ UNCHANGED << command, batches, total, exit >>
  <2>1. SessionInv'
    BY <1>1, <1>2, LatestCallKeepsSession, Zenon DEF IInv
  <2> QED
    BY <1>1, <1>2, <2>1, OtherCommandKeeps, Zenon
<1>3. CASE ReadLoop
  BY <1>1, <1>3, ReadLoopKeeps, Zenon
<1>4. CASE Exit(IF read_response = 0 THEN "undefined" ELSE "ok")
  <2>1. PICK status \in { "ok", "undefined" } : Exit(status)
    BY <1>4, Zenon
  <2> QED
    BY <1>1, <2>1, ExitKeeps, Zenon
<1> QED
  BY <1>2, <1>3, <1>4, Zenon DEF execute_get_latest

LEMMA AnyCallsKeeps ==
  ASSUME IInv, AnyCalls, UNCHANGED lib
  PROVE  IInv'
<1>1. command = "calls" /\ call = "none" /\ command \notin Libraries /\ UNCHANGED ctl
  BY Zenon DEF AnyCalls, Running, Libraries
<1>2. SessionInv /\ command' = command
  BY <1>1, Zenon DEF IInv, ctl
<1>3. SessionInv'
  <2>1. ASSUME NEW n \in 1 .. MaxBatch, session_write(n) PROVE SessionInv'
    <3>1. n \in 0 .. MaxBatch
      BY Sizes
    <3>2. CASE read_open
      BY <1>1, <1>2, <2>1, <3>2, RefuseKeepsSession, Zenon DEF session_write
    <3>3. CASE ~ read_open
      BY <1>1, <1>2, <2>1, <3>1, <3>3, WriteKeepsSession, Zenon
    <3> QED
      BY <3>2, <3>3, Zenon
  <2>2. CASE session_truncate
    <3>1. CASE read_open
      BY <1>1, <1>2, <2>2, <3>1, RefuseKeepsSession, Zenon DEF session_truncate
    <3>2. CASE ~ read_open
      BY <1>1, <1>2, <2>2, <3>2, TruncateKeepsSession, Zenon
    <3> QED
      BY <3>1, <3>2, Zenon
  <2>3. ASSUME NEW n \in 0 .. MaxPoints, session_read(n) PROVE SessionInv'
    BY <1>1, <1>2, <2>3, ReadCallKeepsSession, Zenon
  <2>4. CASE session_read_latest
    BY <1>1, <1>2, <2>4, LatestCallKeepsSession, Zenon
  <2>5. CASE session_read_next
    BY <1>1, <1>2, <2>5, ReadNextKeepsSession, Zenon
  <2>6. CASE Reopen
    BY <1>2, <2>6, ReopenKeepsSession, Zenon
  <2> QED
    BY <2>1, <2>2, <2>3, <2>4, <2>5, <2>6, Zenon DEF AnyCalls, Call
<1> QED
  BY <1>1, <1>3, OtherCommandKeeps, Zenon DEF ctl, IInv, CtlInv, CtlTypeOK

LEMMA ReceiveSimpleKeeps ==
  ASSUME IInv, ReceiveSimple, UNCHANGED ctl, UNCHANGED lib
  PROVE  IInv'
<1> USE DEF IInv
<1>1. /\ UNCHANGED << command, pc, batches, total, exit >>
      /\ UNCHANGED << accepted, up, to_server, read_open, read_response, carried_out, due, got >>
      /\ call \in { "write", "truncate" } /\ call' = "none"
      /\ result' = Returned(call, SimpleResult(session_receive("simple")))
      /\ command \notin Libraries
  BY Zenon DEF ReceiveSimple, ctl, SessionInv, OwnCalls, Libraries
<1>2. SessionInv'
  BY <1>1, ReceiveSimpleKeepsSession, Zenon
<1>3. SimpleAnswer
  BY <1>1, SimpleArrives, Zenon DEF SimpleCalls, ReceiveSimple
<1>4. CtlTypeOK'
  BY <1>1, <1>2, Zenon DEF CtlInv, CtlTypeOK, SessionInv
<1>5. result'.value = 0 => to_client # << >> /\ to_client[1].count = OK
  <2>1. CASE session_receive("simple") = Null
    BY <1>1, <2>1 DEF Returned, SimpleResult
  <2>2. ASSUME NEW s \in { OK, ERROR }, to_client = << Message("simple", s) >>,
               session_receive("simple") = Message("simple", s)
        PROVE  result'.value = 0 => to_client # << >> /\ to_client[1].count = OK
    BY <1>1, <2>2, Single, Fields DEF Returned, SimpleResult
  <2> QED
    BY <1>3, <2>1, <2>2, Zenon DEF SimpleAnswer
<1>6. WriteCommand'
  BY <1>1, <1>5, Zenon DEF CtlInv, WriteCommand, SessionInv, OwnCalls
<1>7. TruncateCommand'
  BY <1>1, <1>5, Zenon DEF CtlInv, TruncateCommand, SessionInv, OwnCalls
<1>8. LibInv'
  BY <1>1, <1>2, <1>4, CommandKeepsLib, Zenon
<1> QED
  BY <1>2, <1>4, <1>6, <1>7, <1>8, Zenon DEF CtlInv

LEMMA ReceivePageKeeps ==
  ASSUME IInv, ReceivePage, UNCHANGED ctl, UNCHANGED lib
  PROVE  IInv'
<1>1. command \in { "read", "latest", "calls" } /\ UNCHANGED << command, pc, batches, total, exit >>
  BY Zenon DEF ReceivePage, ctl, IInv, SessionInv, OwnCalls
<1>2. SessionInv'
  BY <1>1, ReceivePageKeepsSession, Zenon DEF IInv
<1> QED
  BY <1>1, <1>2, OtherCommandKeeps, Zenon DEF IInv, CtlInv, CtlTypeOK

-----------------------------------------------------------------------------
(* The server and the network, whichever program is at the other end. *)
LEMMA ReaderIs ==
  ASSUME LibInv, NEW r \in Readers
  PROVE  /\ reader[r].due \in 0 .. MaxPoints /\ reader[r].got \in 0 .. MaxPoints
         /\ reader[r].got <= reader[r].due
         /\ reader[r].state \in { "none", "created", "open", "waiting", "ended", "failed" }
BY Zenon DEF LibInv, ClientsTypeOK, Reader, ReadersOK

LEMMA ReadersKept ==
  ASSUME LibInv, UNCHANGED << reader, call, read_open, command >>,
         \A d \in 0 .. MaxPoints, g \in 0 .. MaxPoints : g <= d /\ read_open /\ Serves(d, g) => Serves(d, g)'
  PROVE  ReadersOK'
<1> SUFFICES ASSUME NEW r \in Readers
             PROVE  /\ reader[r].state # "none" => command \in Libraries
                    /\ reader[r].state = "created" => ~ read_open /\ command = "python"
                    /\ reader[r].state = "waiting" => call = "lib_next"
                    /\ reader[r].got <= reader[r].due
                    /\ Active(r) => /\ read_open /\ Serves(reader[r].due, reader[r].got)'
                                    /\ \A s \in Readers : Active(s) => s = r
  BY Zenon DEF ReadersOK, Active, Serves
<1>1. Active(r) => read_open /\ Serves(reader[r].due, reader[r].got) /\ \A s \in Readers : Active(s) => s = r
  BY Zenon DEF LibInv, ReadersOK
<1>2. ASSUME Active(r) PROVE Serves(reader[r].due, reader[r].got)'
  <2>1. PICK d \in 0 .. MaxPoints, g \in 0 .. MaxPoints : d = reader[r].due /\ g = reader[r].got /\ g <= d
    BY ReaderIs, Zenon
  <2>2. Serves(d, g)'
    BY <1>1, <1>2, <2>1, Zenon
  <2> QED
    BY <2>1, <2>2, Zenon DEF Serves
<1> QED
  BY <1>1, <1>2, Zenon DEF LibInv, ReadersOK

LEMMA HandledKeeps ==
  ASSUME IInv, Handled, UNCHANGED ctl, UNCHANGED lib
  PROVE  IInv'
<1> USE DEF IInv
<1>1. /\ UNCHANGED << command, pc, batches, total, exit, reader, pending, expected >>
      /\ UNCHANGED << read_open, read_response, call, result, due, got >>
      /\ to_server # << >>
  BY Zenon DEF Handled, ctl, lib
<1>2. SessionInv'
  BY <1>1, HandledKeepsSession, Zenon
<1>3. CtlTypeOK'
  BY <1>1, <1>2, Zenon DEF CtlInv, CtlTypeOK, SessionInv
<1>4. call = "none" => accepted' = accepted
  BY Zenon DEF Handled, HandledNot, HandledWrite, HandledTruncate, HandledLatest, HandledRead
<1>5. ASSUME call \in { "write", "lib_write" }, to_client' # << >>, to_client'[1].count = OK
      PROVE  accepted' = accepted + request_count
  <2>1. CASE HandledNot
    BY <1>5, <2>1, Zenon DEF HandledNot, Quiet
  <2>2. CASE HandledWrite
    BY <1>5, <2>2, Single, Fields DEF HandledWrite, Back, OK, ERROR
  <2>3. CASE HandledLatest \/ HandledRead
    BY <1>5, <2>3, Zenon DEF HandledLatest, HandledRead, SessionInv, Wire, SimpleWire, SimpleCalls
  <2> QED
    BY <1>5, <2>1, <2>2, <2>3, Zenon DEF Handled, HandledTruncate
<1>6. to_server' = << >>
  BY Zenon DEF Handled, HandledNot, HandledWrite, HandledTruncate, HandledLatest, HandledRead, Quiet, Back
<1>7. WriteCommand'
  <2>1. command = "write" => call = "write"
    BY <1>1, Zenon DEF CtlInv, WriteCommand, SessionInv, OwnCalls, TypeOK, Wire, Quiet, LibraryCalls, Libraries
  <2> QED
    BY <1>1, <1>5, <1>6, <2>1, Zenon DEF CtlInv, WriteCommand, request_count
<1>8. TruncateCommand'
  <2>1. command = "truncate" => call = "truncate"
    BY <1>1, Zenon DEF CtlInv, TruncateCommand, SessionInv, OwnCalls, TypeOK, Wire, Quiet, LibraryCalls, Libraries
  <2>2. ASSUME call = "truncate", to_client' # << >>, to_client'[1].count = OK PROVE carried_out'
    <3>1. ~ read_open
      BY <2>2, Zenon DEF SessionInv, Wire, SimpleWire, SimpleCalls
    <3>2. HandledTruncate
      BY <2>2, <3>1, Zenon DEF Handled, HandledNot, HandledWrite, HandledLatest, HandledRead
    <3> QED
      BY <2>2, <3>2, Single, Fields DEF HandledTruncate, Back, OK, ERROR
  <2> QED
    BY <1>1, <2>1, <2>2, Zenon DEF CtlInv, TruncateCommand
<1>9. ReadersOK'
  <2>1. ASSUME NEW d \in 0 .. MaxPoints, NEW g \in 0 .. MaxPoints, read_open, Serves(d, g) PROVE Serves(d, g)'
    BY <2>1, HandledServes, Zenon
  <2> QED
    BY <1>1, <2>1, ReadersKept, Zenon
<1>10. LibraryAnswer'
  BY <1>1, <1>5, <1>6, Zenon DEF LibInv, LibraryAnswer, request_count
<1>11. LibraryWriteIsTrue' /\ IterationIsComplete'
  BY <1>1, <1>4, Zenon DEF LibInv, LibraryWriteIsTrue, IterationIsComplete
<1>12. ClientsTypeOK'
  BY <1>1, <1>3, Zenon DEF LibInv, ClientsTypeOK
<1> QED
  BY <1>2, <1>3, <1>7, <1>8, <1>9, <1>10, <1>11, <1>12, Zenon DEF CtlInv, LibInv

LEMMA DisconnectKeeps ==
  ASSUME IInv, Disconnect, UNCHANGED ctl, UNCHANGED lib
  PROVE  IInv'
<1> USE DEF IInv
<1>1. /\ UNCHANGED << command, pc, batches, total, exit, reader, pending, expected >>
      /\ UNCHANGED << accepted, read_open, read_response, call, result, carried_out, due, got >>
      /\ to_server' = << >> /\ to_client \in Seq(Answer)
  BY Zenon DEF Disconnect, session, ctl, lib, SessionInv, TypeOK
<1>2. SessionInv'
  BY <1>1, DisconnectKeepsSession, Zenon
<1>3. CtlTypeOK'
  BY <1>1, <1>2, Zenon DEF CtlInv, CtlTypeOK, SessionInv
<1>4. to_client' # << >> => to_client # << >> /\ to_client'[1] = to_client[1]
  <2>1. PICK n \in 0 .. Len(to_client) : to_client' = SubSeq(to_client, 1, n)
    BY Zenon DEF Disconnect
  <2> QED
    BY <1>1, <2>1
<1>5. WriteCommand' /\ TruncateCommand'
  BY <1>1, <1>4, Zenon DEF CtlInv, WriteCommand, TruncateCommand
<1>6. ReadersOK'
  <2>1. \A d \in 0 .. MaxPoints, g \in 0 .. MaxPoints : g <= d /\ read_open /\ Serves(d, g) => Serves(d, g)'
    BY <1>1, DisconnectKeepsSession, Zenon
  <2> QED
    BY <1>1, <2>1, ReadersKept, Zenon
<1>7. LibraryAnswer'
  BY <1>1, <1>4, Zenon DEF LibInv, LibraryAnswer
<1>8. LibraryWriteIsTrue' /\ IterationIsComplete'
  BY <1>1, Zenon DEF LibInv, LibraryWriteIsTrue, IterationIsComplete
<1>9. ClientsTypeOK'
  BY <1>1, <1>3, Zenon DEF LibInv, ClientsTypeOK
<1> QED
  BY <1>2, <1>3, <1>5, <1>6, <1>7, <1>8, <1>9, Zenon DEF CtlInv, LibInv

-----------------------------------------------------------------------------
(* The calls of the libraries. *)
LEMMA LibraryKeeps ==
  ASSUME IInv, command \in Libraries, UNCHANGED ctl, SessionInv',
         reader' \in [ Readers -> Reader ], pending' \in 0 .. MaxBatch, expected' \in 0 .. MaxPoints + MaxBatch,
         ReadersOK', LibraryAnswer', LibraryWriteIsTrue', IterationIsComplete'
  PROVE  IInv'
<1>1. CtlInv'
  BY LibraryKeepsCtl, Zenon
<1> QED
  BY <1>1, Zenon DEF IInv, LibInv, CtlInv, ClientsTypeOK

LEMMA LibTypes ==
  ASSUME IInv
  PROVE  /\ reader \in [ Readers -> Reader ] /\ pending \in 0 .. MaxBatch
         /\ expected \in 0 .. MaxPoints + MaxBatch /\ accepted \in 0 .. MaxPoints
         /\ MaxPoints \in Nat /\ MaxBatch \in Nat
BY Sizes, Zenon DEF IInv, LibInv, ClientsTypeOK, SessionInv, TypeOK

(* While no read is open no iterator has one under way. *)
LEMMA ReadersIdle ==
  ASSUME LibInv, ~ read_open, ~ read_open', UNCHANGED << reader, command >>
  PROVE  ReadersOK'
BY Zenon DEF LibInv, ReadersOK, Active

LEMMA ServesSame ==
  ASSUME UNCHANGED << to_server, to_client >>
  PROVE  \A d \in 0 .. MaxPoints, g \in 0 .. MaxPoints : Serves(d, g) => Serves(d, g)'
BY Zenon DEF Serves

(* A call that raises at once, or returns without a request. *)
LEMMA RaiseKeeps ==
  ASSUME IInv, command \in Libraries, UNCHANGED ctl, call = "none", NEW c, NEW v, result' = Returned(c, v),
         c # "write", UNCHANGED << accepted, conn, read_open, read_response, call, carried_out, due, got, reader, pending >>,
         \/ expected' = expected /\ (c = "lib_write" => v # 0)
         \/ expected' = accepted
  PROVE  IInv'
<1> USE DEF IInv
<1>1. LibraryStep /\ UNCHANGED << to_server, to_client, call, read_open >>
  BY Zenon DEF LibraryStep, ctl, conn, Returned
<1>2. SessionInv'
  <2>1. UNCHANGED << to_server, to_client, call >>
    BY <1>1, Zenon
  <2>2. read_open' = read_open \/ (~ read_open /\ read_open' = TRUE)
    BY <1>1, Zenon
  <2> QED
    BY <1>1, <2>1, <2>2, RaiseKeepsSession, Zenon
<1>3. expected' \in 0 .. MaxPoints + MaxBatch
  BY LibTypes
<1>4. ReadersOK'
  BY <1>1, ServesSame, ReadersKept, Zenon DEF ctl
<1>5. LibraryAnswer' /\ LibraryWriteIsTrue'
  BY Zenon DEF LibraryAnswer, LibraryWriteIsTrue, Returned
<1>6. IterationIsComplete'
  BY Zenon DEF LibInv, IterationIsComplete
<1> QED
  BY <1>2, <1>3, <1>4, <1>5, <1>6, LibTypes, LibraryKeeps, Zenon

LEMMA SmallerIs ==
  ASSUME NEW n \in 0 .. MaxBatch
  PROVE  /\ Smaller(WritePoints, n) \in 0 .. MaxBatch /\ n - Smaller(WritePoints, n) \in 0 .. MaxBatch
         /\ Smaller(WritePoints, n) + (n - Smaller(WritePoints, n)) = n
BY Sizes, ClientsAssumption DEF Smaller

(* A request of a write, the first or a later one. *)
LEMMA SendPageKeeps ==
  ASSUME IInv, command \in Libraries, UNCHANGED ctl, ~ read_open, to_server = << >>, to_client' = << >>,
         NEW n \in 0 .. MaxBatch, SendPage(n), accepted + n = expected', expected' \in 0 .. MaxPoints + MaxBatch,
         call' = "lib_write",
         UNCHANGED << accepted, up, read_open, read_response, result, carried_out, due, got, reader >>
  PROVE  IInv'
<1> USE DEF IInv
<1>1. PICK m \in 0 .. MaxBatch :
        /\ m = Smaller(WritePoints, n) /\ session_send("write", m) /\ pending' = n - m
        /\ pending' \in 0 .. MaxBatch /\ m + (n - m) = n
  BY SmallerIs, Zenon DEF SendPage
<1>2. LibraryStep
  BY Zenon DEF LibraryStep, ctl, LibraryCalls
<1>3. SessionInv' /\ (to_server' = << >> \/ to_server' = << Message("write", m) >>)
  BY <1>1, <1>2, RequestKeepsSession, Zenon
<1>4. ReadersOK'
  BY ReadersIdle, Zenon DEF ctl
<1>5. LibraryAnswer'
  <2>1. to_server' # << >> => to_server'[1].count = m
    BY <1>3, Single, Fields
  <2>2. accepted' + m + pending' = expected'
    <3>1. accepted \in Nat /\ m \in Nat /\ n \in Nat
      BY <1>1, LibTypes
    <3>2. accepted' = accepted /\ pending' = n - m
      BY <1>1, Zenon
    <3> QED
      BY <3>1, <3>2
  <2> QED
    BY <2>1, <2>2, Zenon DEF LibraryAnswer
<1>6. LibraryWriteIsTrue' /\ IterationIsComplete'
  BY Zenon DEF LibInv, LibraryWriteIsTrue, IterationIsComplete
<1> QED
  BY <1>1, <1>3, <1>4, <1>5, <1>6, LibTypes, LibraryKeeps, Zenon

LEMMA LibWriteKeeps ==
  ASSUME IInv, NEW count \in 0 .. MaxBatch, write(count)
  PROVE  IInv'
<1>1. command \in Libraries /\ call = "none" /\ UNCHANGED ctl
  BY Zenon DEF write, InProgram, Libraries
<1>2. CASE Refuse("lib_write") /\ UNCHANGED lib
  BY <1>1, <1>2, RaiseKeeps DEF Refuse, lib
<1>3. CASE SendFails("lib_write") /\ UNCHANGED << read_open, lib >>
  BY <1>1, <1>3, RaiseKeeps DEF SendFails, lib
<1>4. CASE /\ ~ read_open /\ expected' = accepted + count
           /\ \/ /\ count = 0
                 /\ result' = Returned("lib_write", 0)
                 /\ UNCHANGED << to_server, call, pending >>
              \/ /\ count > 0
                 /\ SendPage(count)
                 /\ call' = "lib_write"
                 /\ UNCHANGED result
           /\ UNCHANGED << accepted, up, to_client, read_open, read_response, carried_out, due, got, reader >>
  <2>1. Quiet
    BY <1>1, <1>4, Zenon DEF IInv, SessionInv, Wire
  <2>2. CASE count = 0 /\ result' = Returned("lib_write", 0) /\ UNCHANGED << to_server, call, pending >>
    <3>1. expected' = accepted
      BY <1>4, <2>2, LibTypes
    <3> QED
      BY <1>1, <1>4, <2>2, <3>1, RaiseKeeps, Zenon DEF conn
  <2>3. CASE SendPage(count) /\ call' = "lib_write" /\ UNCHANGED result
    <3>1. expected' \in 0 .. MaxPoints + MaxBatch
      BY <1>4, LibTypes
    <3> QED
      BY <1>1, <1>4, <2>1, <2>3, <3>1, SendPageKeeps, Zenon DEF Quiet
  <2> QED
    BY <1>4, <2>2, <2>3, Zenon
<1> QED
  BY <1>2, <1>3, <1>4, Zenon DEF write, EnsurePreConditions

LEMMA AskKeeps ==
  ASSUME IInv, NEW c, NEW type, NEW n, Ask(c, type, n),
         \/ c = "lib_truncate" /\ type = "truncate" /\ n \in 0 .. MaxBatch
         \/ c = "lib_latest" /\ type = "latest" /\ n \in 0 .. MaxPoints
  PROVE  IInv'
<1> USE DEF IInv
<1>1. command \in Libraries /\ call = "none" /\ UNCHANGED ctl /\ UNCHANGED << reader, pending, expected >>
  BY Zenon DEF Ask, InProgram, Libraries, lib
<1>2. CASE Refuse(c)
  BY <1>1, <1>2, RaiseKeeps, Zenon DEF Refuse
<1>3. CASE SendFails(c) /\ UNCHANGED read_open
  BY <1>1, <1>3, RaiseKeeps, Zenon DEF SendFails
<1>4. CASE /\ ~ read_open /\ session_send(type, n) /\ call' = c
           /\ UNCHANGED << accepted, up, to_client, read_open, read_response, result, carried_out, due, got >>
  <2>1. Quiet /\ to_client' = << >>
    BY <1>1, <1>4, Zenon DEF SessionInv, Wire, Quiet
  <2>2. LibraryStep
    BY <1>1, <1>4, Zenon DEF LibraryStep, ctl, LibraryCalls
  <2>3. SessionInv'
    BY <1>1, <1>4, <2>1, <2>2, RequestKeepsSession, Zenon DEF Quiet
  <2>4. ReadersOK'
    BY <1>1, <1>4, ReadersIdle, Zenon DEF ctl
  <2>5. LibraryAnswer' /\ LibraryWriteIsTrue' /\ IterationIsComplete'
    BY <1>1, <1>4, Zenon DEF LibInv, LibraryAnswer, LibraryWriteIsTrue, IterationIsComplete
  <2> QED
    BY <1>1, <2>3, <2>4, <2>5, LibTypes, LibraryKeeps, Zenon
<1> QED
  BY <1>2, <1>3, <1>4, Zenon DEF Ask, EnsurePreConditions

-----------------------------------------------------------------------------
(* The iterators of the libraries. *)

(* A step that changes one iterator, or none, and returns to the program   *)
(* or waits for a packet.                                                  *)
LEMMA IteratorKeeps ==
  ASSUME IInv, command \in Libraries, UNCHANGED ctl, SessionInv', accepted' = accepted,
         UNCHANGED << pending, expected >>, call' \in { "none", "lib_next" },
         result'.call # "lib_write" \/ (result' = result /\ call = "none"),
         reader' \in [ Readers -> Reader ], ReadersOK', IterationIsComplete'
  PROVE  IInv'
<1>1. LibraryAnswer'
  BY Zenon DEF LibraryAnswer
<1>2. LibraryWriteIsTrue'
  BY DEF IInv, LibInv, LibraryWriteIsTrue, Returned
<1> QED
  BY <1>1, <1>2, LibTypes, LibraryKeeps, Zenon

LEMMA ReaderSet ==
  ASSUME IInv, NEW r \in Readers, NEW x \in Reader, reader' = [ reader EXCEPT ![r] = x ]
  PROVE  /\ reader' \in [ Readers -> Reader ]
         /\ reader'[r] = x
         /\ \A s \in Readers : s # r => reader'[s] = reader[s]
         /\ (x.state = "ended" => x.got = x.due) => IterationIsComplete'
BY LibTypes, Zenon DEF IInv, LibInv, IterationIsComplete

LEMMA CreateKeeps ==
  ASSUME IInv, NEW r \in Readers, read(r)
  PROVE  IInv'
<1> USE DEF IInv
<1>1. command = "python" /\ command \in Libraries /\ call = "none" /\ UNCHANGED ctl /\ UNCHANGED << pending, expected >>
  BY Zenon DEF read, InProgram, Libraries
<1>2. CASE Refuse("lib_read") /\ UNCHANGED reader
  BY <1>1, <1>2, RaiseKeeps, Zenon DEF Refuse
<1>3. CASE ~ read_open /\ reader' = [ reader EXCEPT ![r].state = "created" ] /\ UNCHANGED vars
  <2>1. UNCHANGED << accepted, up, to_server, to_client, read_open, read_response, call, result, carried_out, due, got >>
    BY <1>3, Zenon DEF vars, conn, session
  <2>2. SessionInv'
    <3>1. LibraryStep
      BY <1>1, <2>1, Zenon DEF LibraryStep, ctl, LibraryCalls
    <3> QED
      BY <1>1, <2>1, <3>1, RaiseKeepsSession, Zenon
  <2>3. PICK x \in Reader :
          /\ x.state = "created" /\ x.due = reader[r].due /\ x.got = reader[r].got
          /\ reader' = [ reader EXCEPT ![r] = x ]
    BY <1>3, LibTypes, Zenon DEF Reader
  <2>4. /\ reader' \in [ Readers -> Reader ] /\ reader'[r] = x /\ IterationIsComplete'
        /\ \A s \in Readers : s # r => reader'[s] = reader[s]
    BY <2>3, ReaderSet, Zenon
  <2>5. ReadersOK'
    BY <1>1, <1>3, <2>1, <2>3, <2>4, Zenon DEF LibInv, ReadersOK, Active, ctl
  <2> QED
    BY <1>1, <2>1, <2>2, <2>4, <2>5, IteratorKeeps, Zenon
<1> QED
  BY <1>2, <1>3, Zenon DEF read, EnsurePreConditions

(* The request of a read by the only iterator that has one. *)
LEMMA SendReadKeeps ==
  ASSUME IInv, command \in Libraries, UNCHANGED ctl, UNCHANGED << pending, expected >>,
         call = "none", ~ read_open, NEW r \in Readers, NEW state \in { "open", "waiting" }, SendRead(r, state),
         call' = IF state = "open" THEN "none" ELSE "lib_next",
         \A s \in Readers : s # r => reader[s].state # "created",
         UNCHANGED << accepted, up, to_client, read_response, result, carried_out, due, got >>
  PROVE  IInv'
<1> USE DEF IInv
<1>1. PICK n \in 0 .. accepted :
        /\ session_send("read", n)
        /\ reader' = [ reader EXCEPT ![r] = [ state |-> state, due |-> n, got |-> 0 ] ]
  BY Zenon DEF SendRead
<1>2. read_open' = TRUE
  BY Zenon DEF SendRead
<1>3. n \in 0 .. MaxPoints /\ 0 \in 0 .. MaxPoints /\ 0 <= n
  BY LibTypes
<1>4. LibraryStep
  BY Zenon DEF LibraryStep, ctl, LibraryCalls
<1>5. SessionInv' /\ Serves(n, 0)'
  BY <1>1, <1>2, <1>3, <1>4, ReadKeepsSession, Zenon
<1>6. PICK x \in Reader :
        /\ x.state = state /\ x.due = n /\ x.got = 0
        /\ reader' = [ reader EXCEPT ![r] = x ]
  BY <1>1, <1>3, Zenon DEF Reader
<1>7. /\ reader' \in [ Readers -> Reader ] /\ reader'[r] = x /\ IterationIsComplete'
      /\ \A s \in Readers : s # r => reader'[s] = reader[s]
  BY <1>6, ReaderSet, Zenon
<1>8. \A s \in Readers : ~ Active(s)
  BY Zenon DEF LibInv, ReadersOK
<1>9. ASSUME NEW s \in Readers
      PROVE  /\ reader'[s].state # "none" => command \in Libraries
             /\ reader'[s].state # "created"
             /\ reader'[s].state = "waiting" => call' = "lib_next"
             /\ reader'[s].got <= reader'[s].due
             /\ Active(s)' => s = r
  <2>1. CASE s = r
    BY <1>3, <1>6, <1>7, <2>1, Zenon
  <2>2. CASE s # r
    <3>1. /\ reader'[s] = reader[s] /\ ~ Active(s)
          /\ reader[s].state # "none" => command \in Libraries
          /\ reader[s].got <= reader[s].due
      BY <1>7, <1>8, <2>2, Zenon DEF LibInv, ReadersOK
    <3>2. reader[s].state # "waiting" /\ ~ Active(s)'
      BY <3>1, Zenon DEF Active
    <3>3. reader'[s].state = reader[s].state /\ reader[s].state # "created"
      BY <2>2, <3>1, Zenon
    <3> QED
      BY <2>2, <3>1, <3>2, <3>3, Zenon
  <2> QED
    BY <2>1, <2>2, Zenon
<1>10. Serves(reader[r].due, reader[r].got)'
  BY <1>5, <1>6, <1>7, Zenon DEF Serves
<1>11. ReadersOK'
  BY <1>2, <1>9, <1>10, Zenon DEF ReadersOK, ctl
<1> QED
  BY <1>5, <1>7, <1>11, IteratorKeeps, Zenon

LEMMA StartKeeps ==
  ASSUME OneAtATime, IInv, NEW r \in Readers, Start(r)
  PROVE  IInv'
<1> USE DEF IInv
<1>1. /\ command = "python" /\ command \in Libraries /\ call = "none"
      /\ UNCHANGED ctl /\ UNCHANGED << pending, expected >> /\ reader[r].state = "created" /\ ~ read_open
  <2>1. /\ command = "python" /\ call = "none" /\ UNCHANGED ctl
        /\ UNCHANGED << pending, expected >> /\ reader[r].state = "created"
    BY Zenon DEF Start, InProgram
  <2>2. ~ read_open
    BY <2>1, Zenon DEF LibInv, ReadersOK
  <2> QED
    BY <2>1, <2>2, Zenon DEF Libraries
<1>2. \A s \in Readers : s = r
  BY <1>1, Zenon DEF OneAtATime, SessionInv
<1>3. CASE SendFails("lib_next") /\ reader' = [ reader EXCEPT ![r].state = "failed" ] /\ UNCHANGED read_open
  <2>1. /\ result' = Returned("lib_next", 1)
        /\ UNCHANGED << accepted, up, to_server, to_client, read_open, read_response, call, carried_out, due, got >>
    BY <1>3, Zenon DEF SendFails, conn
  <2>2. SessionInv'
    <3>1. LibraryStep
      BY <1>1, <2>1, Zenon DEF LibraryStep, ctl, LibraryCalls, Returned
    <3> QED
      BY <1>1, <2>1, <3>1, RaiseKeepsSession, Zenon
  <2>3. PICK x \in Reader :
          /\ x.state = "failed" /\ x.due = reader[r].due /\ x.got = reader[r].got
          /\ reader' = [ reader EXCEPT ![r] = x ]
    BY <1>3, LibTypes, Zenon DEF Reader
  <2>4. reader' \in [ Readers -> Reader ] /\ reader'[r] = x /\ IterationIsComplete'
    BY <2>3, ReaderSet, Zenon
  <2>5. ReadersOK'
    BY <1>1, <1>2, <2>3, <2>4, Zenon DEF LibInv, ReadersOK, Active, ctl
  <2>6. result'.call # "lib_write"
    BY <2>1, Zenon DEF Returned
  <2> QED
    BY <1>1, <2>1, <2>2, <2>4, <2>5, <2>6, IteratorKeeps, Zenon
<1>4. CASE /\ SendRead(r, "waiting") /\ call' = "lib_next"
           /\ UNCHANGED << accepted, up, to_client, read_response, result, carried_out, due, got >>
  BY <1>1, <1>2, <1>4, SendReadKeeps, Zenon
<1> QED
  BY <1>3, <1>4, Zenon DEF Start

LEMMA ReadKeeps ==
  ASSUME IInv, NEW r \in Readers, Read(r)
  PROVE  IInv'
<1> USE DEF IInv
<1>1. command = "dotnet" /\ command \in Libraries /\ call = "none" /\ UNCHANGED ctl /\ UNCHANGED << pending, expected >>
  BY Zenon DEF Read, InProgram, Libraries
<1>2. \A s \in Readers : reader[s].state # "created"
  BY <1>1, Zenon DEF LibInv, ReadersOK
<1>3. CASE Refuse("lib_read") /\ UNCHANGED reader
  BY <1>1, <1>3, RaiseKeeps, Zenon DEF Refuse
<1>4. CASE ~ read_open /\ SendFails("lib_read") /\ read_open' = TRUE /\ UNCHANGED reader
  <2>1. /\ result' = Returned("lib_read", 1) /\ result'.call # "lib_write" /\ result'.call # "write"
        /\ UNCHANGED << accepted, up, to_server, to_client, read_response, call, carried_out, due, got >>
    BY <1>4, Zenon DEF SendFails, conn, Returned
  <2>2. SessionInv'
    <3>1. LibraryStep
      BY <1>1, <2>1, Zenon DEF LibraryStep, ctl, LibraryCalls
    <3> QED
      BY <1>1, <1>4, <2>1, <3>1, RaiseKeepsSession, Zenon
  <2>3. ReadersOK' /\ IterationIsComplete'
    BY <1>1, <1>2, <1>4, <2>1, Zenon DEF LibInv, ReadersOK, Active, ctl, IterationIsComplete
  <2> QED
    BY <1>1, <1>4, <2>1, <2>2, <2>3, LibTypes, IteratorKeeps, Zenon
<1>5. CASE /\ ~ read_open /\ SendRead(r, "open")
           /\ UNCHANGED << accepted, up, to_client, read_response, call, result, carried_out, due, got >>
  BY <1>1, <1>2, <1>5, SendReadKeeps, Zenon
<1> QED
  BY <1>3, <1>4, <1>5, Zenon DEF Read, EnsurePreConditions

LEMMA AdvancedKeeps ==
  ASSUME IInv, NEW r \in Readers, Advanced(r)
  PROVE  IInv'
<1> USE DEF IInv
<1>1. /\ command \in Libraries /\ call = "none" /\ call' = "lib_next" /\ reader[r].state = "open"
      /\ UNCHANGED << accepted, up, to_server, to_client, read_open, read_response, result, carried_out, due, got >>
      /\ UNCHANGED ctl /\ UNCHANGED << pending, expected >>
      /\ reader' = [ reader EXCEPT ![r].state = "waiting" ]
  BY Zenon DEF Advanced, InProgram, Libraries, conn
<1>2. /\ read_open /\ Serves(reader[r].due, reader[r].got) /\ reader[r].got <= reader[r].due
      /\ \A s \in Readers : Active(s) => s = r
  BY <1>1, Zenon DEF LibInv, ReadersOK, Active
<1>3. SessionInv'
  <2>1. LibraryStep
    BY <1>1, Zenon DEF LibraryStep, ctl, LibraryCalls
  <2> QED
    BY <1>1, <1>2, <2>1, WaitKeepsSession, Zenon
<1>4. PICK x \in Reader :
        /\ x.state = "waiting" /\ x.due = reader[r].due /\ x.got = reader[r].got
        /\ reader' = [ reader EXCEPT ![r] = x ]
  BY <1>1, LibTypes, Zenon DEF Reader
<1>5. /\ reader' \in [ Readers -> Reader ] /\ reader'[r] = x /\ IterationIsComplete'
      /\ \A s \in Readers : s # r => reader'[s] = reader[s]
  BY <1>4, ReaderSet, Zenon
<1>6. ASSUME NEW s \in Readers
      PROVE  /\ reader'[s].state # "none" => command \in Libraries
             /\ reader'[s].state # "created"
             /\ reader'[s].got <= reader'[s].due
             /\ Active(s)' => s = r
  <2>1. CASE s = r
    BY <1>1, <1>2, <1>4, <1>5, <2>1, Zenon
  <2>2. CASE s # r
    BY <1>2, <1>5, <2>2, Zenon DEF Active, LibInv, ReadersOK
  <2> QED
    BY <2>1, <2>2, Zenon
<1>7. Serves(reader[r].due, reader[r].got)'
  BY <1>1, <1>2, <1>4, <1>5, Zenon DEF Serves
<1>8. ReadersOK'
  BY <1>1, <1>2, <1>6, <1>7, Zenon DEF ReadersOK, ctl
<1> QED
  BY <1>1, <1>3, <1>5, <1>8, IteratorKeeps, Zenon

LEMMA DropKeeps ==
  ASSUME IInv, NEW r \in Readers, Drop(r)
  PROVE  IInv'
<1> USE DEF IInv
<1>1. /\ command \in Libraries /\ call = "none" /\ UNCHANGED ctl /\ UNCHANGED << pending, expected >>
      /\ UNCHANGED << accepted, up, to_server, to_client, read_open, read_response, call, result, carried_out, due, got >>
      /\ reader' = [ reader EXCEPT ![r] = NoReader ]
  BY Zenon DEF Drop, InProgram, Libraries, vars, conn, session
<1>2. SessionInv'
  <2>1. LibraryStep
    BY <1>1, Zenon DEF LibraryStep, ctl, LibraryCalls
  <2> QED
    BY <1>1, <2>1, RaiseKeepsSession, Zenon
<1>3. NoReader \in Reader /\ NoReader.state = "none" /\ NoReader.got <= NoReader.due
  BY LibTypes DEF NoReader, Reader
<1>4. /\ reader' \in [ Readers -> Reader ] /\ reader'[r] = NoReader /\ IterationIsComplete'
      /\ \A s \in Readers : s # r => reader'[s] = reader[s]
  BY <1>1, <1>3, ReaderSet, Zenon
<1>5. ASSUME NEW s \in Readers, s # r, Active(s) PROVE Serves(reader[s].due, reader[s].got)'
  BY <1>1, <1>4, <1>5, Zenon DEF LibInv, ReadersOK, Serves
<1>6. ReadersOK'
  BY <1>1, <1>3, <1>4, <1>5, Zenon DEF LibInv, ReadersOK, Active, ctl
<1> QED
  BY <1>1, <1>2, <1>4, <1>6, IteratorKeeps, Zenon

LEMMA CloseKeeps ==
  ASSUME IInv, Close
  PROVE  IInv'
<1> USE DEF IInv
<1>1. /\ command \in Libraries /\ call = "none" /\ UNCHANGED ctl /\ UNCHANGED << pending, expected >>
      /\ Reopen /\ reader' = [ r \in Readers |-> NoReader ] /\ command' = command
  BY Zenon DEF Close, InProgram, Libraries, ctl
<1>2. SessionInv'
  BY <1>1, ReopenKeepsSession, Zenon
<1>3. NoReader \in Reader /\ NoReader.state = "none" /\ NoReader.got <= NoReader.due
  BY LibTypes DEF NoReader, Reader
<1>4. reader' \in [ Readers -> Reader ] /\ ReadersOK' /\ IterationIsComplete'
  BY <1>1, <1>3, Zenon DEF ReadersOK, Active, IterationIsComplete
<1>5. accepted' = accepted /\ call' = "none" /\ result'.call # "lib_write"
  BY <1>1, Zenon DEF Reopen, Returned
<1> QED
  BY <1>1, <1>2, <1>4, <1>5, IteratorKeeps, Zenon

-----------------------------------------------------------------------------
(* The answers to the calls of the libraries. *)
LEMMA SimpleConsumed ==
  ASSUME SimpleAnswer, Consumed("simple")
  PROVE  /\ to_client' = << >>
         /\ Success(session_receive("simple")) => to_client # << >> /\ to_client[1].count = OK
<1>1. CASE to_client = << >> /\ session_receive("simple") = Null
  BY <1>1, Zenon DEF Consumed, Success
<1>2. ASSUME NEW s \in { OK, ERROR }, to_client = << Message("simple", s) >>,
             session_receive("simple") = Message("simple", s)
      PROVE  /\ to_client' = << >>
             /\ Success(session_receive("simple")) => to_client # << >> /\ to_client[1].count = OK
  BY <1>2, Single, Fields DEF Consumed, Success
<1> QED
  BY <1>1, <1>2, Zenon DEF SimpleAnswer

LEMMA AnswerWriteKeeps ==
  ASSUME IInv, AnswerWrite, UNCHANGED ctl
  PROVE  IInv'
<1> USE DEF IInv
<1> DEFINE success == Success(session_receive("simple"))
<1>1. /\ call = "lib_write" /\ command \in Libraries /\ SimpleAnswer /\ Consumed("simple")
      /\ UNCHANGED << accepted, up, read_open, read_response, carried_out, due, got, reader, expected >>
  BY SimpleArrives, Zenon DEF AnswerWrite, Arrived, SessionInv, OwnCalls, LibraryCalls, SimpleCalls
<1>2. to_client' = << >> /\ (success => accepted + pending = expected) /\ ~ read_open /\ to_server = << >>
  BY <1>1, SimpleConsumed, Zenon DEF LibInv, LibraryAnswer, SimpleAnswer
<1>3. CASE success /\ pending > 0 /\ SendPage(pending) /\ UNCHANGED << call, result >>
  BY <1>1, <1>2, <1>3, LibTypes, SendPageKeeps, Zenon
<1>4. CASE /\ ~ (success /\ pending > 0) /\ call' = "none" /\ pending' = 0 /\ UNCHANGED to_server
           /\ result' = Returned("lib_write", IF success THEN 0 ELSE 1)
  <2>1. LibraryStep
    BY <1>1, <1>4, Zenon DEF LibraryStep, ctl, Returned
  <2>2. SessionInv'
    <3>1. to_client' \in Seq(Answer) /\ Len(to_client') = 0
      BY <1>2, EmptySeq, Zenon
    <3>2. read_open' \in BOOLEAN
      BY <1>1, Zenon DEF SessionInv, TypeOK
    <3> QED
      BY <1>2, <1>4, <2>1, <3>1, <3>2, ReturnKeepsSession
  <2>3. ReadersOK'
    BY <1>1, <1>2, ReadersIdle, Zenon DEF ctl
  <2>4. LibraryWriteIsTrue'
    <3>1. success => accepted = expected
      BY <1>2, <1>4, LibTypes
    <3> QED
      BY <1>1, <1>4, <3>1 DEF LibraryWriteIsTrue, Returned
  <2>5. LibraryAnswer' /\ IterationIsComplete'
    BY <1>1, <1>4, Zenon DEF LibInv, LibraryAnswer, IterationIsComplete
  <2>6. pending' \in 0 .. MaxBatch
    BY <1>4, LibTypes
  <2> QED
    BY <1>1, <2>2, <2>3, <2>4, <2>5, <2>6, LibTypes, LibraryKeeps, Zenon
<1> QED
  BY <1>3, <1>4, Zenon DEF AnswerWrite

(* truncate and latest: the answer is taken, and the call returns. *)
LEMMA SingleAnswerKeeps ==
  ASSUME IInv, command \in Libraries, UNCHANGED ctl, UNCHANGED lib, ~ read_open, to_server = << >>,
         to_client' = << >>, call' = "none", result'.call \notin { "write", "lib_write" },
         UNCHANGED << accepted, up, to_server, read_open, read_response, carried_out, due, got >>
  PROVE  IInv'
<1> USE DEF IInv
<1>1. LibraryStep
  BY Zenon DEF LibraryStep, ctl
<1>2. SessionInv'
  <2>1. to_client' \in Seq(Answer) /\ Len(to_client') = 0
    BY EmptySeq, Zenon
  <2>2. read_open' \in BOOLEAN
    BY Zenon DEF SessionInv, TypeOK
  <2> QED
    BY <1>1, <2>1, <2>2, ReturnKeepsSession
<1>3. ReadersOK'
  BY ReadersIdle, Zenon DEF ctl, lib
<1>4. LibraryAnswer' /\ LibraryWriteIsTrue' /\ IterationIsComplete'
  BY DEF LibInv, LibraryAnswer, LibraryWriteIsTrue, IterationIsComplete, lib, Returned
<1> QED
  BY <1>2, <1>3, <1>4, LibTypes, LibraryKeeps, Zenon DEF lib

LEMMA AnswerTruncateKeeps ==
  ASSUME IInv, AnswerTruncate, UNCHANGED ctl
  PROVE  IInv'
<1> USE DEF IInv
<1>1. call = "lib_truncate" /\ command \in Libraries /\ SimpleAnswer /\ Consumed("simple")
  BY SimpleArrives, Zenon DEF AnswerTruncate, Arrived, SessionInv, OwnCalls, LibraryCalls, SimpleCalls
<1>2. to_client' = << >> /\ ~ read_open /\ to_server = << >>
  BY <1>1, SimpleConsumed, Zenon DEF SimpleAnswer
<1>3. result'.call \notin { "write", "lib_write" }
  BY Zenon DEF AnswerTruncate, Returned
<1> QED
  BY <1>1, <1>2, <1>3, SingleAnswerKeeps, Zenon DEF AnswerTruncate

LEMMA AnswerLatestKeeps ==
  ASSUME IInv, AnswerLatest, UNCHANGED ctl
  PROVE  IInv'
<1> USE DEF IInv
<1>1. call = "lib_latest" /\ command \in Libraries /\ ~ read_open /\ Consumed("read")
  BY Zenon DEF AnswerLatest, Arrived, SessionInv, OwnCalls, LibraryCalls, Wire, LatestWire
<1>2. to_client' = << >> /\ to_server = << >>
  <2>1. CASE to_client = << >>
    BY <1>1, <2>1, Zenon DEF Consumed, AnswerLatest, Arrived, SessionInv, Wire
  <2>2. CASE to_client # << >>
    <3>1. PICK n \in 0 .. MaxPoints : Back(Message("read", n))
      BY <1>1, <2>2, Zenon DEF SessionInv, Wire, LatestWire, Quiet, Sent
    <3> QED
      BY <1>1, <3>1, Single, Fields DEF Consumed, Back
  <2> QED
    BY <2>1, <2>2, Zenon
<1>3. result'.call \notin { "write", "lib_write" }
  BY Zenon DEF AnswerLatest, Returned
<1> QED
  BY <1>1, <1>2, <1>3, SingleAnswerKeeps, Zenon DEF AnswerLatest

(* A packet, or the end of the connection, for the iterator that waits. *)
LEMMA AnswerPageKeeps ==
  ASSUME IInv, AnswerPage, UNCHANGED ctl
  PROVE  IInv'
<1> USE DEF IInv
<1> DEFINE response == session_receive("read")
           outcome == Outcome(response)
<1>1. PICK r \in Readers :
        /\ reader[r].state = "waiting"
        /\ reader' = [ reader EXCEPT ![r].state = outcome, ![r].got = @ + response.count ]
  BY Zenon DEF AnswerPage
<1>2. /\ call = "lib_next" /\ command \in Libraries /\ call' = "none"
      /\ to_client # << >> \/ ~ up
      /\ UNCHANGED << accepted, up, to_server, read_response, carried_out, due, got >>
      /\ UNCHANGED << pending, expected >>
      /\ result'.call = "lib_next"
  BY Zenon DEF AnswerPage, Arrived, SessionInv, OwnCalls, LibraryCalls, Returned
<1>3. read_open' = (outcome # "ended" /\ read_open) /\ Consumed("read")
  BY Zenon DEF AnswerPage
<1>4. /\ read_open /\ Serves(reader[r].due, reader[r].got)
      /\ \A s \in Readers : Active(s) => s = r
  BY <1>1, Zenon DEF LibInv, ReadersOK, Active
<1>5. PICK d \in 0 .. MaxPoints, g \in 0 .. MaxPoints : d = reader[r].due /\ g = reader[r].got /\ g <= d
  BY ReaderIs, Zenon
<1>6. PageAnswer(d, g)
  BY <1>2, <1>4, <1>5, PageArrives, Zenon
<1> HIDE DEF response
<1>7. PICK more \in Nat :
        /\ to_client' \in Seq(Answer)
        /\ \A i \in 1 .. Len(to_client') : to_client'[i].type = "read"
        /\ response.count = more /\ g + more <= d
        /\ outcome = "ended" => to_client' = << >> /\ more = 0 /\ g = d
        /\ outcome = "open" => Stream(to_client', d - (g + more))
        /\ outcome \in { "failed", "ended", "open" }
  <2>1. CASE to_client = << >> /\ response = Null
    <3>1. to_client' = << >> /\ outcome = "failed" /\ response.count = 0
      BY <1>3, <2>1, Zenon DEF Consumed, Outcome, Null, Message
    <3>2. << >> \in Seq(Answer) /\ Len(<< >>) = 0 /\ g + 0 <= d
      BY <1>5, EmptySeq, LibTypes
    <3> QED
      BY <3>1, <3>2
  <2>2. CASE to_client # << >>
    <3> DEFINE more == Smaller(PagePoints, d - g)
    <3>1. /\ Head(to_client).type = "read" /\ response = ReadResponse(more)
          /\ more \in 0 .. PagePoints /\ (more = 0 <=> d = g) /\ g + more <= d
          /\ more # 0 => Stream(Tail(to_client), d - (g + more))
          /\ Tail(to_client) \in Seq(Answer)
          /\ \A i \in 1 .. Len(Tail(to_client)) : Tail(to_client)[i].type = "read"
          /\ more = 0 => Tail(to_client) = << >>
      BY <1>6, <2>2, Zenon DEF PageAnswer, response
    <3>2. response # Null /\ response.count = more
      BY <3>1, Zenon DEF ReadResponse, Message, Null
    <3>3. to_client' = Tail(to_client) /\ more \in Nat
      BY <1>3, <2>2, <3>1, Sizes, SMTT(30) DEF Consumed
    <3> HIDE DEF more
    <3>4. outcome = IF more = 0 THEN "ended" ELSE "open"
      BY <3>2, Zenon DEF Outcome
    <3> QED
      BY <3>1, <3>2, <3>3, <3>4, Zenon
  <2> QED
    BY <1>6, <2>1, <2>2, Zenon DEF PageAnswer, response
<1>8. to_server = << >>
  BY <1>6, Zenon DEF PageAnswer
<1> HIDE DEF outcome
<1>9. read_open' <=> outcome # "ended"
  BY <1>3, <1>4, Zenon
<1>10. SessionInv'
  <2>1. LibraryStep
    BY <1>2, Zenon DEF LibraryStep, ctl
  <2>2. read_open' \in BOOLEAN
    BY <1>3, Zenon
  <2> QED
    BY <1>2, <1>7, <1>8, <1>9, <2>1, <2>2, ReturnKeepsSession, Zenon
<1>11. PICK x \in Reader :
         /\ x.state = outcome /\ x.due = d /\ x.got = g + more
         /\ reader' = [ reader EXCEPT ![r] = x ]
  <2>1. g + more \in 0 .. MaxPoints
    BY <1>5, <1>7, LibTypes, SMTT(30)
  <2>2. [ state |-> outcome, due |-> d, got |-> g + more ] \in Reader
    BY <1>7, <2>1, Zenon DEF Reader
  <2>3. reader' = [ reader EXCEPT ![r] = [ state |-> outcome, due |-> d, got |-> g + more ] ]
    <3>1. reader[r] \in Reader /\ reader \in [ Readers -> Reader ]
      BY LibTypes, Zenon
    <3>2. reader' = [ reader EXCEPT ![r].state = outcome, ![r].got = @ + more ]
      BY <1>1, <1>7, Zenon
    <3>3. [ reader[r] EXCEPT !.state = outcome, !.got = @ + more ]
            = [ state |-> outcome, due |-> d, got |-> g + more ]
      <4>1. reader[r] = [ state |-> "waiting", due |-> d, got |-> g ]
        BY <1>1, <1>5, <3>1, Zenon DEF Reader
      <4>2. [ reader[r] EXCEPT !.state = outcome, !.got = @ + more ]
              = [ [ reader[r] EXCEPT !.state = outcome ] EXCEPT !.got = @ + more ]
        BY Zenon
      <4>3. [ reader[r] EXCEPT !.state = outcome ] = [ state |-> outcome, due |-> d, got |-> g ]
        BY <4>1
      <4>4. [ [ state |-> outcome, due |-> d, got |-> g ] EXCEPT !.got = @ + more ]
              = [ state |-> outcome, due |-> d, got |-> g + more ]
        OBVIOUS
      <4>5. [ [ reader[r] EXCEPT !.state = outcome ] EXCEPT !.got = @ + more ]
              = [ state |-> outcome, due |-> d, got |-> g + more ]
        BY <4>3, <4>4, Zenon
      <4> QED
        BY <4>2, <4>5, Zenon
    <3>4. reader' = [ reader EXCEPT ![r] = [ reader[r] EXCEPT !.state = outcome, !.got = @ + more ] ]
      BY <3>1, <3>2, Zenon DEF Reader
    <3> QED
      BY <3>3, <3>4, Zenon
  <2> QED
    BY <2>2, <2>3, Zenon
<1>12. /\ reader' \in [ Readers -> Reader ] /\ reader'[r] = x /\ IterationIsComplete'
       /\ \A s \in Readers : s # r => reader'[s] = reader[s]
  <2>1. x.state = "ended" => x.got = x.due
    BY <1>5, <1>7, <1>11
  <2> QED
    BY <1>11, <2>1, ReaderSet, Zenon
<1>13. ASSUME NEW s \in Readers
       PROVE  /\ reader'[s].state \notin { "created", "waiting" }
              /\ reader'[s].got <= reader'[s].due
              /\ Active(s)' => s = r /\ outcome = "open"
  <2>1. CASE s = r
    BY <1>7, <1>11, <1>12, <2>1, Zenon DEF Active
  <2>2. CASE s # r
    BY <1>4, <1>12, <2>2, Zenon DEF Active, LibInv, ReadersOK
  <2> QED
    BY <2>1, <2>2, Zenon
<1>14. outcome = "open" => Serves(reader[r].due, reader[r].got)'
  BY <1>2, <1>7, <1>8, <1>11, <1>12, Zenon DEF Serves
<1>15. ReadersOK'
  BY <1>2, <1>9, <1>13, <1>14, Zenon DEF ReadersOK, ctl
<1> QED
  BY <1>2, <1>10, <1>12, <1>15, IteratorKeeps, Zenon

-----------------------------------------------------------------------------
LEMMA InitIInv == ClientsInit => IInv
<1> SUFFICES ASSUME ClientsInit PROVE IInv
  BY Zenon
<1>1. /\ accepted \in 0 .. MaxPoints /\ up = TRUE /\ to_server = << >> /\ to_client = << >>
      /\ read_open = FALSE /\ read_response = 0 /\ call = "none" /\ result = Returned("create", 0)
      /\ carried_out = FALSE /\ due = 0 /\ got = 0
      /\ command \in Commands /\ pc = "begin" /\ total = accepted /\ exit = "running"
      /\ reader = [ r \in Readers |-> NoReader ] /\ pending = 0 /\ expected = 0
  BY Zenon DEF ClientsInit, CtlInit, Init
<1>2. TypeOK
  <2>1. << >> \in Seq(Packet) /\ << >> \in Seq(Answer)
    BY EmptySeq, Zenon
  <2>2. up \in BOOLEAN /\ read_open \in BOOLEAN /\ carried_out \in BOOLEAN
    BY <1>1, Zenon
  <2>3. 0 \in 0 .. PagePoints /\ 0 \in 0 .. MaxPoints /\ 0 \in 0 .. 0
    BY Sizes
  <2> QED
    BY <1>1, <2>1, <2>2, <2>3, Zenon DEF TypeOK
<1>3. SessionInv
  <2>1. Wire /\ SessionRead /\ WriteAnswer /\ OwnCalls /\ WriteResultIsTrue
    BY <1>1, Zenon DEF Wire, SimpleWire, LatestWire, ReadWire, Quiet, SimpleCalls, SessionRead, WriteAnswer,
                OwnCalls, LibraryCalls, WriteResultIsTrue, Returned
  <2> QED
    BY <1>1, <1>2, <2>1, Zenon DEF SessionInv
<1>4. CtlInv
  <2>1. PICK k \in 0 .. MaxBatches : batches \in [ 1 .. k -> 1 .. MaxBatch ]
    BY Zenon DEF ClientsInit, CtlInit
  <2>2. k \in Nat /\ total \in Nat
    BY <1>1, <2>1, Sizes, CtlAssumption
  <2>3. batches \in Seq(1 .. MaxBatch)
    BY <2>1, <2>2, SeqDef, Zenon
  <2>4. CtlTypeOK
    BY <1>1, <1>2, <2>2, <2>3, Zenon DEF CtlTypeOK
  <2> QED
    BY <1>1, <2>4, Zenon DEF CtlInv, WriteCommand, TruncateCommand
<1>5. LibInv
  <2>1. NoReader \in Reader /\ NoReader.state = "none" /\ NoReader.got <= NoReader.due
    BY Sizes DEF NoReader, Reader
  <2>2. ClientsTypeOK
    BY <1>1, <1>4, <2>1, Sizes DEF ClientsTypeOK, CtlInv
  <2> QED
    BY <1>1, <2>1, <2>2, Zenon DEF LibInv, ReadersOK, Active, LibraryAnswer, LibraryWriteIsTrue, IterationIsComplete, Returned
<1> QED
  BY <1>3, <1>4, <1>5, Zenon DEF IInv

LEMMA StutterKeeps ==
  ASSUME IInv, UNCHANGED clients_vars
  PROVE  IInv'
<1> USE DEF IInv, clients_vars, ctl_vars, vars, conn, session, ctl, lib
<1>1. SessionInv'
  BY SessionSame, Zenon
<1>2. CtlInv'
  BY <1>1, Zenon DEF CtlInv, CtlTypeOK, SessionInv, WriteCommand, TruncateCommand
<1>3. LibInv'
  BY <1>2, Zenon DEF CtlInv, LibInv, ClientsTypeOK, ReadersOK, Active, Serves, LibraryAnswer, LibraryWriteIsTrue, IterationIsComplete
<1> QED
  BY <1>1, <1>2, <1>3, Zenon

LEMMA NextIInv ==
  ASSUME OneAtATime, IInv, [ClientsNext]_clients_vars
  PROVE  IInv'
<1>1. CASE CtlNext /\ UNCHANGED lib
  <2>1. CASE AnyCalls
    BY <1>1, <2>1, AnyCallsKeeps, Zenon
  <2>2. CASE execute_command
    BY <1>1, <2>2, ExecuteWriteKeeps, ExecuteReadKeeps, ExecuteTruncateKeeps, ExecuteLatestKeeps, Zenon DEF execute_command
  <2>3. CASE ReceiveSimple /\ UNCHANGED ctl
    BY <1>1, <2>3, ReceiveSimpleKeeps, Zenon
  <2>4. CASE ReceivePage /\ UNCHANGED ctl
    BY <1>1, <2>4, ReceivePageKeeps, Zenon
  <2>5. CASE client_handler_process_message /\ UNCHANGED ctl
    BY <1>1, <2>5, ServerHandles, HandledKeeps, Zenon DEF IInv
  <2>6. CASE Disconnect /\ UNCHANGED ctl
    BY <1>1, <2>6, DisconnectKeeps, Zenon
  <2> QED
    BY <1>1, <2>1, <2>2, <2>3, <2>4, <2>5, <2>6, Zenon DEF CtlNext, Step
<1>2. CASE Program
  <2>1. ASSUME NEW count \in 0 .. MaxBatch, write(count) PROVE IInv'
    BY <2>1, LibWriteKeeps, Zenon
  <2>2. CASE truncate
    <3>1. 0 \in 0 .. MaxBatch
      BY Sizes
    <3> QED
      BY <2>2, <3>1, AskKeeps, Zenon DEF truncate
  <2>3. CASE latest
    <3>1. PICK n \in Latest : Ask("lib_latest", "latest", n)
      BY <2>3, Zenon DEF latest
    <3>2. n \in 0 .. MaxPoints
      BY LatestType, Zenon DEF IInv
    <3> QED
      BY <3>1, <3>2, AskKeeps, Zenon
  <2>4. ASSUME NEW r \in Readers, read(r) \/ Start(r) \/ Read(r) \/ Advanced(r) \/ Drop(r) PROVE IInv'
    BY <2>4, CreateKeeps, StartKeeps, ReadKeeps, AdvancedKeeps, DropKeeps, Zenon
  <2>5. CASE Close
    BY <2>5, CloseKeeps, Zenon
  <2> QED
    BY <1>2, <2>1, <2>2, <2>3, <2>4, <2>5, Zenon DEF Program
<1>3. CASE Answered
  BY <1>3, AnswerWriteKeeps, AnswerTruncateKeeps, AnswerLatestKeeps, AnswerPageKeeps, Zenon DEF Answered
<1>4. CASE UNCHANGED clients_vars
  BY <1>4, StutterKeeps, Zenon
<1> QED
  BY <1>1, <1>2, <1>3, <1>4, Zenon DEF ClientsNext

LEMMA ClientsInvariant == ASSUME OneAtATime PROVE ClientsSpec => []IInv
BY InitIInv, NextIInv, PTL DEF ClientsSpec

-----------------------------------------------------------------------------
LEMMA IInvTypes == IInv => ClientsTypeOK
BY Zenon DEF IInv, LibInv

LEMMA IInvInStep == IInv => InStep
<1> SUFFICES ASSUME IInv PROVE InStep
  BY Zenon
<1>1. Wire
  BY Zenon DEF IInv, SessionInv
<1>2. call = "none" /\ ~ read_open => to_server = << >> /\ to_client = << >>
  BY <1>1, Zenon DEF Wire, Quiet
<1>3. read_open => \A i \in 1 .. Len(to_client) : to_client[i].type = "read"
  <2>1. ASSUME NEW m, Sent(m) PROVE \A i \in 1 .. Len(to_client) : to_client[i].type = "read"
    BY <2>1 DEF Sent
  <2> QED
    BY <1>1, <2>1, Zenon DEF Wire, ReadWire
<1>4. ASSUME call \in SimpleCalls
      PROVE  /\ Len(to_server) + Len(to_client) <= 1
             /\ \A i \in 1 .. Len(to_client) : to_client[i].type = "simple"
  <2>1. CASE Quiet
    BY <2>1 DEF Quiet
  <2>2. ASSUME NEW m, Sent(m)
        PROVE  /\ Len(to_server) + Len(to_client) <= 1
               /\ \A i \in 1 .. Len(to_client) : to_client[i].type = "simple"
    BY <2>2, Single DEF Sent
  <2>3. ASSUME NEW s, Back(Message("simple", s))
        PROVE  /\ Len(to_server) + Len(to_client) <= 1
               /\ \A i \in 1 .. Len(to_client) : to_client[i].type = "simple"
    BY <2>3, Single, Fields DEF Back
  <2> QED
    BY <1>1, <1>4, <2>1, <2>2, <2>3, Zenon DEF Wire, SimpleWire
<1> QED
  BY <1>2, <1>3, <1>4, Zenon DEF InStep, SimpleCalls

LEMMA IInvWrite == IInv => WriteResultIsTrue
BY Zenon DEF IInv, SessionInv

LEMMA IInvRead == IInv => ReadIsComplete
BY Zenon DEF IInv, SessionInv, SessionRead, ReadIsComplete

LEMMA IInvSuccess == IInv => SuccessIsTrue
BY Zenon DEF IInv, CtlInv, WriteCommand, TruncateCommand, SuccessIsTrue

LEMMA IInvLibraryWrite == IInv => LibraryWriteIsTrue
BY Zenon DEF IInv, LibInv

LEMMA IInvIteration == IInv => IterationIsComplete
BY Zenon DEF IInv, LibInv

LEMMA IInvOneActive == IInv => OneActiveRead
BY Zenon DEF IInv, LibInv, ReadersOK, Active, OneActiveRead

-----------------------------------------------------------------------------
(* The state of the session, the commands and the libraries is well        *)
(* formed.                                                                 *)
THEOREM ClientsTypes == ASSUME OneAtATime PROVE ClientsSpec => []ClientsTypeOK
BY ClientsInvariant, IInvTypes, PTL

(* session.c, pyshaka.py and ShakaDbSession.cs: no call is given the       *)
(* answer to an earlier one, wherever the connection breaks.               *)
THEOREM EndsStayInStep == ASSUME OneAtATime PROVE ClientsSpec => []InStep
BY ClientsInvariant, IInvInStep, PTL

(* session_write: 0 is returned only for points the server has taken.      *)
THEOREM WriteResults == ASSUME OneAtATime PROVE ClientsSpec => []WriteResultIsTrue
BY ClientsInvariant, IInvWrite, PTL

(* session_read_next: a read that ends on a standing connection has        *)
(* delivered every point, however many packets it took.                    *)
THEOREM ReadsComplete == ASSUME OneAtATime PROVE ClientsSpec => []ReadIsComplete
BY ClientsInvariant, IInvRead, PTL

(* execute_write: success is reported when every batch was taken, for any  *)
(* number of batches; execute_truncate: when the server carried it out.    *)
THEOREM CommandsTellTheTruth == ASSUME OneAtATime PROVE ClientsSpec => []SuccessIsTrue
BY ClientsInvariant, IInvSuccess, PTL

(* write of the libraries: all requests of a write that does not raise     *)
(* were carried out.                                                       *)
THEOREM LibraryWrites == ASSUME OneAtATime PROVE ClientsSpec => []LibraryWriteIsTrue
BY ClientsInvariant, IInvLibraryWrite, PTL

(* The iterators: one that ends has yielded every point.                   *)
THEOREM IterationsComplete == ASSUME OneAtATime PROVE ClientsSpec => []IterationIsComplete
BY ClientsInvariant, IInvIteration, PTL

(* "Multiple active reads are not supported": in programs that create      *)
(* their Python iterators one at a time they never happen; in others       *)
(* MCClientsReads.cfg shows that they do.                                  *)
THEOREM OneReadAtATime == ASSUME OneAtATime PROVE ClientsSpec => []OneActiveRead
BY ClientsInvariant, IInvOneActive, PTL
=============================================================================
