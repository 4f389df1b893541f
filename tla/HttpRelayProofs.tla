--------------------------- MODULE HttpRelayProofs --------------------------
(***************************************************************************)
(* Safety of HttpRelay for any heads, bodies and reads, and for anything   *)
(* the uninitialised lengths of write_tun_http may hold.                   *)
(***************************************************************************)
EXTENDS HttpRelay, SequenceTheorems, TLAPS

\* A message is a sequence of its length, of positions.
LEMMA MessageType ==
  ASSUME NEW first \in Nat, NEW len \in Nat
  PROVE  Message(first, len) \in Seq(Nat) /\ Len(Message(first, len)) = len
<1>1. \A j \in 1..len : first + j - 1 \in Nat
  OBVIOUS
<1>2. Message(first, len) \in [1..len -> Nat]
  BY <1>1 DEF Message
<1>3. QED
  BY <1>2 DEF Message

\* Its bytes are consecutive positions.
LEMMA MessageProperties ==
  ASSUME NEW first \in Nat, NEW len \in Nat
  PROVE  /\ Message(first, len) \in Seq(Nat)
         /\ Len(Message(first, len)) = len
         /\ \A j \in 1..len : Message(first, len)[j] = first + j - 1
<1>1. \A j \in 1..len : Message(first, len)[j] = first + j - 1
  BY DEF Message
<1>2. QED
  BY <1>1, MessageType

\* Adjacent runs of positions join.
LEMMA MessageConcat ==
  ASSUME NEW first \in Nat, NEW m \in Nat, NEW n \in Nat
  PROVE  Message(first, m) \o Message(first + m, n) = Message(first, m + n)
<1> DEFINE s == Message(first, m)
           t == Message(first + m, n)
           u == Message(first, m + n)
<1>1. /\ s \in Seq(Nat) /\ Len(s) = m
      /\ \A j \in 1..m : s[j] = first + j - 1
  BY MessageProperties
<1>2. /\ t \in Seq(Nat) /\ Len(t) = n
      /\ \A j \in 1..n : t[j] = first + m + j - 1
  <2>1. first + m \in Nat
    OBVIOUS
  <2>2. QED
    BY <2>1, MessageProperties
<1>3. /\ u \in Seq(Nat) /\ Len(u) = m + n
      /\ \A j \in 1..(m + n) : u[j] = first + j - 1
  <2>1. m + n \in Nat
    OBVIOUS
  <2>2. QED
    BY <2>1, MessageProperties
<1> HIDE DEF s, t, u
<1>4. /\ s \o t \in Seq(Nat) /\ Len(s \o t) = m + n
      /\ \A j \in 1..(m + n) : (s \o t)[j] = IF j <= m THEN s[j] ELSE t[j - m]
  BY <1>1, <1>2, ConcatProperties
<1>5. ASSUME NEW j \in 1..(m + n)
      PROVE  (s \o t)[j] = u[j]
  <2>1. CASE j <= m
    BY <1>1, <1>3, <1>4, <2>1
  <2>2. CASE ~(j <= m)
    <3>1. j - m \in 1..n
      BY <2>2
    <3>2. t[j - m] = first + m + (j - m) - 1
      BY <1>2, <3>1
    <3>3. (s \o t)[j] = t[j - m]
      BY <1>4, <2>2
    <3>4. u[j] = first + j - 1
      BY <1>3
    <3>5. first + m + (j - m) - 1 = first + j - 1
      OBVIOUS
    <3>6. QED
      BY <3>2, <3>3, <3>4, <3>5
  <2>3. QED
    BY <2>1, <2>2
<1>6. s \o t = u
  BY <1>3, <1>4, <1>5, SeqEqual
<1>7. QED
  BY <1>6 DEF s, t, u

\* Any part of a run of positions is one.
LEMMA MessageSubSeq ==
  ASSUME NEW first \in Nat, NEW len \in Nat,
         NEW m \in 1..(len + 1), NEW n \in 0..len
  PROVE  SubSeq(Message(first, len), m, n)
           = Message(first + m - 1, IF m <= n THEN n - m + 1 ELSE 0)
<1> DEFINE s == Message(first, len)
           size == IF m <= n THEN n - m + 1 ELSE 0
           t == Message(first + m - 1, size)
<1>1. /\ s \in Seq(Nat) /\ Len(s) = len
      /\ \A j \in 1..len : s[j] = first + j - 1
  BY MessageProperties
<1>2. /\ t \in Seq(Nat) /\ Len(t) = size
      /\ \A j \in 1..size : t[j] = first + m - 1 + j - 1
  <2>1. first + m - 1 \in Nat /\ size \in Nat
    OBVIOUS
  <2> HIDE DEF size
  <2>2. QED
    BY <2>1, MessageProperties
<1> HIDE DEF s, t
<1>3. \A i \in m..n : s[i] \in Nat
  BY <1>1
<1>4. /\ SubSeq(s, m, n) \in Seq(Nat)
      /\ Len(SubSeq(s, m, n)) = size
      /\ \A i \in 1..(n - m + 1) : SubSeq(s, m, n)[i] = s[m + i - 1]
  BY <1>3, SubSeqProperties
<1>5. \A i \in 1..size : SubSeq(s, m, n)[i] = t[i]
  BY <1>1, <1>2, <1>4
<1>6. SubSeq(s, m, n) = t
  BY <1>2, <1>4, <1>5, SeqEqual
<1>7. QED
  BY <1>6 DEF s, t

\* The constants are numbers and sets of numbers.
LEMMA Sizes == /\ BufSize \in Nat
               /\ Heads \subseteq Nat
               /\ Bodies \subseteq Nat
               /\ Garbage \subseteq Int
  BY SizesAssumption, GarbageAssumption DEF SizesAssumption, GarbageAssumption

\* TypeOK strengthened: a message is at least as long as its head.
Inv == /\ TypeOK
       /\ \A i \in 1..Len(sent) : heads[i] <= Len(sent[i])

\* Whatever is in the data, pop_front_xdpi_head gives two numbers.
LEMMA FoundType ==
  ASSUME Inv, data # <<>>, NEW found \in Found
  PROVE  found.head \in Int /\ found.body \in Int
<1> DEFINE starting == {i \in 1..Len(sent) : sent[i][1] = data[1]}
<1>1. CASE starting = {}
  BY <1>1, Sizes DEF Found, Inv, TypeOK
<1>2. CASE starting # {}
  <2>1. PICK i \in 1..Len(sent) : found = ReadHead(i)
    BY <1>2 DEF Found
  <2>2. heads[i] \in Nat
    <3>1. i \in 1..Len(heads) /\ heads \in Seq(Heads)
      BY DEF Inv, TypeOK
    <3>2. heads[i] \in Heads
      BY <3>1, ElementOfSeq
    <3>3. QED
      BY <3>2, Sizes
  <2>3. Len(sent[i]) - heads[i] \in Nat
    <3>1. Len(sent[i]) \in Nat
      BY DEF Inv, TypeOK
    <3>2. QED
      BY <2>2, <3>1 DEF Inv
  <2>4. QED
    BY <2>1, <2>2, <2>3 DEF ReadHead, Inv, TypeOK
<1>3. QED
  BY <1>1, <1>2

\* Nothing is sent and nothing held before the first session.
LEMMA InitInv == Init => Inv
  BY Sizes DEF Init, Inv, TypeOK

\* A message sent is as long as its head and its body.
LEMMA SendInv ==
  ASSUME Inv, NEW h \in Heads, NEW b \in Bodies, Send(h, b)
  PROVE  Inv'
<1>1. h \in Nat /\ b \in Nat /\ h + b \in Nat
  BY Sizes
<1>2. Message(wire, h + b) \in Seq(Nat) /\ Len(Message(wire, h + b)) = h + b
  BY <1>1, MessageType DEF Inv, TypeOK
<1> DEFINE msg == Message(wire, h + b)
<1> HIDE DEF msg
<1>3. msg \in Seq(Nat) /\ Len(msg) = h + b
  BY <1>2 DEF msg
<1>4. /\ sent' = Append(sent, msg) /\ heads' = Append(heads, h)
      /\ wire' = wire + h + b
      /\ UNCHANGED <<rcvd, relay, data, lengths, delivered, pc>>
  BY DEF Send, msg
<1>5. /\ sent' \in Seq(Seq(Nat)) /\ Len(sent') = Len(sent) + 1
      /\ \A i \in 1..Len(sent) : sent'[i] = sent[i]
      /\ sent'[Len(sent) + 1] = msg
  BY <1>3, <1>4, AppendProperties DEF Inv, TypeOK
<1>6. /\ heads' \in Seq(Heads) /\ Len(heads') = Len(heads) + 1
      /\ \A i \in 1..Len(heads) : heads'[i] = heads[i]
      /\ heads'[Len(heads) + 1] = h
  BY <1>4, AppendProperties DEF Inv, TypeOK
<1>7. TypeOK'
  BY <1>1, <1>4, <1>5, <1>6 DEF Inv, TypeOK, lengths
<1>8. \A i \in 1..Len(sent') : heads'[i] <= Len(sent'[i])
  <2> TAKE i \in 1..Len(sent')
  <2>1. Len(sent) = Len(heads) /\ Len(sent) \in Nat
    BY DEF Inv, TypeOK
  <2>2. CASE i = Len(sent) + 1
    BY <1>1, <1>3, <1>5, <1>6, <2>1, <2>2
  <2>3. CASE i \in 1..Len(sent)
    BY <1>5, <1>6, <2>1, <2>3 DEF Inv
  <2>4. QED
    BY <1>5, <2>1, <2>2, <2>3
<1>9. QED
  BY <1>7, <1>8 DEF Inv

\* A read that would not fit behind what is kept ends the session instead.
LEMMA ReceiveInv ==
  ASSUME Inv, NEW n \in 1..BufSize, Receive(n)
  PROVE  Inv'
<1>1. n \in Nat /\ rcvd \in Nat /\ rcvd + n \in 0..wire
  BY Sizes DEF Receive, Inv, TypeOK
<1> DEFINE chunk == Message(rcvd, n)
<1> HIDE DEF chunk
<1>2. chunk \in Seq(Nat) /\ Len(chunk) = n
  BY <1>1, MessageType DEF chunk
<1>3. relay \o chunk \in Seq(Nat) /\ Len(relay \o chunk) = Len(relay) + n
  <2>1. relay \in Seq(Nat)
    BY DEF Inv, TypeOK
  <2>2. relay \o chunk \in Seq(Nat) /\ Len(relay \o chunk) = Len(relay) + Len(chunk)
    BY <1>2, <2>1, ConcatProperties
  <2>3. QED
    BY <1>2, <2>2
<1>4. /\ rcvd' = rcvd + n
      /\ relay' = <<>>
      /\ UNCHANGED <<sent, heads, wire, delivered>>
      /\ \/ /\ pc' = "down"
            /\ UNCHANGED <<data, lengths>>
         \/ /\ (relay = <<>> \/ n + Len(relay) <= 2 * BufSize)
            /\ pc' = "scan" /\ data' = relay \o chunk
            /\ headLength' \in Garbage /\ bodyLength' \in Garbage
  <2>1. \/ relay # <<>> /\ n + Len(relay) > 2 * BufSize
        \/ relay = <<>>
        \/ n + Len(relay) <= 2 * BufSize
    BY <1>1, Sizes DEF Inv, TypeOK
  <2>2. QED
    BY <2>1 DEF Receive, chunk
<1>5. relay = <<>> \/ n + Len(relay) <= 2 * BufSize => Len(relay) + n <= 2 * BufSize
  <2>1. CASE relay = <<>>
    <3>1. Len(relay) = 0
      BY <2>1
    <3>2. QED
      BY <1>1, <3>1, Sizes
  <2>2. CASE n + Len(relay) <= 2 * BufSize
    <3>1. Len(relay) \in Nat
      BY DEF Inv, TypeOK
    <3>2. QED
      BY <1>1, <2>2, <3>1, Sizes
  <2>3. QED
    BY <2>1, <2>2
<1>6. data' \in Seq(Nat) /\ Len(data') <= 2 * BufSize
  BY <1>3, <1>4, <1>5 DEF Inv, TypeOK
<1>7. headLength' \in Int /\ bodyLength' \in Int
  BY <1>4, Sizes DEF Inv, TypeOK, lengths
<1>8. QED
  BY <1>1, <1>4, <1>6, <1>7, Sizes DEF Inv, TypeOK

\* What is taken off the front leaves less to hold.
LEMMA ParseInv == ASSUME Inv, Parse PROVE Inv'
<1>1. PICK found \in Found : Keep(found) \/ Deliver(found)
  BY DEF Parse
<1>2. data # <<>> /\ pc = "scan"
  BY DEF Parse
<1>3. found.head \in Int /\ found.body \in Int
  BY <1>2, FoundType
<1>4. CASE Keep(found)
  <2>1. /\ relay' = data /\ data' = <<>> /\ pc' = "loop"
        /\ headLength' = headLength /\ bodyLength' = bodyLength
        /\ UNCHANGED <<sent, heads, wire, rcvd, delivered>>
    BY <1>4 DEF Keep, Finish, lengths
  <2>2. data' \in Seq(Nat) /\ Len(data') <= 2 * BufSize
    BY <2>1, Sizes
  <2>3. QED
    BY <2>1, <2>2 DEF Inv, TypeOK
<1>5. CASE Deliver(found)
  <2> DEFINE len == found.head + found.body
  <2>1. len \in 0..Len(data)
    BY <1>3, <1>5 DEF Deliver, Ready
  <2>2. \A i \in 1..Len(data) : data[i] \in Nat
    BY DEF Inv, TypeOK
  <2>3. Len(data) \in Nat /\ len \in 0..Len(data)
    BY <1>3, <2>1 DEF Inv, TypeOK
  <2>4. /\ data' = SubSeq(data, len + 1, Len(data))
        /\ delivered' = Append(delivered, SubSeq(data, 1, len))
        /\ headLength' = found.head /\ bodyLength' = found.body
        /\ UNCHANGED <<sent, heads, wire, rcvd, relay, pc>>
    BY <1>5 DEF Deliver
  <2> HIDE DEF len
  <2>5. /\ SubSeq(data, 1, len) \in Seq(Nat)
        /\ SubSeq(data, len + 1, Len(data)) \in Seq(Nat)
        /\ Len(SubSeq(data, len + 1, Len(data))) <= Len(data)
    BY <2>2, <2>3, SubSeqProperties
  <2>6. delivered' \in Seq(Seq(Nat))
    BY <2>4, <2>5, AppendProperties DEF Inv, TypeOK
  <2>7. data' \in Seq(Nat) /\ Len(data') <= 2 * BufSize
    <3>1. data' \in Seq(Nat) /\ Len(data') <= Len(data)
      BY <2>4, <2>5
    <3>2. Len(data') \in Nat
      BY <3>1, LenProperties
    <3>3. QED
      BY <2>3, <3>1, <3>2, Sizes DEF Inv, TypeOK
  <2>8. QED
    BY <1>3, <2>4, <2>6, <2>7 DEF Inv, TypeOK
<1>6. QED
  BY <1>1, <1>4, <1>5

\* Every step keeps the types.
LEMMA NextInv == ASSUME Inv, [Next]_vars PROVE Inv'
<1>1. ASSUME NEW h \in Heads, NEW b \in Bodies, Send(h, b) PROVE Inv'
  BY <1>1, SendInv
<1>2. CASE Connect \/ Leave
  <2>1. CASE Connect
    <3>1. wire \in 0..wire /\ Len(<<>>) <= 2 * BufSize
      BY Sizes DEF Inv, TypeOK
    <3>2. QED
      BY <2>1, <3>1 DEF Connect, Inv, TypeOK, lengths
  <2>2. CASE Leave
    BY <2>2 DEF Leave, Inv, TypeOK, lengths
  <2>3. QED
    BY <1>2, <2>1, <2>2
<1>3. ASSUME NEW n \in 1..BufSize, Receive(n) PROVE Inv'
  BY <1>3, ReceiveInv
<1>4. CASE ScanDone
  <2>1. /\ data' = data /\ pc' = "loop"
        /\ headLength' = headLength /\ bodyLength' = bodyLength
        /\ UNCHANGED <<sent, heads, wire, rcvd, relay, delivered>>
    BY <1>4 DEF ScanDone, Finish, lengths
  <2>2. QED
    BY <2>1 DEF Inv, TypeOK
<1>5. CASE Parse
  BY <1>5, ParseInv
<1>6. CASE UNCHANGED vars
  BY <1>6 DEF vars, Inv, TypeOK, lengths
<1>7. QED
  BY <1>1, <1>2, <1>3, <1>4, <1>5, <1>6 DEF Next

\* The buffers of the HTTP direction are never written past their end, although
\* the lengths the parser works with may be anything.
THEOREM TypeCorrect == Spec => []TypeOK
<1>1. Inv /\ [Next]_vars => Inv'
  BY NextInv
<1>2. Inv => TypeOK
  BY DEF Inv
<1>3. QED
  BY <1>1, <1>2, InitInv, PTL DEF Spec

-----------------------------------------------------------------------------
(* Delivery, when no read ends inside a head.                              *)

Starts(i, p) == sent[i][1] = p
End(i) == sent[i][1] + Len(sent[i])

\* A place where a message starts, now or with the next Send.
Boundary(p) == p = wire \/ \E i \in 1..Len(sent) : Starts(i, p)

\* The messages lie one behind the other, each longer than its head.
SentOK == \A i \in 1..Len(sent) :
            /\ sent[i][1] \in Nat
            /\ Len(sent[i]) \in Nat
            /\ heads[i] \in Nat \ 0..3
            /\ heads[i] < Len(sent[i])
            /\ sent[i] = Message(sent[i][1], Len(sent[i]))
            /\ End(i) <= wire
            /\ Boundary(End(i))

\* s is the last Len(s) bytes that were read, from the start of a message on.
LastRead(s) == /\ Len(s) <= rcvd
            /\ s = Message(rcvd - Len(s), Len(s))
            /\ Boundary(rcvd - Len(s))

HeldOK == /\ pc = "scan" => LastRead(data) /\ relay = <<>>
          /\ pc = "loop" => LastRead(relay)
          /\ pc # "scan" => data = <<>>

\* The inductive invariant.  That no read has ended inside a head makes both lengths
\* the parser works with true as soon as there is a line, whatever they held before.
WholeInv == /\ Inv
            /\ SentOK
            /\ HeldOK
            /\ pc # "down" => ~InsideHead(rcvd)
            /\ NothingHeldBack
            /\ OnlyWholePackets

\* The bytes being scanned begin where a message starts.
LEMMA ScanAtStart ==
  ASSUME WholeInv, pc = "scan", data # <<>>
  PROVE  /\ Len(data) \in Nat \ {0}
         /\ data[1] = rcvd - Len(data)
         /\ rcvd \in Nat
         /\ \E i \in 1..Len(sent) : Starts(i, data[1])
<1>1. /\ Len(data) \in Nat \ {0}
      /\ rcvd \in Nat /\ wire \in Nat /\ rcvd <= wire
  BY EmptySeq DEF WholeInv, Inv, TypeOK
<1>2. LastRead(data)
  BY DEF WholeInv, HeldOK
<1>3. data[1] = rcvd - Len(data)
  <2>1. rcvd - Len(data) \in Nat
    BY <1>1, <1>2 DEF LastRead
  <2>2. Message(rcvd - Len(data), Len(data))[1] = rcvd - Len(data) + 1 - 1
    BY <1>1, <2>1, MessageProperties
  <2>3. QED
    BY <1>1, <1>2, <2>1, <2>2 DEF LastRead
<1>4. rcvd - Len(data) # wire
  BY <1>1
<1>5. QED
  BY <1>1, <1>2, <1>3, <1>4 DEF LastRead, Boundary

\* The parser finds a message ready exactly when all of it is there, and then its
\* length is true.
LEMMA FoundIsTrue ==
  ASSUME WholeInv, pc = "scan", data # <<>>, NEW found \in Found
  PROVE  \E i \in 1..Len(sent) :
           /\ Starts(i, data[1])
           /\ Ready(found) => /\ Len(sent[i]) <= Len(data)
                              /\ found.head + found.body = Len(sent[i])
           /\ ~Ready(found) => Len(data) < Len(sent[i])
<1> DEFINE starting == {i \in 1..Len(sent) : sent[i][1] = data[1]}
<1>1. starting # {}
  BY ScanAtStart DEF Starts
<1>2. PICK i \in 1..Len(sent) : sent[i][1] = data[1] /\ found = ReadHead(i)
  BY <1>1 DEF Found
<1>3. /\ Len(data) \in Nat \ {0} /\ Len(data) = rcvd - sent[i][1]
      /\ sent[i][1] \in Nat /\ rcvd \in Nat
  BY <1>2, ScanAtStart DEF WholeInv, SentOK
<1>4. heads[i] \in Nat \ 0..3 /\ Len(sent[i]) \in Nat /\ heads[i] < Len(sent[i])
  BY DEF WholeInv, SentOK
<1>5. ~(Len(data) \in 2..(heads[i] - 1))
  BY <1>3 DEF WholeInv, InsideHead
<1>6. CASE Len(data) = 1
  <2>1. ~found.line
    <3>1. found.line = (Len(data) >= 2)
      BY <1>2, Zenon DEF ReadHead
    <3>2. ~(Len(data) >= 2)
      BY <1>6
    <3>3. QED
      BY <3>1, <3>2, Zenon
  <2>2. QED
    BY <1>2, <1>4, <1>6, <2>1 DEF Ready, Starts
<1>7. CASE Len(data) # 1
  <2>1. Len(data) >= heads[i] /\ Len(data) >= heads[i] - 1 /\ Len(data) >= 2
    BY <1>3, <1>4, <1>5, <1>7
  <2>2. found = [line |-> TRUE, head |-> heads[i], body |-> Len(sent[i]) - heads[i]]
    BY <1>2, <2>1 DEF ReadHead
  <2>3. found.head + found.body = Len(sent[i]) /\ found.head # 0 /\ found.line
    BY <1>4, <2>2
  <2>4. QED
    BY <1>2, <1>3, <1>4, <2>3, SMTT(30) DEF Ready, Starts
<1>8. QED
  BY <1>6, <1>7

\* Steps that send nothing leave the layout of the wire alone.
LEMMA SentUnchanged == SentOK /\ UNCHANGED <<sent, heads, wire>> => SentOK'
  BY DEF SentOK, Boundary, Starts, End

\* The step lemmas are about what the types do not say.
Rest == SentOK /\ HeldOK /\ (pc # "down" => ~InsideHead(rcvd)) /\ NothingHeldBack
          /\ OnlyWholePackets

\* The invariant holds before the first session.
LEMMA WholeInit == Init => WholeInv
<1> SUFFICES ASSUME Init PROVE WholeInv
  OBVIOUS
<1>1. Inv
  BY InitInv
<1>2. Len(sent) = 0 /\ Len(delivered) = 0
  BY DEF Init
<1>3. SentOK /\ OnlyWholePackets
  BY <1>2 DEF SentOK, OnlyWholePackets
<1>4. HeldOK /\ NothingHeldBack /\ pc = "down"
  BY DEF Init, HeldOK, NothingHeldBack
<1>5. QED
  BY <1>1, <1>3, <1>4 DEF WholeInv

\* A message sent lies at the end of the wire and moves no other.
LEMMA SendAppends ==
  ASSUME WholeInv, NEW h \in Heads, NEW b \in Bodies, Send(h, b)
  PROVE  /\ Len(sent') = Len(sent) + 1 /\ Len(sent) \in Nat
         /\ \A i \in 1..Len(sent) : sent'[i] = sent[i] /\ heads'[i] = heads[i]
         /\ sent'[Len(sent) + 1] = Message(wire, h + b)
         /\ heads'[Len(sent) + 1] = h
         /\ Message(wire, h + b)[1] = wire
         /\ Len(Message(wire, h + b)) = h + b
         /\ h \in Nat \ 0..3 /\ b \in Nat \ {0}
         /\ wire' = wire + h + b
         /\ wire \in Nat
<1>1. h \in Nat \ 0..3 /\ b \in Nat \ {0}
  BY SizesAssumption DEF SizesAssumption
<1>2. /\ sent \in Seq(Seq(Nat)) /\ wire \in Nat
      /\ heads \in Seq(Heads) /\ Len(heads) = Len(sent)
  BY DEF WholeInv, Inv, TypeOK
<1>3. /\ Message(wire, h + b) \in Seq(Nat)
      /\ Len(Message(wire, h + b)) = h + b
      /\ Message(wire, h + b)[1] = wire
  <2>1. h + b \in Nat /\ 1 \in 1..(h + b)
    BY <1>1
  <2>2. Message(wire, h + b)[1] = wire + 1 - 1
    BY <1>2, <2>1, MessageProperties
  <2>3. wire + 1 - 1 = wire
    BY <1>2
  <2>4. Message(wire, h + b) \in Seq(Nat) /\ Len(Message(wire, h + b)) = h + b
    BY <1>2, <2>1, MessageType
  <2>5. QED
    BY <2>2, <2>3, <2>4
<1>4. /\ Len(sent') = Len(sent) + 1
      /\ \A i \in 1..Len(sent) : sent'[i] = sent[i]
      /\ sent'[Len(sent) + 1] = Message(wire, h + b)
  BY <1>2, <1>3, AppendProperties DEF Send
<1>5. /\ \A i \in 1..Len(sent) : heads'[i] = heads[i]
      /\ heads'[Len(sent) + 1] = h
  BY <1>2, AppendProperties DEF Send
<1>6. QED
  BY <1>1, <1>2, <1>3, <1>4, <1>5 DEF Send

\* Sending a message keeps the invariant.
LEMMA WholeSend ==
  ASSUME WholeInv, NEW h \in Heads, NEW b \in Bodies, Send(h, b)
  PROVE  Rest'
<1>0. /\ Len(sent') = Len(sent) + 1 /\ Len(sent) \in Nat
      /\ \A i \in 1..Len(sent) : sent'[i] = sent[i] /\ heads'[i] = heads[i]
      /\ sent'[Len(sent) + 1] = Message(wire, h + b)
      /\ heads'[Len(sent) + 1] = h
      /\ Message(wire, h + b)[1] = wire
      /\ Len(Message(wire, h + b)) = h + b
      /\ h \in Nat \ 0..3 /\ b \in Nat \ {0}
      /\ wire' = wire + h + b
      /\ wire \in Nat
  BY SendAppends
<1>1. \A p : Boundary(p) => Boundary(p)'
  <2> SUFFICES ASSUME NEW p, Boundary(p) PROVE Boundary(p)'
    OBVIOUS
  <2>1. CASE p = wire
    <3>1. Len(sent) + 1 \in 1..Len(sent') /\ sent'[Len(sent) + 1][1] = wire
      BY <1>0, <1>0
    <3>2. QED
      BY <1>0, <2>1, <3>1 DEF Boundary, Starts
  <2>2. ASSUME NEW i \in 1..Len(sent), Starts(i, p) PROVE Boundary(p)'
    BY <1>0, <2>2 DEF Boundary, Starts
  <2>3. QED
    BY <1>0, <2>1, <2>2 DEF Boundary
<1>2. UNCHANGED <<rcvd, relay, data, delivered, pc>>
  BY DEF Send
<1>3. SentOK'
  <2> SUFFICES ASSUME NEW i \in 1..Len(sent')
               PROVE  /\ sent'[i][1] \in Nat
                      /\ Len(sent'[i]) \in Nat
                      /\ heads'[i] \in Nat \ 0..3
                      /\ heads'[i] < Len(sent'[i])
                      /\ sent'[i] = Message(sent'[i][1], Len(sent'[i]))
                      /\ End(i)' <= wire'
                      /\ Boundary(End(i))'
    BY DEF SentOK
  <2>1. CASE i \in 1..Len(sent)
    <3>1. sent'[i] = sent[i] /\ End(i)' = End(i) /\ heads'[i] = heads[i]
      BY <1>0, <2>1 DEF End
    <3>2. /\ sent[i][1] \in Nat
          /\ Len(sent[i]) \in Nat
          /\ heads[i] \in Nat \ 0..3
          /\ heads[i] < Len(sent[i])
          /\ sent[i] = Message(sent[i][1], Len(sent[i]))
          /\ End(i) <= wire
          /\ Boundary(End(i))
      BY <1>0, <2>1 DEF WholeInv, SentOK
    <3>3. End(i) \in Nat
      BY <1>0, <3>2, SMTT(30) DEF End
    <3>4. End(i)' <= wire'
      BY <1>0, <3>1, <3>2, <3>3
    <3>5. Boundary(End(i))'
      BY <1>1, <3>1, <3>2 DEF Boundary, Starts
    <3>6. QED
      BY <1>0, <3>1, <3>2, <3>4, <3>5
  <2>2. CASE i = Len(sent) + 1
    <3>1. /\ sent'[i] = Message(wire, h + b) /\ sent'[i][1] = wire
          /\ Len(sent'[i]) = h + b /\ heads'[i] = h
      BY <1>0, <2>2
    <3>2. End(i)' = wire' /\ wire' \in Nat
      BY <1>0, <3>1, SMTT(30) DEF End
    <3>3. Boundary(End(i))'
      BY <1>0, <3>2 DEF Boundary
    <3>4. QED
      BY <1>0, <3>1, <3>2, <3>3
  <2>3. QED
    BY <1>0, <2>1, <2>2
<1>4. HeldOK'
  BY <1>0, <1>1, <1>2 DEF WholeInv, HeldOK, LastRead
<1>5. NothingHeldBack'
  BY <1>0, <1>2 DEF WholeInv, NothingHeldBack
<1>6. pc # "down" => ~InsideHead(rcvd)'
  <2> SUFFICES ASSUME pc # "down", NEW i \in 1..Len(sent')
               PROVE  ~(rcvd - sent'[i][1] \in 2..(heads'[i] - 1))
    BY <1>0, <1>2 DEF InsideHead
  <2>1. CASE i \in 1..Len(sent)
    BY <1>0, <2>1 DEF WholeInv, InsideHead
  <2>2. CASE i = Len(sent) + 1
    <3>1. rcvd \in Nat /\ rcvd <= wire /\ sent'[i][1] = wire
      BY <1>0, <2>2, SMTT(30) DEF WholeInv, Inv, TypeOK
    <3>2. QED
      BY <1>0, <3>1
  <2>3. QED
    BY <1>0, <2>1, <2>2
<1>7. OnlyWholePackets'
  BY <1>0, <1>2 DEF WholeInv, OnlyWholePackets
<1>8. QED
  BY <1>0, <1>2, <1>3, <1>4, <1>5, <1>6, <1>7 DEF Rest, InsideHead

\* A new session starts at the end of the wire, past every message.
LEMMA WholeConnect == ASSUME WholeInv, Connect PROVE Rest'
<1>1. /\ relay' = <<>> /\ rcvd' = wire /\ pc' = "loop" /\ pc = "down"
      /\ UNCHANGED <<sent, heads, wire, data, delivered>>
      /\ data = <<>> /\ wire \in Nat
  BY DEF Connect, WholeInv, HeldOK, Inv, TypeOK
<1>2. SentOK'
  BY <1>1, SentUnchanged DEF WholeInv
<1>3. HeldOK'
  <2>1. Message(wire, 0) = <<>>
    BY <1>1, MessageProperties, EmptySeq
  <2>2. LastRead(relay)'
    BY <1>1, <2>1 DEF LastRead, Boundary
  <2>3. QED
    BY <1>1, <2>2 DEF HeldOK
<1>4. NothingHeldBack' /\ OnlyWholePackets'
  BY <1>1 DEF NothingHeldBack, OnlyWholePackets, WholeInv
<1>5. ~InsideHead(rcvd)'
  <2> SUFFICES ASSUME NEW i \in 1..Len(sent)
               PROVE  ~(wire - sent[i][1] \in 2..(heads[i] - 1))
    BY <1>1 DEF InsideHead
  <2>1. /\ sent[i][1] \in Nat /\ Len(sent[i]) \in Nat /\ heads[i] \in Nat
        /\ heads[i] < Len(sent[i]) /\ sent[i][1] + Len(sent[i]) <= wire
    BY DEF WholeInv, SentOK, End
  <2>2. QED
    BY <1>1, <2>1
<1>6. QED
  BY <1>2, <1>3, <1>4, <1>5 DEF Rest

\* A step that ends the session and delivers nothing.
LEMMA WholeEnd ==
  ASSUME WholeInv, pc # "down", pc' = "down", data' = <<>>,
         UNCHANGED <<sent, heads, wire, delivered>>
  PROVE  Rest'
<1>1. SentOK'
  BY SentUnchanged DEF WholeInv
<1>2. HeldOK' /\ NothingHeldBack' /\ OnlyWholePackets'
  BY DEF HeldOK, NothingHeldBack, OnlyWholePackets, WholeInv
<1>3. QED
  BY <1>1, <1>2 DEF Rest

\* A read goes behind the kept bytes: together they are still the last ones.
LEMMA WholeReceive ==
  ASSUME WholeInv, ~SplitHeads, NEW n \in 1..BufSize, Receive(n), pc' = "scan"
  PROVE  Rest' /\ pc = "loop" /\ Cursor' = Cursor
<1>1. /\ relay \in Seq(Nat) /\ Len(relay) \in Nat
      /\ rcvd \in Nat /\ n \in Nat /\ pc = "loop" /\ data = <<>>
  BY Sizes DEF Receive, WholeInv, HeldOK, Inv, TypeOK
<1>2. /\ data' = relay \o Message(rcvd, n) /\ relay' = <<>> /\ rcvd' = rcvd + n
      /\ ~InsideHead(rcvd + n) /\ UNCHANGED <<sent, heads, wire, delivered>>
  BY DEF Receive
<1>3. LastRead(relay)
  BY <1>1 DEF WholeInv, HeldOK
<1>4. data' = Message(rcvd - Len(relay), Len(relay) + n)
  <2> DEFINE first == rcvd - Len(relay)
             m == Len(relay)
  <2>1. first \in Nat /\ m \in Nat /\ rcvd = first + m
    BY <1>1, <1>3 DEF LastRead
  <2>2. relay = Message(first, m)
    BY <1>3 DEF LastRead
  <2> HIDE DEF first, m
  <2>3. data' = Message(first, m) \o Message(first + m, n)
    BY <1>2, <2>1, <2>2
  <2>4. data' = Message(first, m + n)
    BY <1>1, <2>1, <2>3, MessageConcat, ZenonT(60)
  <2>5. QED
    BY <2>4 DEF first, m
<1>5. Len(data') = Len(relay) + n
  <2>1. rcvd - Len(relay) \in Nat /\ Len(relay) + n \in Nat
    BY <1>1, <1>3 DEF LastRead
  <2>2. QED
    BY <1>4, <2>1, MessageProperties
<1>6. rcvd' - Len(data') = rcvd - Len(relay)
  BY <1>1, <1>2, <1>5
<1>7. LastRead(data)'
  <2>1. Len(data') <= rcvd'
    BY <1>1, <1>2, <1>3, <1>5 DEF LastRead
  <2>2. data' = Message(rcvd' - Len(data'), Len(data'))
    BY <1>4, <1>5, <1>6, Zenon
  <2>3. Boundary(rcvd - Len(data))'
    BY <1>2, <1>3, <1>6 DEF LastRead, Boundary, Starts
  <2>4. QED
    BY <2>1, <2>2, <2>3 DEF LastRead
<1>8. Cursor' = Cursor
  <2>1. Len(relay') = 0 /\ Len(data) = 0
    BY <1>1, <1>2
  <2>2. QED
    BY <1>1, <1>2, <1>6, <2>1 DEF Cursor
<1>9. SentOK'
  BY <1>2, SentUnchanged DEF WholeInv
<1>10. HeldOK' /\ NothingHeldBack' /\ OnlyWholePackets'
  BY <1>2, <1>7 DEF HeldOK, NothingHeldBack, OnlyWholePackets, WholeInv
<1>11. ~InsideHead(rcvd)'
  BY <1>2 DEF InsideHead
<1>12. QED
  BY <1>1, <1>8, <1>9, <1>10, <1>11 DEF Rest

\* write_tun_http returns with the rest of the data kept, less than a message.
LEMMA WholeKeep ==
  ASSUME WholeInv, pc = "scan", Finish, relay' = data,
         data # <<>> => \E i \in 1..Len(sent) : Starts(i, data[1]) /\ Len(data) < Len(sent[i])
  PROVE  Rest' /\ pc' = "loop" /\ Cursor' = Cursor
<1>1. /\ pc' = "loop" /\ data' = <<>> /\ UNCHANGED <<sent, heads, wire, rcvd, delivered>>
      /\ relay = <<>> /\ Len(data) \in Nat /\ rcvd \in Nat
  BY DEF Finish, WholeInv, HeldOK, Inv, TypeOK
<1>2. Cursor' = Cursor
  BY <1>1 DEF Cursor
<1>3. SentOK'
  BY <1>1, SentUnchanged DEF WholeInv
<1>4. HeldOK'
  BY <1>1 DEF WholeInv, HeldOK, LastRead, Boundary, Starts
<1>5. NothingHeldBack' /\ OnlyWholePackets'
  BY <1>1 DEF NothingHeldBack, Starts, OnlyWholePackets, WholeInv
<1>6. ~InsideHead(rcvd)'
  BY <1>1 DEF WholeInv, InsideHead
<1>7. QED
  BY <1>1, <1>2, <1>3, <1>4, <1>5, <1>6 DEF Rest

\* What is delivered is exactly the message at the front.
LEMMA WholeDeliver ==
  ASSUME WholeInv, pc = "scan", data # <<>>, NEW found \in Found, Deliver(found)
  PROVE  /\ Rest' /\ pc' = "scan" /\ UNCHANGED <<sent, wire>>
         /\ \E i \in 1..Len(sent) : /\ sent[i][1] = Cursor
                                    /\ delivered' = Append(delivered, sent[i])
                                    /\ Cursor' = Cursor + Len(sent[i])
<1> DEFINE len == found.head + found.body
           first == rcvd - Len(data)
           rest == Len(data) - len
<1>1. /\ Len(data) \in Nat /\ rcvd \in Nat /\ relay = <<>> /\ relay' = <<>>
      /\ delivered \in Seq(Seq(Nat))
      /\ delivered' = Append(delivered, SubSeq(data, 1, len))
      /\ data' = SubSeq(data, len + 1, Len(data))
      /\ pc' = "scan" /\ UNCHANGED <<sent, heads, wire, rcvd>> /\ Ready(found)
  BY DEF Deliver, WholeInv, HeldOK, Inv, TypeOK
<1>2. PICK i \in 1..Len(sent) :
             Starts(i, data[1]) /\ Len(sent[i]) <= Len(data) /\ len = Len(sent[i])
  BY <1>1, FoundIsTrue
<1>3. /\ data[1] = first /\ first \in Nat
      /\ data = Message(first, Len(data))
      /\ Cursor = first
  <2>1. LastRead(data)
    BY DEF WholeInv, HeldOK
  <2>2. data[1] = first
    BY ScanAtStart
  <2>3. QED
    BY <1>1, <2>1, <2>2 DEF LastRead, Cursor
<1>4. /\ len \in Nat /\ len \in 1..Len(data) /\ rest \in Nat
      /\ sent[i] = Message(first, len) /\ sent[i][1] = first
      /\ Boundary(first + len) /\ sent[i] \in Seq(Nat)
  <2>1. /\ Len(sent[i]) \in Nat /\ heads[i] \in Nat /\ heads[i] < Len(sent[i])
        /\ sent[i] = Message(sent[i][1], Len(sent[i])) /\ Boundary(End(i))
        /\ sent[i] \in Seq(Nat)
    BY SMTT(30) DEF WholeInv, SentOK, Inv, TypeOK
  <2>2. sent[i][1] = first
    BY <1>2, <1>3 DEF Starts
  <2> HIDE DEF first, len
  <2>3. QED
    BY <1>1, <1>2, <2>1, <2>2 DEF End
<1> HIDE DEF first, rest, len
<1>5. SubSeq(data, 1, len) = sent[i]
  <2>1. 1 \in 1..(Len(data) + 1) /\ len \in 0..Len(data)
    BY <1>1, <1>4
  <2>2. SubSeq(Message(first, Len(data)), 1, len)
          = Message(first + 1 - 1, IF 1 <= len THEN len - 1 + 1 ELSE 0)
    BY <1>1, <1>3, <2>1, MessageSubSeq
  <2>3. first + 1 - 1 = first /\ (IF 1 <= len THEN len - 1 + 1 ELSE 0) = len
    BY <1>3, <1>4
  <2>4. QED
    BY <1>3, <1>4, <2>2, <2>3
<1>6. data' = Message(first + len, rest)
  <2>1. len + 1 \in 1..(Len(data) + 1) /\ Len(data) \in 0..Len(data)
    BY <1>1, <1>4, SMTT(30)
  <2>2. SubSeq(Message(first, Len(data)), len + 1, Len(data))
          = Message(first + (len + 1) - 1,
                    IF len + 1 <= Len(data) THEN Len(data) - (len + 1) + 1 ELSE 0)
    BY <1>1, <1>3, <2>1, MessageSubSeq
  <2>3. /\ first + (len + 1) - 1 = first + len
        /\ (IF len + 1 <= Len(data) THEN Len(data) - (len + 1) + 1 ELSE 0) = rest
    BY <1>1, <1>3, <1>4 DEF rest
  <2>4. QED
    BY <1>1, <1>3, <2>2, <2>3
<1>7. Len(data') = rest /\ rcvd - rest = first + len /\ rest <= rcvd
  <2>1. first + len \in Nat
    BY <1>3, <1>4
  <2>2. Len(data') = rest
    BY <1>4, <1>6, <2>1, MessageProperties
  <2>3. QED
    BY <1>1, <1>3, <1>4, <2>2 DEF first, rest
<1>8. LastRead(data)'
  BY <1>1, <1>4, <1>6, <1>7 DEF LastRead, Boundary, Starts
<1>9. Cursor' = Cursor + Len(sent[i])
  <2>1. Len(relay') = 0
    BY <1>1
  <2>2. Cursor' = rcvd' - Len(relay') - Len(data')
    BY <1>1 DEF Cursor
  <2>3. Cursor' = first + len
    BY <1>1, <1>3, <1>4, <1>7, <2>1, <2>2
  <2>4. QED
    BY <1>2, <1>3, <2>3
<1>10. delivered' = Append(delivered, sent[i])
  BY <1>1, <1>5
<1>11. SentOK'
  BY <1>1, SentUnchanged DEF WholeInv
<1>12. HeldOK' /\ NothingHeldBack'
  BY <1>1, <1>8 DEF HeldOK, NothingHeldBack
<1>13. ~InsideHead(rcvd)'
  BY <1>1 DEF WholeInv, InsideHead
<1>14. OnlyWholePackets'
  <2>1. /\ Len(delivered') = Len(delivered) + 1 /\ Len(delivered) \in Nat
        /\ \A k \in 1..Len(delivered) : delivered'[k] = delivered[k]
        /\ delivered'[Len(delivered) + 1] = sent[i]
    BY <1>1, <1>4, <1>10, AppendProperties
  <2> SUFFICES ASSUME NEW k \in 1..Len(delivered')
               PROVE  \E j \in 1..Len(sent) : delivered'[k] = sent[j]
    BY <1>1 DEF OnlyWholePackets
  <2>2. CASE k = Len(delivered) + 1
    BY <2>1, <2>2
  <2>3. CASE k \in 1..Len(delivered)
    BY <2>1, <2>3 DEF WholeInv, OnlyWholePackets
  <2>4. QED
    BY <2>1, <2>2, <2>3
<1>15. QED
  BY <1>1, <1>3, <1>4, <1>9, <1>10, <1>11, <1>12, <1>13, <1>14 DEF Rest

\* Every step keeps the invariant and is a step of the abstract stream or changes
\* nothing of it.
LEMMA WholeNext ==
  ASSUME ~SplitHeads, WholeInv, [Next]_vars
  PROVE  WholeInv' /\ [Messages!Next]_Messages!vars
<1> DEFINE Step == [Messages!Next]_Messages!vars
<1>0. Inv
  BY DEF WholeInv
<1> SUFFICES Rest' /\ Step
  BY <1>0, NextInv DEF WholeInv, Rest
<1>1. ASSUME NEW h \in Heads, NEW b \in Bodies, Send(h, b) PROVE Rest' /\ Step
  <2>1. Rest'
    BY <1>1, WholeSend
  <2>2. wire' = wire + (h + b)
    BY <1>1, SendAppends
  <2>3. Messages!Send(h + b)
    BY <1>1, <2>2 DEF Send, Messages!Send, Message, Messages!Packet, Cursor
  <2>4. h + b \in {g + c : g \in Heads, c \in Bodies}
    OBVIOUS
  <2>5. QED
    BY <2>1, <2>3, <2>4 DEF Messages!Next
<1>2. CASE Connect
  <2>1. Rest'
    BY <1>2, WholeConnect
  <2>2. wire \in Nat /\ data = <<>> /\ Len(<<>>) = 0
    BY <1>2 DEF Connect, WholeInv, HeldOK, Inv, TypeOK
  <2>3. Cursor' = wire
    BY <1>2, <2>2 DEF Connect, Cursor
  <2>4. Messages!Connect
    BY <1>2, <2>3 DEF Connect, Messages!Connect
  <2>5. QED
    BY <2>1, <2>4 DEF Messages!Next
<1>3. ASSUME pc # "down", pc' = "down", data' = <<>>,
             UNCHANGED <<sent, heads, wire, delivered>>
      PROVE  Rest' /\ Step
  <2>1. Rest'
    BY <1>3, WholeEnd
  <2>2. Messages!Break
    BY <1>3 DEF Messages!Break, Cursor
  <2>3. QED
    BY <2>1, <2>2 DEF Messages!Next
<1>4. ASSUME pc # "down", pc' # "down", UNCHANGED <<sent, wire, delivered>>, Cursor' = Cursor
      PROVE  Step
  BY <1>4 DEF Messages!vars
<1>5. CASE Leave
  BY <1>3, <1>5 DEF Leave, WholeInv, HeldOK
<1>6. ASSUME NEW n \in 1..BufSize, Receive(n) PROVE Rest' /\ Step
  <2>1. pc = "loop" /\ data = <<>> /\ UNCHANGED <<sent, heads, wire, delivered>>
    BY <1>6 DEF Receive, WholeInv, HeldOK
  <2>2. CASE pc' = "scan"
    <3>1. Rest' /\ Cursor' = Cursor
      BY <1>6, <2>2, WholeReceive
    <3>2. QED
      BY <1>4, <2>1, <2>2, <3>1
  <2>3. CASE pc' = "down" /\ UNCHANGED data
    BY <1>3, <2>1, <2>3
  <2>4. QED
    BY <1>6, <2>2, <2>3 DEF Receive
<1>7. ASSUME pc = "scan", Finish, relay' = data,
             data # <<>> => \E i \in 1..Len(sent) :
                              Starts(i, data[1]) /\ Len(data) < Len(sent[i])
      PROVE  Rest' /\ Step
  <2>1. Rest' /\ pc' = "loop" /\ Cursor' = Cursor
    BY <1>7, WholeKeep
  <2>2. QED
    BY <1>4, <1>7, <2>1 DEF Finish
<1>8. CASE ScanDone
  BY <1>7, <1>8 DEF ScanDone, WholeInv, HeldOK
<1>9. CASE Parse
  <2>1. pc = "scan" /\ data # <<>>
    BY <1>9 DEF Parse
  <2>2. PICK found \in Found : Keep(found) \/ Deliver(found)
    BY <1>9 DEF Parse
  <2>3. PICK i \in 1..Len(sent) :
               /\ Starts(i, data[1])
               /\ ~Ready(found) => Len(data) < Len(sent[i])
    BY <2>1, FoundIsTrue
  <2>4. CASE Keep(found)
    <3>1. Finish /\ relay' = data /\ Len(data) < Len(sent[i])
      BY <2>3, <2>4 DEF Keep
    <3>2. QED
      BY <1>7, <2>1, <2>3, <3>1
  <2>5. CASE Deliver(found)
    <3>1. /\ Rest' /\ pc' = "scan" /\ UNCHANGED <<sent, wire>>
          /\ \E j \in 1..Len(sent) : /\ sent[j][1] = Cursor
                                     /\ delivered' = Append(delivered, sent[j])
                                     /\ Cursor' = Cursor + Len(sent[j])
      BY <2>1, <2>5, WholeDeliver
    <3>2. Messages!Deliver
      BY <2>1, <3>1 DEF Messages!Deliver
    <3>3. QED
      BY <3>1, <3>2 DEF Messages!Next
  <2>6. QED
    BY <2>2, <2>4, <2>5
<1>10. CASE UNCHANGED vars
  <2>1. UNCHANGED <<sent, heads, wire, rcvd, relay, data, delivered, pc>>
    BY <1>10 DEF vars
  <2>2. Rest'
    BY <2>1 DEF WholeInv, Rest, SentOK, HeldOK, LastRead, NothingHeldBack, InsideHead,
                OnlyWholePackets, Boundary, Starts, End
  <2>3. Step
    BY <2>1 DEF Messages!vars, Cursor
  <2>4. QED
    BY <2>2, <2>3
<1>11. QED
  BY <1>1, <1>2, <1>5, <1>6, <1>8, <1>9, <1>10 DEF Next

\* The inductive invariant, when no read ends inside a head.
LEMMA WholeInvariant == ASSUME ~SplitHeads PROVE Spec => []WholeInv
<1>1. WholeInv /\ [Next]_vars => WholeInv'
  BY WholeNext
<1>2. QED
  BY <1>1, WholeInit, PTL DEF Spec

\* write_tun_http keeps no message that it has read completely, and what it keeps is
\* the beginning of one message.
THEOREM KeepsNoWholeMessage == ASSUME ~SplitHeads PROVE Spec => []NothingHeldBack
<1>1. WholeInv => NothingHeldBack
  BY DEF WholeInv
<1>2. QED
  BY <1>1, WholeInvariant, PTL

\* "whole packet not ready yet" is true when no read ends inside a head: only whole
\* messages are delivered, whatever the uninitialised lengths hold.
THEOREM DeliversWholePackets == ASSUME ~SplitHeads PROVE Spec => []OnlyWholePackets
<1>1. WholeInv => OnlyWholePackets
  BY DEF WholeInv
<1>2. QED
  BY <1>1, WholeInvariant, PTL

\* The HTTP direction implements the packet stream, as the TLS direction does.
THEOREM RelayImplementsPacketStream ==
  ASSUME ~SplitHeads PROVE Spec => ImplementsPacketStream
<1>1. Init => Messages!Init
  BY DEF Init, Messages!Init, Cursor
<1>2. WholeInv /\ [Next]_vars => [Messages!Next]_Messages!vars
  BY WholeNext
<1>3. QED
  BY <1>1, <1>2, WholeInvariant, PTL DEF Spec, Messages!Spec, ImplementsPacketStream

\* The theorems of the abstract stream, of what this one implements.
Promise == INSTANCE PacketStreamProofs
             WITH Lengths <- {h + b : h \in Heads, b \in Bodies},
                  up <- pc # "down", cursor <- Cursor

\* With heads that are read whole, the messages written to the device are in the order
\* they were sent and none is written twice, across any number of sessions.
THEOREM MessagesStayInOrder == ASSUME ~SplitHeads PROVE Spec => []Messages!InOrder
<1>1. {h + b : h \in Heads, b \in Bodies} \subseteq Nat \ {0}
  <2>1. Heads \subseteq Nat \ {0} /\ Bodies \subseteq Nat \ {0}
    BY SizesAssumption DEF SizesAssumption
  <2>2. ASSUME NEW h \in Heads, NEW b \in Bodies
        PROVE  h + b \in Nat \ {0}
    <3>1. h \in Nat \ {0} /\ b \in Nat \ {0}
      BY <2>1
    <3> QED BY <3>1
  <2> QED BY <2>2
<1>2. Promise!Sized
  BY <1>1 DEF Promise!Sized
<1>3. Promise!Spec => []Promise!InOrder
  BY <1>2, Promise!StreamIsInOrder
<1>4. Messages!Spec => Promise!Spec
  <2>1. Messages!Init => Promise!Init
    BY DEF Messages!Init, Promise!Init
  <2>2. ASSUME NEW len, Messages!Send(len) PROVE Promise!Send(len)
    BY <2>2 DEF Messages!Send, Promise!Send, Messages!Packet, Promise!Packet
  <2>3. Messages!Connect => Promise!Connect
    BY DEF Messages!Connect, Promise!Connect
  <2>4. Messages!Break => Promise!Break
    BY DEF Messages!Break, Promise!Break
  <2>5. Messages!Deliver => Promise!Deliver
    BY DEF Messages!Deliver, Promise!Deliver
  <2>6. UNCHANGED Messages!vars => UNCHANGED Promise!vars
    BY DEF Messages!vars, Promise!vars
  <2>7. [Messages!Next]_Messages!vars => [Promise!Next]_Promise!vars
    BY <2>2, <2>3, <2>4, <2>5, <2>6 DEF Messages!Next, Promise!Next
  <2> QED BY <2>1, <2>7, PTL DEF Messages!Spec, Promise!Spec
<1>5. Promise!InOrder => Messages!InOrder
  BY DEF Messages!InOrder, Promise!InOrder
<1> QED BY <1>3, <1>4, <1>5, RelayImplementsPacketStream, PTL DEF ImplementsPacketStream
=============================================================================
