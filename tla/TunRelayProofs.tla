--------------------------- MODULE TunRelayProofs ---------------------------
(***************************************************************************)
(* What TunRelay guarantees for every buffer size, every set of lengths    *)
(* and every stream.                                                       *)
(***************************************************************************)
EXTENDS TunRelay, SequenceTheorems, TLAPS

-----------------------------------------------------------------------------
(* The operators on packets.                                               *)

\* A packet is a sequence of its length, of consecutive positions.
LEMMA PacketProperties ==
  ASSUME NEW first \in Nat, NEW len \in Nat
  PROVE  /\ Packet(first, len) \in Seq(Nat)
         /\ Len(Packet(first, len)) = len
         /\ \A j \in 1..len : Packet(first, len)[j] = first + j - 1
<1>1. \A j \in 1..len : first + j - 1 \in Nat
  OBVIOUS
<1>2. Packet(first, len) \in [1..len -> Nat]
  BY <1>1 DEF Packet
<1>3. QED
  BY <1>2 DEF Packet

\* Two adjacent packets make one.
LEMMA PacketConcat ==
  ASSUME NEW first \in Nat, NEW m \in Nat, NEW n \in Nat
  PROVE  Packet(first, m) \o Packet(first + m, n) = Packet(first, m + n)
<1> DEFINE s == Packet(first, m)
           t == Packet(first + m, n)
           u == Packet(first, m + n)
<1>1. /\ s \in Seq(Nat) /\ Len(s) = m
      /\ \A j \in 1..m : s[j] = first + j - 1
  BY PacketProperties
<1>2. /\ t \in Seq(Nat) /\ Len(t) = n
      /\ \A j \in 1..n : t[j] = first + m + j - 1
  <2>1. first + m \in Nat
    OBVIOUS
  <2>2. QED
    BY <2>1, PacketProperties
<1>3. /\ u \in Seq(Nat) /\ Len(u) = m + n
      /\ \A j \in 1..(m + n) : u[j] = first + j - 1
  <2>1. m + n \in Nat
    OBVIOUS
  <2>2. QED
    BY <2>1, PacketProperties
<1> HIDE DEF s, t, u
<1>4. /\ s \o t \in Seq(Nat) /\ Len(s \o t) = m + n
      /\ \A j \in 1..(m + n) : (s \o t)[j] = IF j <= m THEN s[j] ELSE t[j - m]
  BY <1>1, <1>2, ConcatProperties
<1>5. ASSUME NEW j \in 1..(m + n)
      PROVE  (s \o t)[j] = u[j]
  <2>1. CASE j <= m
    BY <1>1, <1>3, <1>4, <2>1
  <2>2. CASE ~(j <= m)
    <3>1. j - m \in 1..n
      BY <2>2
    <3>2. t[j - m] = first + m + (j - m) - 1
      BY <1>2, <3>1
    <3>3. (s \o t)[j] = t[j - m]
      BY <1>4, <2>2
    <3>4. u[j] = first + j - 1
      BY <1>3
    <3>5. first + m + (j - m) - 1 = first + j - 1
      OBVIOUS
    <3>6. QED
      BY <3>2, <3>3, <3>4, <3>5
  <2>3. QED
    BY <2>1, <2>2
<1>6. s \o t = u
  BY <1>3, <1>4, <1>5, SeqEqual
<1>7. QED
  BY <1>6 DEF s, t, u

\* Any part of a packet is a packet.
LEMMA PacketSubSeq ==
  ASSUME NEW first \in Nat, NEW len \in Nat,
         NEW m \in 1..(len + 1), NEW n \in 0..len
  PROVE  SubSeq(Packet(first, len), m, n)
           = Packet(first + m - 1, IF m <= n THEN n - m + 1 ELSE 0)
<1> DEFINE s == Packet(first, len)
           size == IF m <= n THEN n - m + 1 ELSE 0
           t == Packet(first + m - 1, size)
<1>1. /\ s \in Seq(Nat) /\ Len(s) = len
      /\ \A j \in 1..len : s[j] = first + j - 1
  BY PacketProperties
<1>2. /\ t \in Seq(Nat) /\ Len(t) = size
      /\ \A j \in 1..size : t[j] = first + m - 1 + j - 1
  <2>1. first + m - 1 \in Nat /\ size \in Nat
    OBVIOUS
  <2> HIDE DEF size
  <2>2. QED
    BY <2>1, PacketProperties
<1> HIDE DEF s, t
<1>3. \A i \in m..n : s[i] \in Nat
  BY <1>1
<1>4. /\ SubSeq(s, m, n) \in Seq(Nat)
      /\ Len(SubSeq(s, m, n)) = size
      /\ \A i \in 1..(n - m + 1) : SubSeq(s, m, n)[i] = s[m + i - 1]
  BY <1>3, SubSeqProperties
<1>5. \A i \in 1..size : SubSeq(s, m, n)[i] = t[i]
  BY <1>1, <1>2, <1>4
<1>6. SubSeq(s, m, n) = t
  BY <1>2, <1>4, <1>5, SeqEqual
<1>7. QED
  BY <1>6 DEF s, t

-----------------------------------------------------------------------------
(* Memory safety, for any lengths in the stream.                           *)

\* TypeOK strengthened: the buffers one call of write_tun works on.
Buffers == /\ TypeOK
           /\ Len(relay) < BufSize
           /\ pc # "scan" => data = <<>>
           /\ pc = "scan" => relay = <<>>

\* What ip_len may be is a natural number, whatever is in the stream.
LEMMA LengthFieldType == ASSUME TypeOK, NEW p, NEW len \in LengthField(p)
                         PROVE  len \in Nat
<1>1. \A i \in 1..Len(sent) : Len(sent[i]) \in Nat
  BY DEF TypeOK
<1>2. QED
  BY <1>1, JunkAssumption DEF JunkAssumption, LengthField

\* The buffers start empty.
LEMMA BuffersInit == Init => Buffers
  BY SizesAssumption DEF SizesAssumption, Init, Buffers, TypeOK

\* Every step keeps both buffers within their size, whatever the stream holds.
LEMMA BuffersNext == Buffers /\ [Next]_vars => Buffers'
<1> SUFFICES ASSUME Buffers, [Next]_vars PROVE Buffers'
  OBVIOUS
<1> USE SizesAssumption DEF SizesAssumption
<1>1. ASSUME NEW len \in Lengths, Send(len) PROVE Buffers'
  <2>1. len \in Nat
    BY LengthsAssumption DEF LengthsAssumption
  <2>2. Packet(wire, len) \in Seq(Nat)
    BY <2>1, PacketProperties DEF Buffers, TypeOK
  <2>3. sent' \in Seq(Seq(Nat))
    BY <1>1, <2>2, AppendProperties DEF Send, Buffers, TypeOK
  <2>4. wire' \in Nat /\ rcvd' \in 0..wire'
    BY <1>1, <2>1 DEF Send, Buffers, TypeOK
  <2>5. UNCHANGED <<relay, data, delivered, pc>>
    BY <1>1 DEF Send
  <2>6. QED
    BY <2>3, <2>4, <2>5 DEF Buffers, TypeOK
<1>2. CASE Connect
  BY <1>2 DEF Connect, Buffers, TypeOK
<1>3. CASE Leave
  BY <1>3 DEF Leave, Buffers, TypeOK
<1>4. ASSUME NEW n \in 1..BufSize, Receive(n) PROVE Buffers'
  <2>1. /\ Packet(rcvd, n) \in Seq(Nat)
        /\ Len(Packet(rcvd, n)) = n
    <3>1. rcvd \in Nat /\ n \in Nat
      BY DEF Buffers, TypeOK
    <3>2. QED
      BY <3>1, PacketProperties
  <2>2. /\ relay \o Packet(rcvd, n) \in Seq(Nat)
        /\ Len(relay \o Packet(rcvd, n)) = Len(relay) + n
    <3> DEFINE chunk == Packet(rcvd, n)
    <3>1. relay \in Seq(Nat) /\ chunk \in Seq(Nat) /\ Len(chunk) = n
      BY <2>1 DEF Buffers, TypeOK
    <3> HIDE DEF chunk
    <3>2. relay \o chunk \in Seq(Nat) /\ Len(relay \o chunk) = Len(relay) + n
      BY <3>1, ConcatProperties
    <3>3. QED
      BY <3>2 DEF chunk
  <2>3. n + Len(relay) <= 2 * BufSize
    BY DEF Buffers, TypeOK
  <2>4. pc' = "scan" /\ data' = relay \o Packet(rcvd, n)
    BY <1>4, <2>3 DEF Receive, Buffers, TypeOK
  <2>5. data' \in Seq(Nat) /\ Len(data') <= 2 * BufSize
    BY <2>2, <2>3, <2>4 DEF Buffers, TypeOK
  <2>6. relay' = <<>> /\ rcvd' \in 0..wire' /\ UNCHANGED <<sent, wire, delivered>>
    BY <1>4 DEF Receive, Buffers, TypeOK
  <2>7. QED
    BY <2>4, <2>5, <2>6 DEF Buffers, TypeOK
<1>5. CASE ScanDone
  BY <1>5 DEF ScanDone, Finish, Buffers, TypeOK
<1>6. CASE KeepShort
  BY <1>6 DEF KeepShort, Finish, Buffers, TypeOK
<1>7. CASE Parse
  <2> SUFFICES ASSUME NEW len \in LengthField(data[1]),
                      \/ KeepPartial(len)
                      \/ DropBad(len)
                      \/ WritePacket(len)
                      \/ WriteFails(len)
               PROVE  Buffers'
    BY <1>7 DEF Parse
  <2> USE <1>7 DEF Parse
  <2>1. len \in Nat
    BY LengthFieldType DEF Buffers
  <2>2. CASE KeepPartial(len)
    BY <2>1, <2>2 DEF KeepPartial, Finish, Buffers, TypeOK
  <2>3. CASE DropBad(len)
    BY <2>3 DEF DropBad, Finish, Buffers, TypeOK
  <2>4. CASE WritePacket(len)
    <3>1. /\ SubSeq(data, 1, len) \in Seq(Nat)
          /\ SubSeq(data, len + 1, Len(data)) \in Seq(Nat)
          /\ Len(SubSeq(data, len + 1, Len(data))) <= Len(data)
      <4>1. \A i \in 1..Len(data) : data[i] \in Nat
        BY DEF Buffers, TypeOK
      <4>2. Len(data) \in Nat /\ len \in 1..Len(data)
        BY <2>1, <2>4 DEF WritePacket, Buffers, TypeOK
      <4>3. QED
        BY <4>1, <4>2, SubSeqProperties
    <3>2. delivered' \in Seq(Seq(Nat))
      BY <3>1, <2>4, AppendProperties DEF WritePacket, Buffers, TypeOK
    <3>3. data' \in Seq(Nat) /\ Len(data') <= 2 * BufSize
      <4>1. /\ data' = SubSeq(data, len + 1, Len(data))
            /\ Len(data) \in Nat /\ Len(data) <= 2 * BufSize
        BY <2>4 DEF WritePacket, Buffers, TypeOK
      <4>2. data' \in Seq(Nat) /\ Len(data') <= Len(data)
        BY <3>1, <4>1
      <4>3. Len(data') \in Nat
        BY <4>2, LenProperties
      <4>4. QED
        BY <4>1, <4>2, <4>3
    <3>4. UNCHANGED <<sent, wire, rcvd, relay, pc>>
      BY <2>4 DEF WritePacket
    <3>5. QED
      BY <3>2, <3>3, <3>4 DEF Buffers, TypeOK
  <2>5. CASE WriteFails(len)
    BY <2>5 DEF WriteFails, Buffers, TypeOK
  <2>6. QED
    BY <2>2, <2>3, <2>4, <2>5
<1>8. CASE UNCHANGED vars
  BY <1>8 DEF vars, Buffers, TypeOK
<1>9. QED
  BY <1>1, <1>2, <1>3, <1>4, <1>5, <1>6, <1>7, <1>8 DEF Next

\* The type invariant: neither g_tcp_buf nor the local buffer of a read is
\* ever written past its end.
THEOREM TypeCorrect == Spec => []TypeOK
<1>1. Buffers => TypeOK
  BY DEF Buffers
<1>2. QED
  BY <1>1, BuffersInit, BuffersNext, PTL DEF Spec

\* Whatever the server sends, a read always fits behind what write_tun kept.
THEOREM RelayNeverOverflows == Spec => []RelayHasRoom
<1>1. Buffers => RelayHasRoom
  BY SizesAssumption DEF SizesAssumption, Buffers, TypeOK, RelayHasRoom
<1>2. QED
  BY <1>1, BuffersInit, BuffersNext, PTL DEF Spec

-----------------------------------------------------------------------------
(* Delivery, when every packet is at least a header and fits a read.       *)

Fitting == Lengths \subseteq Hdr..BufSize

Starts(i, p) == sent[i][1] = p
End(i) == sent[i][1] + Len(sent[i])

\* A place where a packet starts, now or with the next Send.
Boundary(p) == p = wire \/ \E i \in 1..Len(sent) : Starts(i, p)

\* The packets lie one behind the other.
SentOK == \A i \in 1..Len(sent) :
            /\ sent[i][1] \in Nat
            /\ Len(sent[i]) \in Hdr..BufSize
            /\ sent[i] = Packet(sent[i][1], Len(sent[i]))
            /\ End(i) <= wire
            /\ Boundary(End(i))

\* s is the last Len(s) bytes that were read, from the start of a packet on.
LastRead(s) == /\ Len(s) <= rcvd
            /\ s = Packet(rcvd - Len(s), Len(s))
            /\ Boundary(rcvd - Len(s))

HeldOK == /\ pc = "scan" => LastRead(data)
          /\ pc = "loop" => LastRead(relay)

\* What is delivered was sent, and lies before what is held.
DeliveredOK ==
  \A k \in 1..Len(delivered) :
    \E i \in 1..Len(sent) :
      /\ delivered[k] = sent[i]
      /\ End(i) <= IF pc = "down" THEN wire ELSE Cursor

\* The inductive invariant.  Aligned is not inductive alone: that the next
\* header starts a packet depends on the held bytes being consecutive and on
\* the packets lying one behind the other.
Inv == /\ Buffers
       /\ SentOK
       /\ HeldOK
       /\ NothingHeldBack
       /\ DeliveredOK
       /\ InOrder

\* The bytes being scanned begin where a packet starts.
LEMMA ScanAtStart ==
  ASSUME Inv, pc = "scan", data # <<>>
  PROVE  /\ Len(data) \in Nat \ {0}
         /\ data[1] = rcvd - Len(data)
         /\ \E i \in 1..Len(sent) : Starts(i, data[1])
<1>1. /\ Len(data) \in Nat \ {0}
      /\ rcvd \in Nat /\ wire \in Nat /\ rcvd <= wire
  BY EmptySeq DEF Inv, Buffers, TypeOK
<1>2. LastRead(data)
  BY DEF Inv, HeldOK
<1>3. data[1] = rcvd - Len(data)
  <2>1. rcvd - Len(data) \in Nat
    BY <1>1, <1>2 DEF LastRead
  <2>2. Packet(rcvd - Len(data), Len(data))[1] = rcvd - Len(data) + 1 - 1
    BY <1>1, <2>1, PacketProperties
  <2>3. QED
    BY <1>1, <1>2, <2>1, <2>2 DEF LastRead
<1>4. rcvd - Len(data) # wire
  BY <1>1
<1>5. QED
  BY <1>1, <1>2, <1>3, <1>4 DEF LastRead, Boundary

\* The length read from a header is the length of the packet that starts there.
LEMMA HeaderIsTrue ==
  ASSUME Inv, pc = "scan", data # <<>>, NEW len \in LengthField(data[1])
  PROVE  \E i \in 1..Len(sent) : Starts(i, data[1]) /\ Len(sent[i]) = len
<1>1. PICK i \in 1..Len(sent) : Starts(i, data[1])
  BY ScanAtStart
<1>2. QED
  BY <1>1 DEF LengthField, Starts

\* Steps that send nothing leave the layout of the wire alone.
LEMMA SentUnchanged == SentOK /\ UNCHANGED <<sent, wire>> => SentOK'
  BY DEF SentOK, Boundary, Starts, End

\* The invariant holds before the first session.
LEMMA InvInit == Init => Inv
<1> SUFFICES ASSUME Init PROVE Inv
  OBVIOUS
<1>1. Buffers
  BY BuffersInit
<1>2. Len(sent) = 0 /\ Len(delivered) = 0
  BY DEF Init
<1>3. SentOK /\ DeliveredOK /\ InOrder
  BY <1>2 DEF SentOK, DeliveredOK, InOrder
<1>4. HeldOK /\ NothingHeldBack
  BY DEF Init, HeldOK, NothingHeldBack
<1>5. QED
  BY <1>1, <1>3, <1>4 DEF Inv

\* A packet sent lies at the end of the wire and moves no other.
LEMMA SendAppends ==
  ASSUME Inv, Fitting, NEW len \in Lengths, Send(len)
  PROVE  /\ Len(sent') = Len(sent) + 1
         /\ \A i \in 1..Len(sent) : sent'[i] = sent[i]
         /\ sent'[Len(sent) + 1] = Packet(wire, len)
         /\ Packet(wire, len)[1] = wire
         /\ Len(Packet(wire, len)) = len
         /\ len \in Hdr..BufSize
         /\ wire' = wire + len
         /\ Len(sent) \in Nat /\ wire \in Nat
<1>1. len \in Hdr..BufSize /\ len \in Nat \ {0}
  BY LengthsAssumption DEF LengthsAssumption, Fitting
<1>2. sent \in Seq(Seq(Nat)) /\ wire \in Nat
  BY DEF Inv, Buffers, TypeOK
<1>3. /\ Packet(wire, len) \in Seq(Nat)
      /\ Len(Packet(wire, len)) = len
      /\ Packet(wire, len)[1] = wire + 1 - 1
  <2>1. wire \in Nat /\ len \in Nat /\ 1 \in 1..len
    BY <1>1, <1>2
  <2>2. QED
    BY <2>1, PacketProperties
<1>4. /\ Len(sent') = Len(sent) + 1
      /\ \A i \in 1..Len(sent) : sent'[i] = sent[i]
      /\ sent'[Len(sent) + 1] = Packet(wire, len)
  BY <1>2, <1>3, AppendProperties DEF Send
<1>5. QED
  BY <1>1, <1>2, <1>3, <1>4 DEF Send

\* Sending a packet keeps the invariant.
LEMMA InvSend ==
  ASSUME Inv, Fitting, NEW len \in Lengths, Send(len)
  PROVE  (SentOK /\ HeldOK /\ NothingHeldBack /\ DeliveredOK /\ InOrder)'
<1> USE SendAppends
<1>1. \A p : Boundary(p) => Boundary(p)'
  BY DEF Boundary, Starts
<1>2. UNCHANGED <<rcvd, relay, data, delivered, pc>>
  BY DEF Send
<1>3. SentOK'
  <2> SUFFICES ASSUME NEW i \in 1..Len(sent')
               PROVE  /\ sent'[i][1] \in Nat
                      /\ Len(sent'[i]) \in Hdr..BufSize
                      /\ sent'[i] = Packet(sent'[i][1], Len(sent'[i]))
                      /\ End(i)' <= wire'
                      /\ Boundary(End(i))'
    BY DEF SentOK
  <2>1. CASE i \in 1..Len(sent)
    <3>1. sent'[i] = sent[i] /\ End(i)' = End(i)
      BY <2>1 DEF End
    <3>2. /\ sent[i][1] \in Nat
          /\ Len(sent[i]) \in Hdr..BufSize
          /\ sent[i] = Packet(sent[i][1], Len(sent[i]))
          /\ End(i) <= wire
          /\ Boundary(End(i))
      BY <2>1 DEF Inv, SentOK
    <3>3. End(i) \in Nat /\ len \in Nat
      BY <3>2, SizesAssumption DEF End, SizesAssumption
    <3>4. End(i)' <= wire'
      BY <3>1, <3>2, <3>3
    <3>5. Boundary(End(i))'
      BY <1>1, <3>1, <3>2 DEF Boundary, Starts
    <3>6. QED
      BY <3>1, <3>2, <3>4, <3>5
  <2>2. CASE i = Len(sent) + 1
    <3>1. sent'[i] = Packet(wire, len) /\ sent'[i][1] = wire /\ Len(sent'[i]) = len
      BY <2>2
    <3>2. End(i)' = wire'
      BY <3>1 DEF End
    <3>3. wire' \in Nat
      BY SizesAssumption DEF SizesAssumption
    <3>4. Boundary(End(i))'
      BY <3>2 DEF Boundary
    <3>5. QED
      BY <3>1, <3>2, <3>3, <3>4
  <2>3. QED
    BY <2>1, <2>2
<1>4. HeldOK'
  BY <1>1, <1>2 DEF Inv, HeldOK, LastRead
<1>5. NothingHeldBack'
  BY <1>2 DEF Inv, NothingHeldBack
<1>6. DeliveredOK'
  <2> SUFFICES ASSUME NEW k \in 1..Len(delivered)
               PROVE  \E i \in 1..Len(sent') :
                        /\ delivered[k] = sent'[i]
                        /\ End(i)' <= IF pc = "down" THEN wire' ELSE Cursor
    BY <1>2 DEF DeliveredOK, Cursor
  <2>1. PICK i \in 1..Len(sent) :
               /\ delivered[k] = sent[i]
               /\ End(i) <= IF pc = "down" THEN wire ELSE Cursor
    BY DEF Inv, DeliveredOK
  <2>2. End(i)' = End(i) /\ sent'[i] = sent[i] /\ i \in 1..Len(sent')
    BY DEF End
  <2>3. End(i) \in Nat /\ len \in Nat /\ wire' >= wire
    BY SizesAssumption DEF End, Inv, SentOK, SizesAssumption
  <2>4. QED
    BY <2>1, <2>2, <2>3
<1>7. InOrder'
  BY <1>2 DEF Inv, InOrder
<1>8. QED
  BY <1>3, <1>4, <1>5, <1>6, <1>7

\* A new session starts at the end of the wire, where a packet will start.
LEMMA InvConnect ==
  ASSUME Inv, Connect
  PROVE  (SentOK /\ HeldOK /\ NothingHeldBack /\ DeliveredOK /\ InOrder)'
<1>1. /\ relay' = <<>> /\ rcvd' = wire /\ pc' = "loop" /\ pc = "down"
      /\ UNCHANGED <<sent, wire, data, delivered>>
      /\ data = <<>> /\ wire \in Nat
  BY DEF Connect, Inv, Buffers, TypeOK
<1>2. SentOK'
  BY <1>1, SentUnchanged DEF Inv
<1>3. HeldOK'
  <2>1. Packet(wire, 0) = <<>>
    BY <1>1, PacketProperties, EmptySeq
  <2>2. LastRead(relay)'
    BY <1>1, <2>1 DEF LastRead, Boundary
  <2>3. QED
    BY <1>1, <2>2 DEF HeldOK
<1>4. NothingHeldBack'
  BY <1>1 DEF NothingHeldBack
<1>5. DeliveredOK'
  <2>1. Cursor' = wire
    BY <1>1 DEF Cursor
  <2>2. QED
    BY <1>1, <2>1 DEF Inv, DeliveredOK, End
<1>6. InOrder'
  BY <1>1 DEF Inv, InOrder
<1>7. QED
  BY <1>2, <1>3, <1>4, <1>5, <1>6

\* A step that ends the session and delivers nothing.
LEMMA InvEnd ==
  ASSUME Inv, pc # "down", pc' = "down", UNCHANGED <<sent, wire, delivered>>
  PROVE  (SentOK /\ HeldOK /\ NothingHeldBack /\ DeliveredOK /\ InOrder)'
<1>1. SentOK'
  BY SentUnchanged DEF Inv
<1>2. HeldOK' /\ NothingHeldBack'
  BY DEF HeldOK, NothingHeldBack
<1>3. DeliveredOK'
  BY DEF Inv, SentOK, DeliveredOK, End
<1>4. InOrder'
  BY DEF Inv, InOrder
<1>5. QED
  BY <1>1, <1>2, <1>3, <1>4

\* A read goes behind the kept bytes: together they are still the last ones.
LEMMA InvReceive ==
  ASSUME Inv, NEW n \in 1..BufSize, Receive(n)
  PROVE  /\ (SentOK /\ HeldOK /\ NothingHeldBack /\ DeliveredOK /\ InOrder)'
         /\ pc = "loop" /\ pc' = "scan" /\ Cursor' = Cursor
<1>1. /\ relay \in Seq(Nat) /\ Len(relay) \in Nat /\ Len(relay) < BufSize
      /\ rcvd \in Nat /\ n \in Nat /\ BufSize \in Nat /\ n <= BufSize
      /\ pc = "loop" /\ data = <<>>
  BY SizesAssumption DEF Receive, Inv, Buffers, TypeOK, SizesAssumption
<1>2. /\ pc' = "scan" /\ data' = relay \o Packet(rcvd, n)
      /\ relay' = <<>> /\ rcvd' = rcvd + n
      /\ UNCHANGED <<sent, wire, delivered>>
  <2>1. ~ (n + Len(relay) > 2 * BufSize)
    BY <1>1
  <2>2. QED
    BY <2>1 DEF Receive
<1>3. LastRead(relay)
  BY <1>1 DEF Inv, HeldOK
<1>4. data' = Packet(rcvd - Len(relay), Len(relay) + n)
  <2> DEFINE first == rcvd - Len(relay)
             m == Len(relay)
  <2>1. first \in Nat /\ m \in Nat /\ rcvd = first + m
    BY <1>1, <1>3 DEF LastRead
  <2>2. relay = Packet(first, m)
    BY <1>3 DEF LastRead
  <2> HIDE DEF first, m
  <2>3. data' = Packet(first, m) \o Packet(first + m, n)
    BY <1>2, <2>1, <2>2
  <2>4. data' = Packet(first, m + n)
    BY <1>1, <2>1, <2>3, PacketConcat, ZenonT(60)
  <2>5. QED
    BY <2>4 DEF first, m
<1>5. Len(data') = Len(relay) + n
  <2>1. rcvd - Len(relay) \in Nat /\ Len(relay) + n \in Nat
    BY <1>1, <1>3 DEF LastRead
  <2>2. QED
    BY <1>4, <2>1, PacketProperties
<1>6. rcvd' - Len(data') = rcvd - Len(relay)
  BY <1>1, <1>2, <1>5
<1>7. LastRead(data)'
  BY <1>1, <1>2, <1>3, <1>4, <1>5, <1>6, SMTT(30) DEF LastRead, Boundary, Starts
<1>8. Cursor' = Cursor
  <2>1. Len(relay') = 0 /\ Len(data) = 0
    BY <1>1, <1>2
  <2>2. QED
    BY <1>1, <1>2, <1>6, <2>1 DEF Cursor
<1>9. SentOK'
  BY <1>2, SentUnchanged DEF Inv
<1>10. HeldOK' /\ NothingHeldBack'
  BY <1>2, <1>7 DEF HeldOK, NothingHeldBack
<1>11. DeliveredOK' /\ InOrder'
  BY <1>1, <1>2, <1>8 DEF Inv, DeliveredOK, InOrder, End
<1>12. QED
  BY <1>1, <1>2, <1>8, <1>9, <1>10, <1>11

\* write_tun returns with the rest of the data kept, less than a packet.
LEMMA InvKeep ==
  ASSUME Inv, pc = "scan", Finish, relay' = data,
         data # <<>> => \E i \in 1..Len(sent) : Starts(i, data[1]) /\ Len(data) < Len(sent[i])
  PROVE  /\ (SentOK /\ HeldOK /\ NothingHeldBack /\ DeliveredOK /\ InOrder)'
         /\ pc' = "loop" /\ Cursor' = Cursor
<1>1. /\ pc' = "loop" /\ data' = <<>> /\ UNCHANGED <<sent, wire, rcvd, delivered>>
      /\ relay = <<>> /\ Len(data) \in Nat /\ rcvd \in Nat
  BY DEF Finish, Inv, Buffers, TypeOK
<1>2. Cursor' = Cursor
  BY <1>1 DEF Cursor
<1>3. SentOK'
  BY <1>1, SentUnchanged DEF Inv
<1>4. HeldOK'
  BY <1>1 DEF Inv, HeldOK, LastRead, Boundary, Starts
<1>5. NothingHeldBack'
  BY <1>1 DEF NothingHeldBack, Starts
<1>6. DeliveredOK' /\ InOrder'
  BY <1>1, <1>2 DEF Inv, DeliveredOK, InOrder, End
<1>7. QED
  BY <1>1, <1>2, <1>3, <1>4, <1>5, <1>6

\* A write takes exactly the packet at the front.
LEMMA InvWrite ==
  ASSUME Inv, pc = "scan", Len(data) >= Hdr,
         NEW len \in LengthField(data[1]), WritePacket(len)
  PROVE  /\ (SentOK /\ HeldOK /\ NothingHeldBack /\ DeliveredOK /\ InOrder)'
         /\ pc' = "scan"
         /\ \E i \in 1..Len(sent) : /\ sent[i][1] = Cursor
                                    /\ delivered' = Append(delivered, sent[i])
                                    /\ Cursor' = Cursor + Len(sent[i])
<1>1. /\ len \in 1..Len(data) /\ Len(data) \in Nat /\ len \in Nat
      /\ rcvd \in Nat /\ data # <<>> /\ relay = <<>> /\ relay' = <<>>
      /\ delivered \in Seq(Seq(Nat))
      /\ delivered' = Append(delivered, SubSeq(data, 1, len))
      /\ data' = SubSeq(data, len + 1, Len(data))
      /\ pc' = "scan" /\ UNCHANGED <<sent, wire, rcvd>>
  BY SizesAssumption DEF SizesAssumption, WritePacket, Inv, Buffers, TypeOK
<1>2. PICK i \in 1..Len(sent) : Starts(i, data[1]) /\ Len(sent[i]) = len
  BY <1>1, HeaderIsTrue
<1> DEFINE first == rcvd - Len(data)
           rest == Len(data) - len
<1>3. /\ data[1] = first /\ first \in Nat /\ rest \in Nat
      /\ data = Packet(first, Len(data))
      /\ Cursor = first
  <2>1. LastRead(data)
    BY DEF Inv, HeldOK
  <2>2. data[1] = first
    BY <1>1, ScanAtStart
  <2>3. QED
    BY <1>1, <2>1, <2>2 DEF LastRead, Cursor
<1>4. /\ sent[i] = Packet(first, len) /\ sent[i][1] = first
      /\ End(i) = first + len /\ Boundary(first + len)
      /\ sent[i] \in Seq(Nat)
  BY <1>2, <1>3, SMTT(30) DEF Starts, End, Inv, SentOK, Buffers, TypeOK
<1> HIDE DEF first, rest
<1>5. SubSeq(data, 1, len) = sent[i]
  <2>1. 1 \in 1..(Len(data) + 1) /\ len \in 0..Len(data)
    BY <1>1
  <2>2. SubSeq(Packet(first, Len(data)), 1, len)
          = Packet(first + 1 - 1, IF 1 <= len THEN len - 1 + 1 ELSE 0)
    BY <1>1, <1>3, <2>1, PacketSubSeq
  <2>3. first + 1 - 1 = first /\ (IF 1 <= len THEN len - 1 + 1 ELSE 0) = len
    BY <1>1, <1>3
  <2>4. QED
    BY <1>3, <1>4, <2>2, <2>3
<1>6. data' = Packet(first + len, rest)
  <2>1. len + 1 \in 1..(Len(data) + 1) /\ Len(data) \in 0..Len(data)
    BY <1>1
  <2>2. SubSeq(Packet(first, Len(data)), len + 1, Len(data))
          = Packet(first + (len + 1) - 1,
                   IF len + 1 <= Len(data) THEN Len(data) - (len + 1) + 1 ELSE 0)
    BY <1>1, <1>3, <2>1, PacketSubSeq
  <2>3. /\ first + (len + 1) - 1 = first + len
        /\ (IF len + 1 <= Len(data) THEN Len(data) - (len + 1) + 1 ELSE 0) = rest
    BY <1>1, <1>3 DEF rest
  <2>4. QED
    BY <1>1, <1>3, <2>2, <2>3
<1>7. Len(data') = rest /\ rcvd - rest = first + len /\ rest <= rcvd
  <2>1. first + len \in Nat
    BY <1>1, <1>3
  <2>2. Len(data') = rest
    BY <1>3, <1>6, <2>1, PacketProperties
  <2>3. QED
    BY <1>1, <1>3, <2>2 DEF first, rest
<1>8. LastRead(data)'
  BY <1>1, <1>4, <1>6, <1>7 DEF LastRead, Boundary, Starts
<1>9. Cursor' = Cursor + Len(sent[i]) /\ Cursor' = first + len
  <2>1. Len(relay') = 0
    BY <1>1
  <2>2. Cursor' = rcvd' - Len(relay') - Len(data')
    BY <1>1 DEF Cursor
  <2>3. Cursor' = first + len
    BY <1>1, <1>3, <1>7, <2>1, <2>2
  <2>4. QED
    BY <1>1, <1>2, <1>3, <2>3
<1>10. delivered' = Append(delivered, sent[i])
  BY <1>1, <1>5
<1>11. /\ Len(delivered') = Len(delivered) + 1 /\ Len(delivered) \in Nat
       /\ \A k \in 1..Len(delivered) : delivered'[k] = delivered[k]
       /\ delivered'[Len(delivered) + 1] = sent[i]
  BY <1>1, <1>4, <1>10, AppendProperties
<1>12. SentOK'
  BY <1>1, SentUnchanged DEF Inv
<1>13. HeldOK' /\ NothingHeldBack'
  BY <1>1, <1>8 DEF HeldOK, NothingHeldBack
<1>14. \A k \in 1..Len(delivered) :
         \E j \in 1..Len(sent) : delivered[k] = sent[j] /\ End(j) <= Cursor
  BY DEF Inv, DeliveredOK
<1>15. \A j \in 1..Len(sent) : sent[j][1] \in Nat /\ Len(sent[j]) \in Nat \ {0}
  BY SizesAssumption DEF Inv, SentOK, SizesAssumption
<1>16. DeliveredOK'
  <2>0. End(i) = Cursor' /\ Cursor \in Nat /\ Cursor' \in Nat /\ Cursor <= Cursor'
    <3>1. Cursor = first /\ Cursor' = first + len /\ End(i) = first + len
      BY <1>3, <1>4, <1>9
    <3>2. first \in Nat /\ len \in Nat
      BY <1>1, <1>3
    <3>3. QED
      BY <3>1, <3>2
  <2> SUFFICES ASSUME NEW k \in 1..Len(delivered')
               PROVE  \E j \in 1..Len(sent) : delivered'[k] = sent[j] /\ End(j) <= Cursor'
    BY <1>1 DEF DeliveredOK, End
  <2>1. CASE k = Len(delivered) + 1
    BY <1>11, <2>0, <2>1
  <2>2. CASE k \in 1..Len(delivered)
    <3>1. PICK j \in 1..Len(sent) : delivered[k] = sent[j] /\ End(j) <= Cursor
      BY <1>14, <2>2
    <3>2. End(j) <= Cursor'
      BY <1>15, <2>0, <3>1 DEF End
    <3>3. QED
      BY <1>11, <2>2, <3>1, <3>2
  <2>3. QED
    BY <1>11, <2>1, <2>2
<1>17. InOrder'
  <2> SUFFICES ASSUME NEW j \in 1..Len(delivered'), NEW k \in 1..Len(delivered'), j < k
               PROVE  delivered'[j][1] < delivered'[k][1]
    BY DEF InOrder
  <2>1. j \in 1..Len(delivered)
    BY <1>11
  <2>2. CASE k = Len(delivered) + 1
    <3>1. PICK h \in 1..Len(sent) : delivered[j] = sent[h] /\ End(h) <= Cursor
      BY <1>14, <2>1
    <3>2. sent[h][1] < Cursor
      BY <1>3, <1>15, <3>1 DEF End
    <3>3. QED
      BY <1>3, <1>4, <1>11, <2>1, <2>2, <3>1, <3>2
  <2>3. CASE k \in 1..Len(delivered)
    BY <1>11, <2>1, <2>3 DEF Inv, InOrder
  <2>4. QED
    BY <1>11, <2>2, <2>3, SMTT(30)
<1>18. QED
  BY <1>1, <1>3, <1>4, <1>9, <1>10, <1>12, <1>13, <1>16, <1>17

\* Every step keeps the invariant and is a step of the abstract stream or
\* changes nothing of it.
LEMMA InvNext ==
  ASSUME Fitting, Inv, [Next]_vars
  PROVE  Inv' /\ [Tunnel!Next]_Tunnel!vars
<1> DEFINE Rest == SentOK /\ HeldOK /\ NothingHeldBack /\ DeliveredOK /\ InOrder
           Step == [Tunnel!Next]_Tunnel!vars
<1> SUFFICES Rest' /\ Step
  BY BuffersNext DEF Inv
<1>1. ASSUME NEW len \in Lengths, Send(len) PROVE Rest' /\ Step
  <2>1. Rest'
    BY <1>1, InvSend
  <2>2. Tunnel!Send(len)
    BY <1>1 DEF Send, Tunnel!Send, Packet, Tunnel!Packet, Cursor
  <2>3. QED
    BY <2>1, <2>2 DEF Tunnel!Next
<1>2. CASE Connect
  <2>1. Rest'
    BY <1>2, InvConnect
  <2>2. Cursor' = wire
    BY <1>2 DEF Connect, Cursor, Inv, Buffers, TypeOK
  <2>3. Tunnel!Connect
    BY <1>2, <2>2 DEF Connect, Tunnel!Connect
  <2>4. QED
    BY <2>1, <2>3 DEF Tunnel!Next
<1>3. ASSUME pc # "down", pc' = "down", UNCHANGED <<sent, wire, delivered>>
      PROVE  Rest' /\ Step
  <2>1. Rest'
    BY <1>3, InvEnd
  <2>2. Tunnel!Break
    BY <1>3 DEF Tunnel!Break, Cursor
  <2>3. QED
    BY <2>1, <2>2 DEF Tunnel!Next
<1>4. ASSUME pc # "down", pc' # "down", UNCHANGED <<sent, wire, delivered>>, Cursor' = Cursor
      PROVE  Step
  BY <1>4 DEF Tunnel!vars
<1>5. CASE Leave
  BY <1>3, <1>5 DEF Leave
<1>6. ASSUME NEW n \in 1..BufSize, Receive(n) PROVE Rest' /\ Step
  <2>1. Rest' /\ pc = "loop" /\ pc' = "scan" /\ Cursor' = Cursor
    BY <1>6, InvReceive
  <2>2. UNCHANGED <<sent, wire, delivered>>
    BY <1>6 DEF Receive
  <2>3. QED
    BY <1>4, <2>1, <2>2
<1>7. ASSUME pc = "scan", Finish, relay' = data,
             data # <<>> => \E i \in 1..Len(sent) :
                              Starts(i, data[1]) /\ Len(data) < Len(sent[i])
      PROVE  Rest' /\ Step
  <2>1. Rest' /\ pc' = "loop" /\ Cursor' = Cursor
    BY <1>7, InvKeep
  <2>2. QED
    BY <1>4, <1>7, <2>1 DEF Finish
<1>8. CASE ScanDone
  BY <1>7, <1>8 DEF ScanDone, Inv, Buffers
<1>9. CASE KeepShort
  <2>1. data # <<>> /\ pc = "scan" /\ Len(data) < Hdr
    BY <1>9, SizesAssumption DEF KeepShort, SizesAssumption, Inv, Buffers, TypeOK
  <2>2. PICK i \in 1..Len(sent) : Starts(i, data[1])
    BY <2>1, ScanAtStart
  <2>3. Len(data) < Len(sent[i])
    BY <2>1, SizesAssumption DEF SizesAssumption, Inv, Buffers, TypeOK, SentOK
  <2>4. QED
    BY <1>7, <1>9, <2>2, <2>3 DEF KeepShort
<1>10. CASE Parse
  <2>1. pc = "scan" /\ Len(data) >= Hdr /\ data # <<>> /\ relay = <<>>
    BY <1>10, SizesAssumption DEF Parse, SizesAssumption, Inv, Buffers, TypeOK
  <2> SUFFICES ASSUME NEW len \in LengthField(data[1]),
                      \/ KeepPartial(len)
                      \/ DropBad(len)
                      \/ WritePacket(len)
                      \/ WriteFails(len)
               PROVE  Rest' /\ Step
    BY <1>10 DEF Parse
  <2>2. PICK i \in 1..Len(sent) : Starts(i, data[1]) /\ Len(sent[i]) = len
    BY <2>1, HeaderIsTrue
  <2>3. len \in Hdr..BufSize /\ len # 0
    BY <2>2, SizesAssumption DEF SizesAssumption, Inv, SentOK
  <2>4. CASE KeepPartial(len)
    <3>1. relay' = data /\ Finish /\ Len(data) < Len(sent[i])
      BY <2>1, <2>2, <2>4 DEF KeepPartial
    <3>2. QED
      BY <1>7, <2>1, <2>2, <3>1
  <2>5. CASE DropBad(len)
    BY <2>3, <2>5, SizesAssumption DEF DropBad, SizesAssumption
  <2>6. CASE WritePacket(len)
    <3>1. /\ Rest' /\ pc' = "scan"
          /\ \E j \in 1..Len(sent) : /\ sent[j][1] = Cursor
                                     /\ delivered' = Append(delivered, sent[j])
                                     /\ Cursor' = Cursor + Len(sent[j])
      BY <2>1, <2>6, InvWrite
    <3>2. UNCHANGED <<sent, wire>>
      BY <2>6 DEF WritePacket
    <3>3. Tunnel!Deliver
      BY <2>1, <3>1, <3>2 DEF Tunnel!Deliver
    <3>4. QED
      BY <3>1, <3>3 DEF Tunnel!Next
  <2>7. CASE WriteFails(len)
    BY <1>3, <2>1, <2>7 DEF WriteFails
  <2>8. QED
    BY <2>4, <2>5, <2>6, <2>7
<1>11. CASE UNCHANGED vars
  <2>1. UNCHANGED <<sent, wire, rcvd, relay, data, delivered, pc>>
    BY <1>11 DEF vars
  <2>2. Rest'
    BY <2>1 DEF Inv, SentOK, HeldOK, LastRead, NothingHeldBack, DeliveredOK, InOrder,
                Boundary, Starts, End, Cursor
  <2>3. Step
    BY <2>1 DEF Tunnel!vars, Cursor
  <2>4. QED
    BY <2>2, <2>3
<1>12. QED
  BY <1>1, <1>2, <1>5, <1>6, <1>8, <1>9, <1>10, <1>11 DEF Next

\* The inductive invariant, when the packets fit.
LEMMA InvInvariant == ASSUME Fitting PROVE Spec => []Inv
<1>1. Inv /\ [Next]_vars => Inv'
  BY InvNext
<1>2. QED
  BY <1>1, InvInit, PTL DEF Spec

\* write_tun parses a header only where a packet starts.
THEOREM AlwaysAligned == ASSUME Fitting PROVE Spec => []Aligned
<1>1. Inv => Aligned
  BY ScanAtStart DEF Aligned, Starts
<1>2. QED
  BY <1>1, InvInvariant, PTL

\* Every write to the device is one packet the server sent, whole and unmixed.
THEOREM PacketsComeWhole == ASSUME Fitting PROVE Spec => []Intact
<1>1. Inv => Intact
  BY DEF Inv, DeliveredOK, Intact
<1>2. QED
  BY <1>1, InvInvariant, PTL

\* Packets are written in the order they were sent, and none twice.
THEOREM PacketsStayInOrder == ASSUME Fitting PROVE Spec => []InOrder
<1>1. Inv => InOrder
  BY DEF Inv
<1>2. QED
  BY <1>1, InvInvariant, PTL

\* write_tun keeps no packet that it has read completely.
THEOREM KeepsNoWholePacket == ASSUME Fitting PROVE Spec => []NothingHeldBack
<1>1. Inv => NothingHeldBack
  BY DEF Inv
<1>2. QED
  BY <1>1, InvInvariant, PTL

\* The reassembly of the byte stream implements the packet stream.
THEOREM RelayImplementsPacketStream == ASSUME Fitting PROVE Spec => ImplementsPacketStream
<1>1. Init => Tunnel!Init
  BY DEF Init, Tunnel!Init, Cursor
<1>2. Inv /\ [Next]_vars => [Tunnel!Next]_Tunnel!vars
  BY InvNext
<1>3. QED
  BY <1>1, <1>2, InvInvariant, PTL DEF Spec, Tunnel!Spec, ImplementsPacketStream
=============================================================================
