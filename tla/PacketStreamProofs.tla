-------------------------- MODULE PacketStreamProofs --------------------------
(***************************************************************************)
(* What PacketStream promises, for any number of packets of any lengths:   *)
(* what implements it delivers whole packets, in order and once.           *)
(***************************************************************************)
EXTENDS PacketStream, SequenceTheorems, TLAPS

\* Packets of at least a byte.
Sized == Lengths \subseteq Nat \ {0}

End(i) == sent[i][1] + Len(sent[i])

\* What has been sent lies on the wire up to where the next packet goes.
SentOK == /\ wire \in Nat
          /\ sent \in Seq(Seq(Nat))
          /\ \A i \in 1..Len(sent) : /\ sent[i][1] \in Nat
                                     /\ Len(sent[i]) \in Nat \ {0}
                                     /\ End(i) <= wire

\* A session goes on from a place on the wire.
CursorOK == up \in BOOLEAN /\ (up => cursor \in 0..wire)

\* What has been delivered lies before that place, or before the wire's end.
DeliveredOK == /\ delivered \in Seq(Seq(Nat))
               /\ \A k \in 1..Len(delivered) : \E i \in 1..Len(sent) :
                    /\ delivered[k] = sent[i]
                    /\ End(i) <= IF up THEN cursor ELSE wire

\* InOrder is not inductive: the next packet comes after all others because it starts at
\* the cursor and they end before it.
Inv == SentOK /\ CursorOK /\ DeliveredOK /\ InOrder

LEMMA InvInit == Init => Inv
<1> SUFFICES ASSUME Init PROVE Inv
  OBVIOUS
<1>1. /\ sent \in Seq(Seq(Nat)) /\ delivered \in Seq(Seq(Nat))
      /\ 1..Len(sent) = {} /\ 1..Len(delivered) = {}
  <2>1. sent = <<>> /\ delivered = <<>>
    BY DEF Init
  <2> QED BY <2>1, EmptySeq
<1> QED BY <1>1 DEF Init, Inv, SentOK, CursorOK, DeliveredOK, InOrder

\* A packet is put at the end of the wire and moves no other.
LEMMA InvSend == ASSUME Sized, Inv, NEW len \in Lengths, Send(len) PROVE Inv'
<1> DEFINE packet == Packet(wire, len)
<1>1. len \in Nat \ {0} /\ wire \in Nat
  BY DEF Sized, Inv, SentOK
<1>2. /\ packet \in Seq(Nat) /\ Len(packet) = len /\ packet[1] = wire
  <2>1. \A j \in 1..len : wire + j - 1 \in Nat
    BY <1>1
  <2>2. packet \in [1..len -> Nat]
    BY <2>1 DEF Packet
  <2>3. packet[1] = wire + 1 - 1
    BY <1>1 DEF Packet
  <2>4. packet \in Seq(Nat) /\ DOMAIN packet = 1..len
    BY <1>1, <2>2
  <2>5. Len(packet) = len
    BY <1>1, <2>4, LenProperties
  <2> QED BY <1>1, <2>3, <2>4, <2>5
<1> HIDE DEF packet
<1>3. /\ sent' \in Seq(Seq(Nat)) /\ Len(sent') = Len(sent) + 1 /\ Len(sent) \in Nat
      /\ \A i \in 1..Len(sent) : sent'[i] = sent[i]
      /\ sent'[Len(sent) + 1] = packet
  BY <1>2, AppendProperties DEF Send, Inv, SentOK, packet
<1>4. wire' = wire + len /\ up' = up /\ cursor' = cursor /\ delivered' = delivered
  BY DEF Send
<1>5. \A i \in 1..Len(sent') : i \in 1..Len(sent) \/ i = Len(sent) + 1
  BY <1>3
<1>6. SentOK'
  <2>1. wire' \in Nat /\ wire <= wire'
    BY <1>1, <1>4
  <2>2. ASSUME NEW i \in 1..Len(sent')
        PROVE  /\ sent'[i][1] \in Nat /\ Len(sent'[i]) \in Nat \ {0}
               /\ sent'[i][1] + Len(sent'[i]) <= wire'
    <3>1. CASE i \in 1..Len(sent)
      <4>1. /\ sent[i][1] \in Nat /\ Len(sent[i]) \in Nat \ {0}
            /\ sent[i][1] + Len(sent[i]) <= wire
        BY <3>1 DEF Inv, SentOK, End
      <4> QED BY <1>1, <1>3, <2>1, <3>1, <4>1, SMTT(30)
    <3>2. CASE i = Len(sent) + 1
      BY <1>1, <1>2, <1>3, <1>4, <3>2
    <3> QED BY <1>5, <3>1, <3>2
  <2> QED BY <1>3, <2>1, <2>2 DEF SentOK, End
<1>7. CursorOK'
  BY <1>1, <1>4 DEF Inv, CursorOK
<1>8. DeliveredOK'
  <2>1. ASSUME NEW k \in 1..Len(delivered)
        PROVE  \E i \in 1..Len(sent') : /\ delivered[k] = sent'[i]
                                        /\ End(i)' <= IF up THEN cursor ELSE wire'
    <3>1. PICK i \in 1..Len(sent) : /\ delivered[k] = sent[i]
                                   /\ End(i) <= IF up THEN cursor ELSE wire
      BY DEF Inv, DeliveredOK
    <3>2. i \in 1..Len(sent') /\ sent'[i] = sent[i]
      BY <1>3
    <3>3. End(i) <= wire /\ sent[i][1] \in Nat /\ Len(sent[i]) \in Nat
      BY DEF Inv, SentOK
    <3>4. End(i)' = End(i) /\ End(i) \in Nat
      BY <3>2, <3>3 DEF End
    <3> QED BY <1>1, <1>4, <3>1, <3>2, <3>3, <3>4
  <2> QED BY <1>4, <2>1 DEF Inv, DeliveredOK
<1>9. InOrder'
  BY <1>4 DEF Inv, InOrder
<1> QED BY <1>6, <1>7, <1>8, <1>9 DEF Inv

\* Sessions come and go behind everything that was delivered.
LEMMA InvSession == ASSUME Inv, Connect \/ Break PROVE Inv'
<1>1. /\ UNCHANGED <<sent, wire, delivered>> /\ wire \in Nat
      /\ up' \in BOOLEAN /\ (up' => cursor' = wire)
  BY DEF Connect, Break, Inv, SentOK
<1>2. SentOK' /\ CursorOK' /\ InOrder'
  BY <1>1 DEF Inv, SentOK, End, CursorOK, InOrder
<1>3. DeliveredOK'
  <2>1. ASSUME NEW k \in 1..Len(delivered)
        PROVE  \E i \in 1..Len(sent) : delivered[k] = sent[i] /\ End(i) <= wire
    BY DEF Inv, DeliveredOK, SentOK
  <2> QED BY <1>1, <2>1 DEF Inv, DeliveredOK, End
<1> QED BY <1>2, <1>3 DEF Inv

\* The packet at the cursor starts behind the end of all that were delivered.
LEMMA InvDeliver == ASSUME Inv, Deliver PROVE Inv'
<1>1. PICK i \in 1..Len(sent) : /\ sent[i][1] = cursor
                               /\ delivered' = Append(delivered, sent[i])
                               /\ cursor' = cursor + Len(sent[i])
  BY DEF Deliver
<1>2. up /\ UNCHANGED <<sent, wire, up>>
  BY DEF Deliver
<1>3. /\ sent[i][1] \in Nat /\ Len(sent[i]) \in Nat \ {0} /\ End(i) <= wire
      /\ sent[i] \in Seq(Nat) /\ wire \in Nat /\ End(i) = cursor'
  BY <1>1 DEF Inv, SentOK, End
<1>4. /\ delivered' \in Seq(Seq(Nat)) /\ Len(delivered') = Len(delivered) + 1
      /\ Len(delivered) \in Nat
      /\ \A k \in 1..Len(delivered) : delivered'[k] = delivered[k]
      /\ delivered'[Len(delivered) + 1] = sent[i]
  BY <1>1, <1>3, AppendProperties DEF Inv, DeliveredOK
<1>5. \A k \in 1..Len(delivered') : k \in 1..Len(delivered) \/ k = Len(delivered) + 1
  BY <1>4
<1>6. SentOK' /\ CursorOK'
  BY <1>1, <1>2, <1>3, SMTT(30) DEF Inv, SentOK, End, CursorOK
<1>7. \A k \in 1..Len(delivered) : \E m \in 1..Len(sent) :
        /\ delivered[k] = sent[m] /\ End(m) <= cursor
        /\ sent[m][1] \in Nat /\ Len(sent[m]) \in Nat \ {0}
  BY <1>2 DEF Inv, DeliveredOK, SentOK
<1>8. DeliveredOK'
  <2>1. ASSUME NEW k \in 1..Len(delivered')
        PROVE  \E m \in 1..Len(sent) : delivered'[k] = sent[m] /\ End(m) <= cursor'
    <3>1. CASE k \in 1..Len(delivered)
      <4>1. PICK m \in 1..Len(sent) : /\ delivered[k] = sent[m] /\ End(m) <= cursor
                                     /\ sent[m][1] \in Nat /\ Len(sent[m]) \in Nat \ {0}
        BY <1>7, <3>1
      <4>2. End(m) <= cursor'
        BY <1>1, <1>3, <4>1, SMTT(30) DEF End
      <4>3. delivered'[k] = sent[m]
        BY <1>4, <3>1, <4>1
      <4> QED BY <4>2, <4>3
    <3>2. CASE k = Len(delivered) + 1
      <4>1. delivered'[k] = sent[i]
        BY <1>4, <3>2
      <4>2. cursor' \in Nat
        BY <1>3 DEF End
      <4>3. End(i) <= cursor'
        BY <1>3, <4>2
      <4> QED BY <4>1, <4>3
    <3> QED BY <1>5, <3>1, <3>2
  <2> QED BY <1>2, <1>4, <2>1 DEF DeliveredOK, End
<1>9. InOrder'
  <2> SUFFICES ASSUME NEW j \in 1..Len(delivered'), NEW k \in 1..Len(delivered'), j < k
               PROVE  delivered'[j][1] < delivered'[k][1]
    BY DEF InOrder
  <2>1. j \in 1..Len(delivered)
    BY <1>4
  <2>2. CASE k \in 1..Len(delivered)
    BY <1>4, <2>1, <2>2 DEF Inv, InOrder
  <2>3. CASE k = Len(delivered) + 1
    <3>1. PICK m \in 1..Len(sent) : /\ delivered[j] = sent[m] /\ End(m) <= cursor
                                   /\ sent[m][1] \in Nat /\ Len(sent[m]) \in Nat \ {0}
      BY <1>7, <2>1
    <3>2. sent[m][1] < cursor
      BY <1>1, <1>3, <3>1 DEF End
    <3> QED BY <1>1, <1>4, <2>1, <2>3, <3>1, <3>2
  <2> QED BY <1>5, <2>2, <2>3
<1> QED BY <1>6, <1>8, <1>9 DEF Inv

LEMMA InvNext == Sized /\ Inv /\ [Next]_vars => Inv'
<1> SUFFICES ASSUME Sized, Inv, [Next]_vars PROVE Inv'
  OBVIOUS
<1>1. CASE UNCHANGED vars
  BY <1>1 DEF vars, Inv, SentOK, End, CursorOK, DeliveredOK, InOrder
<1> QED BY <1>1, InvSend, InvSession, InvDeliver DEF Next

\* Whatever implements the stream delivers in the order of sending, nothing
\* twice, across any number of sessions.
THEOREM StreamIsInOrder == ASSUME Sized PROVE Spec => []InOrder
<1>1. Inv => InOrder
  BY DEF Inv
<1> QED BY <1>1, InvInit, InvNext, PTL DEF Spec
=============================================================================
