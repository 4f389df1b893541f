---------------------------- MODULE PacketStream ----------------------------
(***************************************************************************)
(* What the tunnel promises for the server-to-client direction: the IP     *)
(* packets the VPN server sends come out of the utun device whole, once,   *)
(* and in the order they were sent; only a change of connection may skip   *)
(* packets.  TunRelay implements it over a byte stream.                    *)
(*                                                                         *)
(* A byte is named by its position in everything the server ever sends; a  *)
(* packet is the sequence of the positions of its bytes.                   *)
(***************************************************************************)
EXTENDS Naturals, Sequences

CONSTANTS Lengths,   \* the packet lengths the server uses
          MaxSent    \* bound on the number of packets sent

VARIABLES sent,       \* the packets the server has sent
          wire,       \* the position of the next byte it will send
          up,         \* whether there is a session
          cursor,     \* in a session, the next byte to be delivered
          delivered   \* the packets written to the utun device

vars == <<sent, wire, up, cursor, delivered>>

Packet(first, len) == [j \in 1..len |-> first + j - 1]

Init == /\ sent = <<>>
        /\ wire = 0
        /\ up = FALSE
        /\ cursor = 0
        /\ delivered = <<>>

Send(len) == /\ Len(sent) < MaxSent
             /\ sent' = Append(sent, Packet(wire, len))
             /\ wire' = wire + len
             /\ UNCHANGED <<up, cursor, delivered>>

\* A session starts with the next byte the server sends.
Connect == /\ ~up
           /\ up' = TRUE
           /\ cursor' = wire
           /\ UNCHANGED <<sent, wire, delivered>>

\* A session ends; what was under way is lost.
Break == /\ up
         /\ up' = FALSE
         /\ cursor' = 0
         /\ UNCHANGED <<sent, wire, delivered>>

\* The packet that starts at the cursor reaches the device.
Deliver == /\ up
           /\ \E i \in 1..Len(sent) :
                /\ sent[i][1] = cursor
                /\ delivered' = Append(delivered, sent[i])
                /\ cursor' = cursor + Len(sent[i])
           /\ UNCHANGED <<sent, wire, up>>

Next == \/ \E len \in Lengths : Send(len)
        \/ Connect
        \/ Break
        \/ Deliver

Spec == Init /\ [][Next]_vars

-----------------------------------------------------------------------------
(* What an implementation inherits.                                        *)

\* Packets leave in the order they were sent and none is written twice.
InOrder == \A j, k \in 1..Len(delivered) : j < k => delivered[j][1] < delivered[k][1]
=============================================================================
