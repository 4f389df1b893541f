------------------------------ MODULE TunRelay ------------------------------
(***************************************************************************)
(* The client end of the server-to-device direction in SSL mode: write_tun *)
(* of network_service.cpp, called by tun_and_socket with every ssl_read.   *)
(* TLS gives a byte stream, so a read may end inside a packet or hold      *)
(* several: write_tun cuts the bytes at the ip_len fields, and keeps an    *)
(* unfinished tail in g_tcp_buf until the next read.                       *)
(*                                                                         *)
(* A byte is its position in everything the server ever sends, so a buffer *)
(* is a sequence of positions, and a packet arrives intact when it is the  *)
(* sequence of the positions it was sent at.                               *)
(***************************************************************************)
EXTENDS Naturals, Sequences

CONSTANTS Hdr,       \* sizeof(struct ip)
          BufSize,   \* BUF_SIZE; g_tcp_buf holds twice as much
          Lengths,   \* the packet lengths the server uses
          Junk,      \* values of ip_len read where no packet starts
          MaxSent    \* bound on the number of packets sent

ASSUME SizesAssumption == /\ Hdr \in Nat \ {0}
                          /\ BufSize \in Nat
                          /\ Hdr <= BufSize
ASSUME LengthsAssumption == Lengths \subseteq Nat \ {0}
ASSUME JunkAssumption == Junk \subseteq Nat

VARIABLES sent,       \* the packets the server has sent
          wire,       \* the position of the next byte it will send
          rcvd,       \* the position of the next byte ssl_read will return
          relay,      \* g_tcp_buf[0 .. g_tcp_len - 1]
          data,       \* ip_packet_data[0 .. ip_packet_len - 1] in write_tun
          delivered,  \* the writes to the utun device
          pc          \* "loop" at select, "scan" in write_tun, "down" no session

vars == <<sent, wire, rcvd, relay, data, delivered, pc>>

Packet(first, len) == [j \in 1..len |-> first + j - 1]

TypeOK == /\ sent \in Seq(Seq(Nat))
          /\ wire \in Nat
          /\ rcvd \in 0..wire
          /\ relay \in Seq(Nat)
          /\ Len(relay) <= 2 * BufSize
          /\ data \in Seq(Nat)
          /\ Len(data) <= 2 * BufSize
          /\ delivered \in Seq(Seq(Nat))
          /\ pc \in {"loop", "scan", "down"}

Init == /\ sent = <<>>
        /\ wire = 0
        /\ rcvd = 0
        /\ relay = <<>>
        /\ data = <<>>
        /\ delivered = <<>>
        /\ pc = "down"

-----------------------------------------------------------------------------
(* The server and the user.                                                *)

Send(len) == /\ Len(sent) < MaxSent
             /\ sent' = Append(sent, Packet(wire, len))
             /\ wire' = wire + len
             /\ UNCHANGED <<rcvd, relay, data, delivered, pc>>

\* Fault: tun_and_socket does not clear g_tcp_len.
ConnectStale == /\ pc = "down"
                /\ rcvd' = wire
                /\ pc' = "loop"
                /\ UNCHANGED <<sent, wire, relay, data, delivered>>

\* tun_and_socket begins on a fresh TLS connection: what the server put on the
\* previous one is never read, and g_tcp_len is cleared.
Connect == /\ pc = "down"
           /\ rcvd' = wire
           /\ relay' = <<>>
           /\ pc' = "loop"
           /\ UNCHANGED <<sent, wire, data, delivered>>

\* The loop ends between two reads: a stop, a timeout or a read error.
\* g_tcp_buf keeps whatever it holds.
Leave == /\ pc = "loop"
         /\ pc' = "down"
         /\ UNCHANGED <<sent, wire, rcvd, relay, data, delivered>>

-----------------------------------------------------------------------------
(* One call of write_tun.                                                  *)

\* Fault: the number of bytes asked for is taken for the number read.
ReceiveAsked(n) == /\ pc = "loop"
                   /\ n <= wire - rcvd
                   /\ rcvd' = rcvd + BufSize
                   /\ relay' = <<>>
                   /\ pc' = "scan"
                   /\ data' = relay \o Packet(rcvd, BufSize)
                   /\ UNCHANGED <<sent, wire, delivered>>

\* ssl_read returns n bytes and write_tun puts the kept tail in front of them.
Receive(n) ==
  LET chunk == Packet(rcvd, n)
  IN  /\ pc = "loop"
      /\ n <= wire - rcvd
      /\ rcvd' = rcvd + n
      /\ relay' = <<>>
      /\ IF relay # <<>> /\ n + Len(relay) > 2 * BufSize
           THEN pc' = "down" /\ UNCHANGED data
           ELSE pc' = "scan" /\ data' = relay \o chunk
      /\ UNCHANGED <<sent, wire, delivered>>

\* What ntohs(iph->ip_len) may be for a header read at position p: the length
\* of the packet that starts there, anything inside a packet.
LengthField(p) ==
  LET starting == {i \in 1..Len(sent) : sent[i][1] = p}
  IN  IF starting = {} THEN Junk ELSE {Len(sent[i]) : i \in starting}

Finish == /\ data' = <<>>
          /\ pc' = "loop"
          /\ UNCHANGED <<sent, wire, rcvd, delivered>>

\* Every byte is used up.
ScanDone == /\ pc = "scan"
            /\ data = <<>>
            /\ relay' = relay
            /\ Finish

\* Less than a header is left: keep it.
KeepShort == /\ pc = "scan"
             /\ Len(data) \in 1..(Hdr - 1)
             /\ relay' = data
             /\ Finish

\* Faults: a tail of any announced length is kept; a whole packet is kept; the
\* tail is not kept.
KeepAny(len) == /\ Len(data) < len
                /\ relay' = data
                /\ Finish

KeepWhole(len) == /\ Len(data) <= len
                  /\ len <= BufSize
                  /\ relay' = data
                  /\ Finish

KeepNothing(len) == /\ Len(data) < len
                    /\ len <= BufSize
                    /\ relay' = <<>>
                    /\ Finish

\* Part of a packet is left: keep it.
KeepPartial(len) == /\ Len(data) < len
                    /\ len <= BufSize
                    /\ relay' = IF relay = <<>> THEN data ELSE relay
                    /\ Finish

\* A length no buffer is made for, or zero: everything read is thrown away.
DropBad(len) == /\ len > BufSize \/ len = 0
                /\ relay' = <<>>
                /\ Finish

\* Fault: the loop does not advance past the packet.
WriteAgain(len) == /\ len \in 1..BufSize
                   /\ len <= Len(data)
                   /\ delivered' = Append(delivered, SubSeq(data, 1, len))
                   /\ UNCHANGED <<sent, wire, rcvd, relay, data, pc>>

\* tun_dev_write of one packet.
WritePacket(len) == /\ len \in 1..BufSize
                    /\ len <= Len(data)
                    /\ delivered' = Append(delivered, SubSeq(data, 1, len))
                    /\ data' = SubSeq(data, len + 1, Len(data))
                    /\ UNCHANGED <<sent, wire, rcvd, relay, pc>>

\* tun_dev_write fails: write_tun returns 1 and tun_and_socket leaves its loop.
WriteFails(len) == /\ len \in 1..BufSize
                   /\ len <= Len(data)
                   /\ data' = <<>>
                   /\ pc' = "down"
                   /\ UNCHANGED <<sent, wire, rcvd, relay, delivered>>

\* A whole header is there: read its ip_len.
Parse == /\ pc = "scan"
         /\ Len(data) >= Hdr
         /\ \E len \in LengthField(data[1]) : \/ KeepPartial(len)
                                              \/ DropBad(len)
                                              \/ WritePacket(len)
                                              \/ WriteFails(len)

Next == \/ \E len \in Lengths : Send(len)
        \/ Connect
        \/ Leave
        \/ \E n \in 1..BufSize : Receive(n)
        \/ ScanDone
        \/ KeepShort
        \/ Parse

Spec == Init /\ [][Next]_vars

-----------------------------------------------------------------------------
(* Properties under any stream, malformed lengths included.                *)

\* Between two calls of write_tun, g_tcp_buf has room for any further read: the
\* "relay size over" branch of write_tun, which would end the session, is
\* never taken.
RelayHasRoom == pc = "loop" => Len(relay) + BufSize <= 2 * BufSize

(* Properties when the server sends packets of Hdr .. BufSize bytes.       *)

\* write_tun looks for a header only where a packet starts, whatever the reads
\* split, and whatever an earlier session left in g_tcp_buf.
Aligned == pc = "scan" /\ data # <<>> => \E i \in 1..Len(sent) : sent[i][1] = data[1]

\* Every write to the device is one packet the server sent, whole and unmixed.
Intact == \A k \in 1..Len(delivered) : \E i \in 1..Len(sent) : delivered[k] = sent[i]

\* Packets leave in the order they were sent and none is written twice.
InOrder == \A j, k \in 1..Len(delivered) : j < k => delivered[j][1] < delivered[k][1]

\* write_tun never returns while it holds a packet it has read completely.
NothingHeldBack ==
  pc = "loop" /\ relay # <<>> =>
    \E i \in 1..Len(sent) : sent[i][1] = relay[1] /\ Len(relay) < Len(sent[i])

\* The first byte of the session that is not delivered: what has been read less
\* what is still held.
Cursor == IF pc = "down" THEN 0 ELSE rcvd - Len(relay) - Len(data)

Tunnel == INSTANCE PacketStream WITH up <- pc # "down", cursor <- Cursor

\* The byte stream and its reassembly implement the packet stream.
ImplementsPacketStream == Tunnel!Spec
=============================================================================
