----------------------------- MODULE HttpRelay ------------------------------
(***************************************************************************)
(* The server-to-device direction in HTTP mode: write_tun_http of          *)
(* network_service.cpp and pop_front_xdpi_head of sockhttp.cpp.  Each IP   *)
(* packet travels as the body of an HTTP message over plain TCP;           *)
(* write_tun_http looks for a whole message at the front of what it has    *)
(* and keeps an unfinished one in g_tcp_buf until the next read.           *)
(*                                                                         *)
(* The two lengths are local variables of write_tun_http that nothing      *)
(* initialises: pop_front_xdpi_head sets each when it meets the line that  *)
(* tells it, and compares them with what it has in any case.               *)
(*                                                                         *)
(* A byte is its position in everything the server ever sends, as in       *)
(* TunRelay.  Of a head, the first unit is a part of the first line, the   *)
(* second completes that line, the last but one completes Content-Length,  *)
(* and the last is the empty line.                                         *)
(***************************************************************************)
EXTENDS Integers, Sequences

CONSTANTS BufSize,     \* BUF_SIZE; g_tcp_buf holds twice as much
          Heads,       \* the lengths of the heads the server writes
          Bodies,      \* the lengths of the packets
          Garbage,     \* what an uninitialised length may hold
          SplitHeads,  \* whether a read may end inside a head
          MaxSent      \* bound on the number of messages sent

ASSUME SizesAssumption == /\ BufSize \in Nat
                          /\ Heads \subseteq Nat \ 0..3
                          /\ Bodies \subseteq Nat \ {0}
                          /\ \A h \in Heads, b \in Bodies : h + b <= BufSize
ASSUME GarbageAssumption == Garbage \subseteq Int
ASSUME SplitAssumption == SplitHeads \in BOOLEAN

VARIABLES sent,        \* the messages the server has sent
          heads,       \* the lengths of their heads
          wire,        \* the position of the next byte it will send
          rcvd,        \* the position of the next byte read will return
          relay,       \* g_tcp_buf[0 .. g_tcp_len - 1]
          data,        \* ip_packet_data[0 .. ip_packet_len - 1]
          headLength,  \* http_head_length
          bodyLength,  \* http_body_length
          delivered,   \* the messages whose bodies went to the utun device
          pc           \* "loop" at select, "scan" in write_tun_http, "down"

lengths == <<headLength, bodyLength>>
vars == <<sent, heads, wire, rcvd, relay, data, lengths, delivered, pc>>

Message(first, len) == [j \in 1..len |-> first + j - 1]

TypeOK == /\ sent \in Seq(Seq(Nat))
          /\ heads \in Seq(Heads)
          /\ Len(heads) = Len(sent)
          /\ wire \in Nat
          /\ rcvd \in 0..wire
          /\ relay \in Seq(Nat)
          /\ data \in Seq(Nat)
          /\ Len(relay) <= 2 * BufSize
          /\ Len(data) <= 2 * BufSize
          /\ headLength \in Int
          /\ bodyLength \in Int
          /\ delivered \in Seq(Seq(Nat))
          /\ pc \in {"loop", "scan", "down"}

Init == /\ sent = <<>>
        /\ heads = <<>>
        /\ wire = 0
        /\ rcvd = 0
        /\ relay = <<>>
        /\ data = <<>>
        /\ headLength = 0
        /\ bodyLength = 0
        /\ delivered = <<>>
        /\ pc = "down"

-----------------------------------------------------------------------------
(* The server and the user.                                                *)

Send(h, b) == /\ Len(sent) < MaxSent
              /\ sent' = Append(sent, Message(wire, h + b))
              /\ heads' = Append(heads, h)
              /\ wire' = wire + h + b
              /\ UNCHANGED <<rcvd, relay, data, lengths, delivered, pc>>

\* tun_and_socket begins on a fresh TCP connection and clears g_tcp_len.
Connect == /\ pc = "down"
           /\ rcvd' = wire
           /\ relay' = <<>>
           /\ pc' = "loop"
           /\ UNCHANGED <<sent, heads, wire, data, lengths, delivered>>

Leave == /\ pc = "loop"
         /\ pc' = "down"
         /\ UNCHANGED <<sent, heads, wire, rcvd, relay, data, lengths, delivered>>

-----------------------------------------------------------------------------
(* One call of write_tun_http.                                             *)

\* A read up to position p ends inside a head, past the first line of it.
InsideHead(p) == \E i \in 1..Len(sent) : p - sent[i][1] \in 2..(heads[i] - 1)

\* Fault: the number of bytes asked for is taken for the number read.
ReceiveAsked(n) == /\ pc = "loop"
                   /\ n <= wire - rcvd
                   /\ rcvd' = rcvd + BufSize
                   /\ relay' = <<>>
                   /\ pc' = "scan"
                   /\ data' = relay \o Message(rcvd, BufSize)
                   /\ headLength' \in Garbage
                   /\ bodyLength' \in Garbage
                   /\ UNCHANGED <<sent, heads, wire, delivered>>

\* read returns n bytes and write_tun_http puts the kept tail in front.
Receive(n) ==
  /\ pc = "loop"
  /\ n <= wire - rcvd
  /\ SplitHeads \/ ~InsideHead(rcvd + n)
  /\ rcvd' = rcvd + n
  /\ relay' = <<>>
  /\ IF relay # <<>> /\ n + Len(relay) > 2 * BufSize
       THEN pc' = "down" /\ UNCHANGED <<data, lengths>>
       ELSE /\ pc' = "scan"
            /\ data' = relay \o Message(rcvd, n)
            /\ headLength' \in Garbage
            /\ bodyLength' \in Garbage
  /\ UNCHANGED <<sent, heads, wire, delivered>>

Finish == /\ data' = <<>>
          /\ pc' = "loop"
          /\ UNCHANGED <<sent, heads, wire, rcvd, delivered>>

ScanDone == /\ pc = "scan"
            /\ data = <<>>
            /\ relay' = relay
            /\ Finish
            /\ UNCHANGED lengths

\* Fault: a body length that is already there is taken for this message's.
ReadHeadOnce(i) ==
  [line |-> Len(data) >= 2,
   head |-> IF Len(data) >= heads[i] THEN heads[i] ELSE headLength,
   body |-> IF Len(data) >= heads[i] - 1 /\ bodyLength = 0
              THEN Len(sent[i]) - heads[i]
              ELSE bodyLength]

\* What pop_front_xdpi_head learns from the lines of message i that are there:
\* whether there is a line, and the two lengths.  A length whose line is not
\* there stays as it was.
ReadHead(i) ==
  [line |-> Len(data) >= 2,
   head |-> IF Len(data) >= heads[i] THEN heads[i] ELSE headLength,
   body |-> IF Len(data) >= heads[i] - 1 THEN Len(sent[i]) - heads[i] ELSE bodyLength]

\* What it may learn from the data.  Where no message starts, after one was cut
\* wrongly, there is no line or there are lines with any lengths.
Found ==
  LET starting == {i \in 1..Len(sent) : sent[i][1] = data[1]}
  IN  IF starting = {}
        THEN [line : BOOLEAN, head : Garbage \cup {headLength},
              body : Garbage \cup {bodyLength}]
        ELSE {ReadHead(i) : i \in starting}

\* Fault: a message that exactly fills the data is not taken.
ReadyStrictly(found) == /\ found.line
                        /\ found.head # 0
                        /\ Len(data) > found.head + found.body

\* The message is whole as far as the lengths say; their sum is compared as an
\* unsigned number.
Ready(found) == /\ found.line
                /\ found.head # 0
                /\ found.head + found.body \in 0..Len(data)

\* The packet is not whole: keep what is there.
Keep(found) == /\ ~Ready(found)
               /\ relay' = data
               /\ Finish
               /\ UNCHANGED lengths

\* decode, tun_dev_write (its result is ignored) and on to the next message.
\* The sum of two leftover lengths is taken not to overflow an int. A negative head, which only
\* a split first line can leave in place, has the code decode bytes in front of the data
\* as well: they are used up already, and not modelled.
Deliver(found) ==
  LET len == found.head + found.body
  IN  /\ Ready(found)
      /\ delivered' = Append(delivered, SubSeq(data, 1, len))
      /\ data' = SubSeq(data, len + 1, Len(data))
      /\ headLength' = found.head
      /\ bodyLength' = found.body
      /\ UNCHANGED <<sent, heads, wire, rcvd, relay, pc>>

Parse == /\ pc = "scan"
         /\ data # <<>>
         /\ \E found \in Found : Keep(found) \/ Deliver(found)

Next == \/ \E h \in Heads, b \in Bodies : Send(h, b)
        \/ Connect
        \/ Leave
        \/ \E n \in 1..BufSize : Receive(n)
        \/ ScanDone
        \/ Parse

Spec == Init /\ [][Next]_vars

-----------------------------------------------------------------------------
(* Properties when no read ends inside a head.                             *)

\* write_tun_http never returns while it holds a message it has read
\* completely, and what it holds is the beginning of one message.
NothingHeldBack ==
  pc = "loop" /\ relay # <<>> =>
    \E i \in 1..Len(sent) : sent[i][1] = relay[1] /\ Len(relay) < Len(sent[i])

Cursor == IF pc = "down" THEN 0 ELSE rcvd - Len(relay) - Len(data)

Messages == INSTANCE PacketStream
              WITH Lengths <- {h + b : h \in Heads, b \in Bodies},
                   up <- pc # "down", cursor <- Cursor

\* Whatever the uninitialised lengths hold, the messages come out whole, once
\* and in order, however the reads split and join the bodies.
ImplementsPacketStream == Messages!Spec

(* What the code says of any reads.                                        *)

\* "whole packet not ready yet": nothing is taken for a packet before the whole
\* message is there.
OnlyWholePackets ==
  \A k \in 1..Len(delivered) : \E i \in 1..Len(sent) : delivered[k] = sent[i]
=============================================================================
