------------------------------- MODULE HttpHead ------------------------------
(***************************************************************************)
(* The head that turns an IP packet into an HTTP message: VpnPacket        *)
(* (vpn_packet.cpp), the two writers and the parser of sockhttp.cpp.       *)
(*                                                                         *)
(* The packet is read into the middle of a buffer and the head is pushed   *)
(* in front of it.  The client writes requests; the server is built from   *)
(* the same file (LINUX_PLATFORM) and writes responses.  The receiver      *)
(* parses however much of the message it has so far.                       *)
(*                                                                         *)
(* Of a line only its name, its length and the value the parser looks at   *)
(* are modelled; a character is the line it belongs to and whether it is   *)
(* the carriage return, the line feed or text.  The packet is obfuscated   *)
(* before the head is pushed and made clear after it is popped: an         *)
(* exclusive or with a key, of which a byte keeps the bytes it has met.    *)
(***************************************************************************)
EXTENDS Integers, Sequences, FiniteSets, FiniteSetsExt

CONSTANTS Capacity,     \* of the static vpn_packet of tun_and_socket
          IpHeader,     \* sizeof(struct ip)
          PacketSizes,  \* the sizes of the packets the utun device gives
          Hosts,        \* the lengths of the host names
          Agents,       \* the lengths of the user agents
          Mimes,        \* the MIME types: records of a subtype and a length
          Servers,      \* the lengths of the server names, with their "/"
          Ages,         \* the numbers of digits of the random max-age
          Garbage,      \* what an uninitialised length may hold
          MaxPackets    \* bound on the number of messages written

\* The length of a packet has at most four digits.
ASSUME PacketAssumption == /\ Capacity \in 0..9999
                           /\ IpHeader \in Nat \ {0}
                           /\ PacketSizes \subseteq Nat
                           /\ Garbage \subseteq Int
                           /\ MaxPackets \in Nat
\* No head holds the MIME type of a web page.
ASSUME StringsAssumption == /\ Hosts \cup Agents \cup Servers \cup Ages \subseteq Nat
                            /\ \A mime \in Mimes : /\ mime.size \in Nat
                                                   /\ mime.subtype \notin {"css", "html", "xml"}
\* The strings of a head leave it shorter than the room vpn_packet has for it.
ASSUME RoomAssumption ==
  /\ \A host \in Hosts, agent \in Agents, mime \in Mimes, age \in Ages :
       239 + host + agent + mime.size + age <= Capacity \div 4
  /\ \A server \in Servers, mime \in Mimes, age \in Ages :
       229 + server + mime.size + age <= Capacity \div 4

VARIABLES front,       \* _front_offset
          back,        \* _back_offset
          outPackets,  \* out_packets
          head,        \* the lines in front of the packet
          cut,         \* how much of the message the receiver has
          initial,     \* the lengths before it parsed that
          found        \* what write_tun_http made of it

vars == <<front, back, outPackets, head, cut, initial, found>>

None == [ret |-> "none"]

-----------------------------------------------------------------------------
(* Lines and characters.                                                   *)

Line(name, text, value) == [name |-> name, size |-> text + 2, value |-> value]

Digits(n) == CASE n < 10 -> 1 [] n < 100 -> 2 [] n < 1000 -> 3 [] OTHER -> 4

\* Where each of some lines ends.
Ends(lines) ==
  LET end[k \in 0..Len(lines)] == IF k = 0 THEN 0 ELSE end[k - 1] + lines[k].size
  IN  end

HeadSize(lines) == Ends(lines)[Len(lines)]

Character(line, j) ==
  [line |-> line,
   is   |-> CASE j = line.size - 1 -> "CR" [] j = line.size -> "LF" [] OTHER -> "text",
   keys |-> {}]

Characters(lines) ==
  LET end   == Ends(lines)
      at(p) == CHOOSE k \in DOMAIN lines : p \in (end[k - 1] + 1)..end[k]
  IN  [p \in 1..HeadSize(lines) |-> Character(lines[at(p)], p - end[at(p) - 1])]

\* A byte of a packet is its place.
Packet(n) == [j \in 1..n |-> [line |-> Line("body", n, j), is |-> "text", keys |-> {}]]

-----------------------------------------------------------------------------
(* The obfuscation.                                                        *)

\* A byte that meets a key: the second time it is as it was.
Meet(byte, key) == [byte EXCEPT !.keys = SymDiff(@, {key})]

\* obfuscation_utl::encode of the bytes first .. last, and decode, which is the same.
\* The key depends on their number; the whole words meet its four bytes in turn, and
\* so does the rest.  An empty range is left alone.
Encode(data, first, last) ==
  [j \in DOMAIN data |->
     IF j \in first..last
       THEN Meet(data[j], <<last - first + 1, (j - first) % 4>>)
       ELSE data[j]]

\* http_write: the first four bytes and the rest on their own.
Obfuscate(packet) == Encode(Encode(packet, 1, 4), 5, Len(packet))

\* Fault: the packet is decoded in one piece, as the request of get_private_ip_http is
\* encoded.
ClearInOne(data, first, last) == Encode(data, first, last)

\* write_tun_http: the same two pieces, wherever the lengths say the packet is.
Clear(data, first, last) == Encode(Encode(data, first, first + 3), first + 4, last)

-----------------------------------------------------------------------------
(* The writers.                                                            *)

ContentLength(n) == Line("Content-Length", 16 + Digits(n), n)

EmptyLine == Line("", 0, 0)

ContentType(mime) == Line("Content-Type", 14 + mime.size, mime.subtype)

CacheControl(age) == Line("Cache-Control", 23 + age, "age")

Method(n) == CASE outPackets <= 1 -> 3
               [] outPackets > 1 /\ (n > 1024 \/ n % 3 = 1) -> 4
               [] OTHER -> 3

\* write_http_request_head_1; the five settings are rotated by a random offset.
RequestHead(host, agent, mime, age, offset, n) ==
  LET settings == <<Line("Connection", 22, "keep-alive"), Line("Accept-Language", 25, "en"),
                    ContentType(mime), Line("Accept", 82, "types"), CacheControl(age)>>
      rotated(i) == settings[((offset + i) % 5) + 1]
  IN  <<Line("GET", Method(n) + 11, "page"), Line("Host", 6 + host, "host"),
        rotated(0), rotated(1), rotated(2), rotated(3), rotated(4),
        Line("User-Agent", 12 + agent, "agent"), ContentLength(n), EmptyLine>>

\* write_http_response_head_1; the version is one digit, a dot and one digit.
ResponseHead(server, mime, age, n) ==
  <<Line("HTTP", 15, "OK"), Line("Date", 35, "date"),
    Line("Server", 8 + server + 3, "version"), CacheControl(age),
    Line("Connection", 22, "keep-alive"), Line("Expires", 38, "date"), ContentType(mime),
    Line("Content-Encoding", IF n % 2 = 0 THEN 31 ELSE 22, "gzip"),
    ContentLength(n), EmptyLine>>

-----------------------------------------------------------------------------
(* The parser.                                                             *)

\* The carriage returns and line feeds.
Breaks(input) == {p \in DOMAIN input : input[p].is # "text"}

\* parse_http_head: where the line that begins at begin may end.  The first line ends
\* at a carriage return and a line feed, each later one at whichever of the two comes
\* first.
LineEnds(input, breaks, begin) ==
  {p \in breaks : IF begin = 1
                    THEN input[p].is = "CR" /\ p < Len(input) /\ input[p + 1].is = "LF"
                    ELSE p >= begin}

\* Fault: a version is taken for letters.
AlphaCodedAlways(line) == line.name = "Server"

\* What the value of a "Server:" line must be to carry lengths as letters.
AlphaCoded(line) == line.name = "Server" /\ line.value = "letters"

Markup == {"css", "html", "xml"}

\* Fault: a carriage return alone is taken for the empty line.
EndsAtReturn(chars) == chars[1].is = "CR"

\* The empty line, whole.
EndsHead(chars) == Len(chars) = 2 /\ chars[1].is = "CR" /\ chars[2].is = "LF"

\* One line of parse_http_head and what the loop of pop_front_xdpi_head makes of it,
\* after pos characters and with the lengths as earlier lines left them.  The first ends
\* at an empty line, the second there or at lengths coded as letters.
ReadLine(input, breaks, so) ==
  LET begin == so.pos + 1
      ends  == LineEnds(input, breaks, begin)
      split == CHOOSE p \in ends : \A q \in ends : p <= q
      last  == IF split < Len(input) THEN split + 1 ELSE split
      chars == SubSeq(input, begin, last)
      line  == input[begin].line
      long  == Len(chars) >= 8
  IN  IF so.done \/ ends = {} THEN so
      ELSE [pos    |-> last,
            done   |-> split = begin \/ (long /\ AlphaCoded(line)),
            head   |-> IF EndsHead(chars) THEN last ELSE so.head,
            body   |-> IF long /\ line.name = "Content-Length" THEN line.value ELSE so.body,
            markup |-> so.markup \/ (long /\ line.name = "Content-Type" /\ line.value \in Markup)]

\* All the lines: there are no more of them than breaks.
ReadLines(input, lengths) ==
  LET breaks == Breaks(input)
      count  == Cardinality(breaks)
      read[k \in 0..count] ==
        IF k = 0 THEN [pos |-> 0, done |-> FALSE, head |-> lengths.head, body |-> lengths.body,
                       markup |-> FALSE]
        ELSE ReadLine(input, breaks, read[k - 1])
  IN  read[count]

\* pop_front_xdpi_head: what it returns and the two lengths it leaves.  The sum of
\* the lengths is compared as an unsigned number.
PopFront(input, lengths) ==
  LET so == ReadLines(input, lengths)
  IN  IF so.pos = 0 \/ so.head = 0 \/ so.head + so.body \notin 0..Len(input)
        THEN [ret |-> "again", head |-> so.head, body |-> so.body]
        ELSE [ret |-> "whole", head |-> so.head,
              body |-> IF so.markup THEN 0 ELSE so.body]

\* What write_tun_http hands to the device of a whole message: clear if it is the
\* packet of n bytes that was written.
Taken(input, lengths, n) ==
  LET so    == PopFront(input, lengths)
      first == so.head + 1
      last  == so.head + so.body
  IN  IF so.ret = "again" THEN so
      ELSE [ret |-> "whole", head |-> so.head, body |-> so.body,
            clear |-> first > 0 /\ SubSeq(Clear(input, first, last), first, last) = Packet(n)]

-----------------------------------------------------------------------------
(* One packet at a time.                                                   *)

\* Fault: the packet is read to the start of the buffer.
NoRoom == 0

\* _front_offset after reset: a quarter of the buffer is left for the head.
Room == Capacity \div 4

\* Fault: as much as the buffer holds in all may be read.
RemainWhole == Capacity

\* remain_size after reset.
RemainSize == Capacity - Room

Init == /\ front = Room
        /\ back = Room
        /\ outPackets = 0
        /\ head = <<>>
        /\ cut = 0
        /\ initial = [head |-> 0, body |-> 0]
        /\ found = None

\* The utun device has a packet of m bytes: reset and tun_dev_read, which takes
\* no more than fits.
Read(m) == LET n == IF m <= RemainSize THEN m ELSE RemainSize
           IN  /\ outPackets < MaxPackets
               /\ n >= IpHeader
               /\ front' = Room
               /\ back' = Room + n
               /\ head' = <<>>
               /\ cut' = 0
               /\ initial' = [head |-> 0, body |-> 0]
               /\ found' = None
               /\ UNCHANGED outPackets

PacketSize == back - front - HeadSize(head)

\* push_front
Push(lines) == /\ head = <<>>
               /\ back > front
               /\ head' = lines
               /\ front' = front - HeadSize(lines)
               /\ UNCHANGED <<back, cut, initial, found>>

\* Only the client's head counts the packet.
PushRequest == /\ \E host \in Hosts, agent \in Agents, mime \in Mimes, age \in Ages, offset \in 0..4 :
                    Push(RequestHead(host, agent, mime, age, offset, PacketSize))
               /\ outPackets' = outPackets + 1

PushResponse == /\ \E server \in Servers, mime \in Mimes, age \in Ages :
                     Push(ResponseHead(server, mime, age, PacketSize))
                /\ UNCHANGED outPackets

\* What reaches the receiver: this message and the beginning of the next one.
Stream ==
  Characters(head) \o Obfuscate(Packet(PacketSize)) \o Characters(SubSeq(head, 1, 2))

\* The cuts of the stream near the end of a line or of the packet.
Cuts == LET lineEnds == {Ends(head)[k] : k \in 1..Len(head)}
            end      == HeadSize(head) + PacketSize
            edges    == lineEnds \cup {end, end + head[1].size}
        IN  {edge + d : edge \in edges, d \in -2..2}

\* What the two lengths may be before the parser sets them.
Lengths == [head : Garbage, body : Garbage]

\* The receiver has the stream up to a cut and parses that.
Receive == /\ head # <<>>
           /\ found = None
           /\ \E stream \in {Stream}, n \in Cuts, lengths \in Lengths :
                /\ cut' = n
                /\ initial' = lengths
                /\ found' = Taken(SubSeq(stream, 1, n), lengths, PacketSize)
           /\ UNCHANGED <<front, back, outPackets, head>>

Next == \/ \E m \in PacketSizes : Read(m)
        \/ PushRequest
        \/ PushResponse
        \/ Receive

Spec == Init /\ [][Next]_vars

-----------------------------------------------------------------------------
TypeOK == /\ front \in Int
          /\ back \in 0..Capacity
          /\ outPackets \in 0..MaxPackets
          /\ found # None => found.head \in Int /\ found.body \in Int

\* There is room in front of the packet for every head either side writes: the
\* assertion of push_front.
HeadFits == front >= 0

\* With the whole message there, whatever follows it and whatever the lengths
\* were before, the receiver finds the head and the packet that were written, and
\* decoding gives the packet back.
RoundTrip ==
  found # None /\ cut >= HeadSize(head) + PacketSize =>
    found = [ret |-> "whole", head |-> HeadSize(head), body |-> PacketSize, clear |-> TRUE]

\* With a part of it there, the parser learns the length of the packet at the
\* carriage return of its line and the length of the head at its last byte,
\* leaves each as it was before that, and decides from the two of them whether
\* the message is whole.  HttpRelay's ReadHead and Ready say the same.
PrefixReading ==
  found # None =>
    LET size == HeadSize(head)
    IN  /\ found.head = (IF cut >= size THEN size ELSE initial.head)
        /\ found.body = (IF cut >= size - 3 THEN PacketSize ELSE initial.body)
        /\ found.ret = "whole" <=> /\ cut >= head[1].size
                                   /\ found.head # 0
                                   /\ found.head + found.body \in 0..cut
=============================================================================
