--------------------------- MODULE HttpHeadProofs ---------------------------
(***************************************************************************)
(* The head of an HTTP message fits in front of its packet, and a receiver *)
(* that has any part of the message reads exactly what that part tells:    *)
(* the theorems of HttpHead, for every value of its constants.             *)
(*                                                                         *)
(* The parser goes through the lines one after the other, so the facts     *)
(* about it go by induction over the number of lines read.  The induction  *)
(* is over a set of naturals, which the provers can instantiate.           *)
(***************************************************************************)
EXTENDS HttpHead, FiniteSetTheorems, SequenceTheorems, TLAPS

-----------------------------------------------------------------------------
(* Induction over sets of naturals, and concatenation.                     *)

\* A set with 0 and the successor of each of its naturals has all the naturals: the
\* induction of the facts about the lines of a head.
LEMMA SetInduction ==
  ASSUME NEW S, 0 \in S, \A n \in Nat : n \in S => n + 1 \in S
  PROVE  Nat \subseteq S
<1> DEFINE Missing == {n \in Nat : n \notin S}
<1>1. SUFFICES ASSUME Missing # {} PROVE FALSE
  OBVIOUS
<1>2. IsWellFoundedOn(OpToRel(<, Nat), Nat)
  BY NatLessThanWellFounded
<1>3. PICK x \in Missing : \A y \in Missing : <<y, x>> \notin OpToRel(<, Nat)
  <2>1. Missing \subseteq Nat
    OBVIOUS
  <2> HIDE DEF Missing
  <2> QED BY <1>1, <1>2, <2>1, WFMin
<1>4. \A y \in Missing : ~(y < x)
  BY <1>3 DEF OpToRel
<1>5. x # 0 /\ x - 1 \notin Missing
  BY <1>4
<1> QED BY <1>5

\* A function on 1..m is a sequence of length m.
LEMMA FunctionIsSequence ==
  ASSUME NEW m \in Nat, NEW f, f = [i \in 1..m |-> f[i]], NEW S, \A i \in 1..m : f[i] \in S
  PROVE  f \in Seq(S) /\ Len(f) = m
<1>1. f \in [1..m -> S]
  OBVIOUS
<1> QED BY <1>1, SeqDef

\* Where the elements of a concatenation come from: the bytes of a message are those of
\* its head and then those of its packet.
LEMMA Concatenation ==
  ASSUME NEW m \in Nat, NEW n \in Nat, NEW f, NEW g,
         f = [i \in 1..m |-> f[i]], g = [i \in 1..n |-> g[i]]
  PROVE  /\ Len(f \o g) = m + n
         /\ f \o g = [i \in 1..(m + n) |-> (f \o g)[i]]
         /\ \A i \in 1..m : (f \o g)[i] = f[i]
         /\ \A i \in 1..n : (f \o g)[m + i] = g[i]
<1> DEFINE S == {f[i] : i \in 1..m} \cup {g[i] : i \in 1..n}
<1>1. f \in Seq(S) /\ Len(f) = m
  BY FunctionIsSequence
<1>2. g \in Seq(S) /\ Len(g) = n
  BY FunctionIsSequence
<1> HIDE DEF S
<1>3. /\ f \o g \in Seq(S)
      /\ Len(f \o g) = m + n
      /\ \A i \in 1..(m + n) : (f \o g)[i] = IF i <= m THEN f[i] ELSE g[i - m]
  BY <1>1, <1>2, ConcatProperties, ZenonT(60)
<1>4. f \o g \in [1..(m + n) -> S]
  BY <1>3, LenProperties
<1> QED BY <1>3, <1>4, SMTT(30)

-----------------------------------------------------------------------------
(* Where lines end, and their characters.                                  *)

\* Lines with at least two characters each, as Line writes them.
AreLines(lines) == /\ Len(lines) \in Nat
                   /\ DOMAIN lines = 1..Len(lines)
                   /\ \A k \in 1..Len(lines) : lines[k].size \in Nat \ 0..1

\* Ends satisfies its equation: it is built up line after line.
LEMMA EndsDef ==
  ASSUME NEW lines, Len(lines) \in Nat
  PROVE  Ends(lines) = [k \in 0..Len(lines) |->
                          IF k = 0 THEN 0 ELSE Ends(lines)[k - 1] + lines[k].size]
<1> DEFINE IsEnd(f, n) ==
             f = [k \in 0..n |-> IF k = 0 THEN 0 ELSE f[k - 1] + lines[k].size]
           S == {n \in Nat : \E f : IsEnd(f, n)}
<1>1. 0 \in S
  <2>1. IsEnd([k \in 0..0 |-> 0], 0)
    OBVIOUS
  <2> QED BY <2>1
<1>2. ASSUME NEW n \in Nat, n \in S
      PROVE  n + 1 \in S
  <2>1. PICK f : IsEnd(f, n)
    BY <1>2
  <2> DEFINE g == [k \in 0..(n + 1) |-> IF k = n + 1 THEN f[n] + lines[k].size ELSE f[k]]
  <2>2. \A k \in 0..(n + 1) : g[k] = IF k = 0 THEN 0 ELSE g[k - 1] + lines[k].size
    BY <2>1
  <2>3. IsEnd(g, n + 1)
    BY <2>2
  <2> HIDE DEF IsEnd, g
  <2> QED BY <2>3
<1>3. Nat \subseteq S
  <2> HIDE DEF S
  <2> QED BY <1>1, <1>2, SetInduction
<1>4. \E f : f = [k \in 0..Len(lines) |-> IF k = 0 THEN 0 ELSE f[k - 1] + lines[k].size]
  BY <1>3
<1> QED BY <1>4 DEF Ends

\* Each line ends its size after the one before it, so later lines end later.
LEMMA EndsGrow ==
  ASSUME NEW lines, AreLines(lines)
  PROVE  /\ Ends(lines)[0] = 0
         /\ \A k \in 0..Len(lines) : Ends(lines)[k] \in Nat
         /\ \A k \in 1..Len(lines) : Ends(lines)[k] = Ends(lines)[k - 1] + lines[k].size
         /\ \A j \in 0..Len(lines) : \A i \in 0..j : Ends(lines)[i] <= Ends(lines)[j]
<1> DEFINE end == Ends(lines)
<1>1. /\ end[0] = 0
      /\ \A k \in 1..Len(lines) : end[k] = end[k - 1] + lines[k].size
  <2> HIDE DEF end
  <2>1. end = [k \in 0..Len(lines) |-> IF k = 0 THEN 0 ELSE end[k - 1] + lines[k].size]
    BY EndsDef DEF AreLines, end
  <2> QED BY <2>1 DEF AreLines
<1> HIDE DEF end
<1> DEFINE S == {n \in Nat : n <= Len(lines) =>
                       /\ end[n] \in Nat
                       /\ \A i \in 0..n : end[i] \in Nat /\ end[i] <= end[n]}
<1>2. 0 \in S
  BY <1>1
<1>3. ASSUME NEW n \in Nat, n \in S
      PROVE  n + 1 \in S
  <2> SUFFICES ASSUME n + 1 <= Len(lines)
               PROVE  /\ end[n + 1] \in Nat
                      /\ \A i \in 0..(n + 1) : end[i] \in Nat /\ end[i] <= end[n + 1]
    OBVIOUS
  <2>1. Len(lines) \in Nat /\ lines[n + 1].size \in Nat
    BY DEF AreLines
  <2>2. end[n + 1] = end[n] + lines[n + 1].size
    BY <1>1, <2>1
  <2>3. end[n] \in Nat /\ \A i \in 0..n : end[i] \in Nat /\ end[i] <= end[n]
    BY <1>3, <2>1
  <2> QED BY <2>1, <2>2, <2>3
<1>4. Nat \subseteq S
  <2> HIDE DEF S
  <2> QED BY <1>2, <1>3, SetInduction
<1> QED BY <1>1, <1>4 DEF end, AreLines

\* The characters of a message at the places of a line are that line's, each in turn.
LEMMA CharactersOfLine ==
  ASSUME NEW lines, AreLines(lines), NEW k \in 1..Len(lines),
         NEW p \in (Ends(lines)[k - 1] + 1)..Ends(lines)[k]
  PROVE  Characters(lines)[p] = Character(lines[k], p - Ends(lines)[k - 1])
<1> DEFINE end == Ends(lines)
<1>1. Len(lines) \in Nat /\ DOMAIN lines = 1..Len(lines)
  BY DEF AreLines
<1>2. /\ \A j \in 0..Len(lines) : end[j] \in Nat
      /\ \A j \in 0..Len(lines) : \A i \in 0..j : end[i] <= end[j]
  BY EndsGrow
<1>3. k \in 1..Len(lines) /\ p \in (end[k - 1] + 1)..end[k]
  OBVIOUS
<1>4. p \in 1..HeadSize(lines)
  <2>1. end[k - 1] \in Nat /\ end[k] \in Nat /\ end[Len(lines)] \in Nat
    BY <1>1, <1>2
  <2>2. end[k] <= end[Len(lines)]
    BY <1>1, <1>2
  <2>3. HeadSize(lines) = end[Len(lines)]
    BY DEF HeadSize
  <2> HIDE DEF end
  <2> QED BY <1>3, <2>1, <2>2, <2>3
<1>5. ASSUME NEW i \in 1..Len(lines), p \in (end[i - 1] + 1)..end[i]
      PROVE  i = k
  <2>1. /\ end[i - 1] \in Nat /\ end[i] \in Nat
        /\ end[k - 1] \in Nat /\ end[k] \in Nat
    BY <1>1, <1>2
  <2>2. i < k => end[i] <= end[k - 1]
    BY <1>1, <1>2
  <2>3. k < i => end[k] <= end[i - 1]
    BY <1>1, <1>2
  <2> HIDE DEF end
  <2> QED BY <1>1, <1>3, <1>5, <2>1, <2>2, <2>3, SMTT(30)
<1>6. (CHOOSE i \in DOMAIN lines : p \in (end[i - 1] + 1)..end[i]) = k
  <2> HIDE DEF end
  <2> QED BY <1>1, <1>3, <1>5
<1>7. Characters(lines) = [q \in 1..HeadSize(lines) |->
        Character(lines[CHOOSE i \in DOMAIN lines : q \in (end[i - 1] + 1)..end[i]],
                  q - end[(CHOOSE i \in DOMAIN lines : q \in (end[i - 1] + 1)..end[i]) - 1])]
  BY DEF Characters
<1> HIDE DEF end
<1>8. Characters(lines)[p] = Character(lines[k], p - end[k - 1])
  BY <1>4, <1>6, <1>7
<1> QED BY <1>8 DEF end

\* A part of a sequence, element by element.
LEMMA Slice ==
  ASSUME NEW m \in Nat, NEW f, f = [i \in 1..m |-> f[i]], NEW a \in 1..(m + 1), NEW b \in 0..m
  PROVE  LET part == SubSeq(f, a, b)
             n    == IF a <= b THEN b - a + 1 ELSE 0
         IN  /\ Len(part) = n
             /\ part = [i \in 1..n |-> part[i]]
             /\ \A i \in 1..n : part[i] = f[a + i - 1]
<1> DEFINE S == {f[i] : i \in 1..m}
<1>1. f \in Seq(S) /\ Len(f) = m
  BY FunctionIsSequence
<1> HIDE DEF S
<1> DEFINE part == SubSeq(f, a, b)
           n    == IF a <= b THEN b - a + 1 ELSE 0
<1>2. part \in Seq(S) /\ Len(part) = n
  BY <1>1
<1>3. \A i \in 1..n : part[i] = f[a + i - 1]
  BY <1>1
<1>4. part \in [1..n -> S]
  <2> HIDE DEF part, n
  <2> QED BY <1>2, LenProperties
<1> HIDE DEF part, n
<1>5. part = [i \in 1..n |-> part[i]]
  BY <1>4
<1> QED BY <1>2, <1>3, <1>5 DEF part, n

-----------------------------------------------------------------------------
(* What the receiver has.                                                  *)

\* A message with those lines in front of a packet of size bytes, and the two first
\* lines of the next.
StreamOf(lines, size) ==
  Characters(lines) \o Obfuscate(Packet(size)) \o Characters(SubSeq(lines, 1, 2))

\* The first n characters of that message: each is the character of the line, or the
\* byte of the packet, whose place it has.
IsPrefix(input, lines, size, n) ==
  /\ Len(input) = n
  /\ input = [p \in 1..n |-> input[p]]
  /\ \A k \in 1..Len(lines) : \A p \in (Ends(lines)[k - 1] + 1)..Ends(lines)[k] :
       p <= n => input[p] = Character(lines[k], p - Ends(lines)[k - 1])
  /\ \A j \in 1..size : HeadSize(lines) + j <= n =>
       input[HeadSize(lines) + j] = Obfuscate(Packet(size))[j]

LEMMA StreamPrefix ==
  ASSUME NEW lines, AreLines(lines), Len(lines) >= 2, NEW size \in Nat
  PROVE  /\ Len(StreamOf(lines, size)) =
              HeadSize(lines) + size + lines[1].size + lines[2].size
         /\ \A n \in 0..Len(StreamOf(lines, size)) :
              IsPrefix(SubSeq(StreamOf(lines, size), 1, n), lines, size, n)
<1> DEFINE first  == Characters(lines)
           packet == Obfuscate(Packet(size))
           two    == SubSeq(lines, 1, 2)
           second == Characters(two)
           m      == HeadSize(lines)
<1>1. Len(lines) \in Nat
  BY DEF AreLines
<1>2. m \in Nat /\ first = [p \in 1..m |-> first[p]]
  BY <1>1, EndsGrow DEF HeadSize, Characters
<1>3. packet = [j \in 1..size |-> packet[j]]
  BY DEF Obfuscate, Encode, Packet
<1>4. Len(two) = 2 /\ DOMAIN two = 1..2 /\ two[1] = lines[1] /\ two[2] = lines[2]
  <2> DEFINE S == {lines[k] : k \in 1..2}
  <2>1. \A k \in 1..2 : lines[k] \in S
    OBVIOUS
  <2> HIDE DEF S
  <2>2. /\ two \in Seq(S)
        /\ Len(two) = IF 1 <= 2 THEN 2 - 1 + 1 ELSE 0
        /\ \A i \in 1..(2 - 1 + 1) : two[i] = lines[1 + i - 1]
    BY <2>1, SubSeqProperties
  <2> QED BY <2>2, LenProperties
<1>5. AreLines(two)
  BY <1>1, <1>4 DEF AreLines
<1>6. HeadSize(two) = lines[1].size + lines[2].size
  <2>1. /\ Ends(two)[0] = 0
        /\ Ends(two)[1] = Ends(two)[0] + two[1].size
        /\ Ends(two)[2] = Ends(two)[1] + two[2].size
    <3>1. /\ Ends(two)[0] = 0
          /\ \A k \in 1..2 : Ends(two)[k] = Ends(two)[k - 1] + two[k].size
      <4> HIDE DEF two
      <4> QED BY <1>4, <1>5, EndsGrow
    <3> HIDE DEF two
    <3> QED BY <3>1
  <2>2. lines[1].size \in Nat /\ lines[2].size \in Nat
    BY <1>1 DEF AreLines
  <2> QED BY <1>4, <2>1, <2>2 DEF HeadSize
<1>7. HeadSize(two) \in Nat /\ second = [p \in 1..HeadSize(two) |-> second[p]]
  <2>1. lines[1].size \in Nat /\ lines[2].size \in Nat
    BY <1>1 DEF AreLines
  <2> HIDE DEF two
  <2> QED BY <1>6, <2>1 DEF Characters
<1> DEFINE both == first \o packet
<1>8. /\ Len(both) = m + size
      /\ both = [i \in 1..(m + size) |-> both[i]]
      /\ \A i \in 1..m : both[i] = first[i]
      /\ \A i \in 1..size : both[m + i] = packet[i]
  <2>1. both = first \o packet /\ size \in Nat
    OBVIOUS
  <2> HIDE DEF first, packet, m, both
  <2>2. /\ Len(first \o packet) = m + size
        /\ first \o packet = [i \in 1..(m + size) |-> (first \o packet)[i]]
        /\ \A i \in 1..m : (first \o packet)[i] = first[i]
        /\ \A i \in 1..size : (first \o packet)[m + i] = packet[i]
    BY <1>2, <1>3, <2>1, Concatenation, SMTT(60)
  <2> QED BY <2>1, <2>2
<1> DEFINE all == both \o second
<1>9. /\ Len(all) = m + size + HeadSize(two)
      /\ all = [i \in 1..(m + size + HeadSize(two)) |-> all[i]]
      /\ \A i \in 1..(m + size) : all[i] = both[i]
  <2>1. m + size \in Nat
    BY <1>2
  <2> HIDE DEF both, second, m, two
  <2> QED BY <1>7, <1>8, <2>1, Concatenation, SMTT(30)
<1>10. StreamOf(lines, size) = all
  BY DEF StreamOf
<1>11. ASSUME NEW n \in 0..Len(all)
       PROVE  IsPrefix(SubSeq(all, 1, n), lines, size, n)
  <2>1. /\ Len(SubSeq(all, 1, n)) = n
        /\ SubSeq(all, 1, n) = [i \in 1..n |-> SubSeq(all, 1, n)[i]]
        /\ \A i \in 1..n : SubSeq(all, 1, n)[i] = all[i]
    <3>1. Len(all) \in Nat /\ all = [i \in 1..Len(all) |-> all[i]]
      <4> HIDE DEF all, m, two
      <4> QED BY <1>2, <1>7, <1>9
    <3> HIDE DEF all
    <3>2. 1 \in 1..(Len(all) + 1) /\ n = IF 1 <= n THEN n - 1 + 1 ELSE 0
      BY <3>1
    <3>3. LET part == SubSeq(all, 1, n)
              l    == IF 1 <= n THEN n - 1 + 1 ELSE 0
          IN  /\ Len(part) = l
              /\ part = [i \in 1..l |-> part[i]]
              /\ \A i \in 1..l : part[i] = all[1 + i - 1]
      BY <3>1, <3>2, Slice
    <3> QED BY <3>2, <3>3
  <2>2. \A i \in 1..(m + size) : i <= n => SubSeq(all, 1, n)[i] = both[i]
    <3>1. m \in Nat /\ n \in Int
      BY <1>2, <1>7, <1>9
    <3>2. \A i \in 1..(m + size) : all[i] = both[i]
      BY <1>9
    <3> HIDE DEF all, m, two, both
    <3> QED BY <2>1, <3>1, <3>2
  <2>3. ASSUME NEW k \in 1..Len(lines), NEW p \in (Ends(lines)[k - 1] + 1)..Ends(lines)[k],
               p <= n
        PROVE  SubSeq(all, 1, n)[p] = Character(lines[k], p - Ends(lines)[k - 1])
    <3>1. first[p] = Character(lines[k], p - Ends(lines)[k - 1])
      BY CharactersOfLine
    <3>2. p \in 1..m
      <4>1. /\ Ends(lines)[k - 1] \in Nat /\ Ends(lines)[k] \in Nat
            /\ Ends(lines)[k] <= Ends(lines)[Len(lines)]
        BY <1>1, EndsGrow
      <4> QED BY <1>2, <4>1, SMTT(30) DEF HeadSize
    <3>3. p \in 1..(m + size)
      <4> HIDE DEF m
      <4> QED BY <1>2, <3>2
    <3>4. SubSeq(all, 1, n)[p] = both[p] /\ both[p] = first[p]
      <4> HIDE DEF both, all, first, m
      <4> QED BY <1>8, <2>2, <2>3, <3>2, <3>3
    <3> QED BY <3>1, <3>4
  <2>4. ASSUME NEW j \in 1..size, m + j <= n
        PROVE  SubSeq(all, 1, n)[m + j] = packet[j]
    <3>1. m + j \in 1..(m + size)
      BY <1>2
    <3> HIDE DEF both, all, packet, m
    <3> QED BY <1>8, <2>2, <2>4, <3>1
  <2> HIDE DEF all
  <2> QED BY <2>1, <2>3, <2>4 DEF IsPrefix
<1>12. Len(all) = m + size + lines[1].size + lines[2].size
  <2>1. lines[1].size \in Nat /\ lines[2].size \in Nat
    BY <1>1 DEF AreLines
  <2> HIDE DEF all, m, two
  <2> QED BY <1>2, <1>6, <1>9, <2>1
<1> HIDE DEF all
<1> QED BY <1>10, <1>11, <1>12

-----------------------------------------------------------------------------
(* What the parser makes of it, line by line.                              *)

\* What both writers write: ten lines that the parser does not take for an old head or a
\* web page, the last but one with the length of the packet and the last one empty.
IsHead(lines, size) ==
  /\ AreLines(lines)
  /\ Len(lines) = 10
  /\ \A k \in 1..9 : lines[k].size >= 3
  /\ lines[9].size >= 9 /\ lines[9].name = "Content-Length" /\ lines[9].value = size
  /\ lines[10].size = 2
  /\ \A k \in 1..8 : lines[k].name # "Content-Length"
  /\ \A k \in 1..9 : /\ ~AlphaCoded(lines[k])
                     /\ ~(lines[k].name = "Content-Type" /\ lines[k].value \in Markup)

\* Enough of line k is there for the parser to see where it ends: the carriage return,
\* and of the first line the line feed as well.
Present(lines, n, k) == k > 0 => n >= Ends(lines)[k] - (IF k = 1 THEN 0 ELSE 1)

\* What the parser has found after line k.
AfterLine(lines, size, lengths, n, k) ==
  [pos    |-> IF Ends(lines)[k] <= n THEN Ends(lines)[k] ELSE n,
   done   |-> k = 10,
   head   |-> IF k = 10 /\ Ends(lines)[10] <= n THEN Ends(lines)[10] ELSE lengths.head,
   body   |-> IF k >= 9 THEN size ELSE lengths.body,
   markup |-> FALSE]

\* The ends of the ten lines, as numbers.
LEMMA HeadEnds ==
  ASSUME NEW lines, NEW size, IsHead(lines, size)
  PROVE  /\ Ends(lines)[0] = 0
         /\ \A k \in 0..10 : Ends(lines)[k] \in Nat
         /\ \A k \in 1..10 : /\ lines[k].size \in Nat \ 0..1
                             /\ Ends(lines)[k] = Ends(lines)[k - 1] + lines[k].size
         /\ \A j \in 0..10 : \A i \in 0..j : Ends(lines)[i] <= Ends(lines)[j]
         /\ HeadSize(lines) = Ends(lines)[10]
  BY EndsGrow DEF IsHead, AreLines, HeadSize

\* Within a line all is text up to the carriage return and the line feed at its end.
LEMMA PlacesOfLine ==
  ASSUME NEW lines, NEW size, IsHead(lines, size), NEW n \in Nat, NEW input,
         IsPrefix(input, lines, size, n), NEW k \in 1..10,
         NEW p \in (Ends(lines)[k - 1] + 1)..Ends(lines)[k], p <= n
  PROVE  /\ input[p].line = lines[k]
         /\ input[p].is = (IF p = Ends(lines)[k] - 1 THEN "CR"
                           ELSE IF p = Ends(lines)[k] THEN "LF" ELSE "text")
<1>1. input[p] = Character(lines[k], p - Ends(lines)[k - 1])
  BY DEF IsPrefix, IsHead
<1>2. /\ Ends(lines)[k - 1] \in Nat /\ lines[k].size \in Nat
      /\ Ends(lines)[k] = Ends(lines)[k - 1] + lines[k].size
  BY HeadEnds
<1> DEFINE j == p - Ends(lines)[k - 1]
<1>3. /\ (j = lines[k].size - 1) <=> (p = Ends(lines)[k] - 1)
      /\ (j = lines[k].size) <=> (p = Ends(lines)[k])
  BY <1>2
<1>4. /\ input[p].line = lines[k]
      /\ input[p].is = (IF j = lines[k].size - 1 THEN "CR"
                        ELSE IF j = lines[k].size THEN "LF" ELSE "text")
  <2>1. j \in Int /\ lines[k].size \in Int
    BY <1>2
  <2>2. input[p] = Character(lines[k], j)
    BY <1>1
  <2> HIDE DEF j
  <2>3. CASE j = lines[k].size - 1
    BY <2>1, <2>2, <2>3 DEF Character
  <2>4. CASE j = lines[k].size
    BY <2>1, <2>2, <2>4 DEF Character
  <2>5. CASE j # lines[k].size - 1 /\ j # lines[k].size
    BY <2>1, <2>2, <2>5 DEF Character
  <2> QED BY <2>3, <2>4, <2>5
<1> HIDE DEF j
<1> QED BY <1>3, <1>4

\* The parser finds the end of a line where it is.
LEMMA LineIsFound ==
  ASSUME NEW lines, NEW size, IsHead(lines, size), NEW n \in Nat, NEW input,
         IsPrefix(input, lines, size, n), NEW k \in 1..10, Present(lines, n, k)
  PROVE  LET ends == LineEnds(input, Breaks(input), Ends(lines)[k - 1] + 1)
         IN  /\ Ends(lines)[k] - 1 \in ends
             /\ \A p \in ends : Ends(lines)[k] - 1 <= p
<1> DEFINE begin == Ends(lines)[k - 1] + 1
           split == Ends(lines)[k] - 1
<1>1. /\ begin \in Nat \ {0} /\ split \in Nat /\ begin <= split
      /\ Ends(lines)[k - 1] + 1 = begin /\ Ends(lines)[k] = split + 1
      /\ begin = 1 <=> k = 1
  <2>1. /\ Ends(lines)[k - 1] \in Nat /\ Ends(lines)[k] \in Nat
        /\ lines[k].size \in Nat \ 0..1
        /\ Ends(lines)[k] = Ends(lines)[k - 1] + lines[k].size
        /\ k # 1 => Ends(lines)[1] <= Ends(lines)[k - 1]
        /\ Ends(lines)[0] = 0 /\ lines[1].size \in Nat \ 0..1
        /\ Ends(lines)[1] = lines[1].size
    BY HeadEnds
  <2> QED BY <2>1
<1>2. n >= split /\ (k = 1 => n > split)
  BY <1>1 DEF Present
<1>3. Len(input) = n /\ DOMAIN input = 1..n
  BY DEF IsPrefix
<1> HIDE DEF begin, split
<1>4. \A p \in begin..(split + 1) : p <= n =>
        input[p].is = (IF p = split THEN "CR" ELSE IF p = split + 1 THEN "LF" ELSE "text")
  BY <1>1, PlacesOfLine, SMTT(30)
<1>5. input[split].is = "CR" /\ (k = 1 => input[split + 1].is = "LF")
  BY <1>1, <1>2, <1>4
<1>6. split \in LineEnds(input, Breaks(input), begin)
  <2>1. split \in 1..n /\ split \in Breaks(input)
    BY <1>1, <1>2, <1>3, <1>5 DEF Breaks
  <2>2. CASE k = 1
    BY <1>1, <1>2, <1>3, <1>5, <2>1, <2>2 DEF LineEnds
  <2>3. CASE k # 1
    BY <1>1, <2>1, <2>3 DEF LineEnds
  <2> QED BY <2>2, <2>3
<1>7. ASSUME NEW p \in LineEnds(input, Breaks(input), begin)
      PROVE  split <= p
  <2>1. p \in 1..n /\ input[p].is # "text" /\ p >= begin
    BY <1>1, <1>3 DEF LineEnds, Breaks
  <2> QED BY <1>1, <1>4, <2>1
<1> QED BY <1>1, <1>6, <1>7

\* After the last line that is there, there is no end of a line any more.
LEMMA NoLineIsLeft ==
  ASSUME NEW lines, NEW size, IsHead(lines, size), NEW n \in Nat, NEW input,
         IsPrefix(input, lines, size, n), NEW k \in 0..9, Present(lines, n, k),
         ~Present(lines, n, k + 1), NEW pos \in Nat,
         pos = (IF Ends(lines)[k] <= n THEN Ends(lines)[k] ELSE n)
  PROVE  LineEnds(input, Breaks(input), pos + 1) = {}
<1> DEFINE begin == Ends(lines)[k] + 1
           split == Ends(lines)[k + 1] - 1
<1>1. /\ begin \in Nat /\ split \in Nat /\ begin <= split
      /\ Ends(lines)[k] = begin - 1
      /\ Ends(lines)[(k + 1) - 1] + 1 = begin /\ Ends(lines)[k + 1] = split + 1
      /\ begin = 1 <=> k = 0
      /\ k # 0 => begin >= 3
  <2>1. /\ Ends(lines)[k] \in Nat /\ Ends(lines)[k + 1] \in Nat
        /\ lines[k + 1].size \in Nat \ 0..1
        /\ Ends(lines)[k + 1] = Ends(lines)[(k + 1) - 1] + lines[k + 1].size
        /\ (k + 1) - 1 = k
        /\ k # 0 => Ends(lines)[1] <= Ends(lines)[k]
        /\ Ends(lines)[0] = 0 /\ lines[1].size \in Nat \ 0..1
        /\ Ends(lines)[1] = lines[1].size
    BY HeadEnds
  <2> QED BY <2>1
<1>2. n < split \/ (k = 0 /\ n <= split)
  BY <1>1 DEF Present
<1>3. Len(input) = n /\ DOMAIN input = 1..n
  BY DEF IsPrefix
<1>4. k # 0 => n >= begin - 2
  BY <1>1 DEF Present
<1>5. pos = (IF begin - 1 <= n THEN begin - 1 ELSE n)
  BY <1>1
<1> HIDE DEF begin, split
<1>6. \A p \in begin..(split + 1) : p <= n =>
        input[p].is = (IF p = split THEN "CR" ELSE IF p = split + 1 THEN "LF" ELSE "text")
  BY <1>1, PlacesOfLine, SMTT(30)
<1>7. SUFFICES ASSUME NEW p \in LineEnds(input, Breaks(input), pos + 1)
               PROVE  FALSE
  OBVIOUS
<1>8. p \in 1..n /\ input[p].is # "text"
  BY <1>3 DEF LineEnds, Breaks
<1>9. CASE k = 0
  <2>1. pos + 1 = 1
    BY <1>1, <1>5, <1>9
  <2>2. p < n
    BY <1>3, <2>1 DEF LineEnds
  <2> QED BY <1>1, <1>2, <1>6, <1>8, <1>9, <2>2
<1>10. CASE k # 0
  <2>1. pos + 1 # 1 /\ (n < begin => pos + 1 > n) /\ (n >= begin => pos + 1 = begin)
    BY <1>1, <1>4, <1>5, <1>10
  <2>2. p >= pos + 1
    BY <2>1 DEF LineEnds
  <2> QED BY <1>1, <1>2, <1>6, <1>8, <1>10, <2>1, <2>2
<1> QED BY <1>9, <1>10

\* A line that is there is read for what it says.
LEMMA LineIsRead ==
  ASSUME NEW lines, NEW size, IsHead(lines, size), NEW n \in Nat, NEW input,
         IsPrefix(input, lines, size, n), NEW k \in 1..10, Present(lines, n, k), NEW lengths
  PROVE  ReadLine(input, Breaks(input), AfterLine(lines, size, lengths, n, k - 1)) =
           AfterLine(lines, size, lengths, n, k)
<1> DEFINE a     == Ends(lines)[k - 1]
           b     == Ends(lines)[k]
           so    == AfterLine(lines, size, lengths, n, k - 1)
           begin == so.pos + 1
           ends  == LineEnds(input, Breaks(input), begin)
           split == CHOOSE p \in ends : \A q \in ends : p <= q
           last  == IF split < Len(input) THEN split + 1 ELSE split
           chars == SubSeq(input, begin, last)
           line  == input[begin].line
           long  == Len(chars) >= 8
<1>1. /\ a \in Nat /\ b \in Nat /\ lines[k].size \in Nat \ 0..1
      /\ b = a + lines[k].size
  BY HeadEnds
<1>2. Len(input) = n /\ input = [p \in 1..n |-> input[p]]
  BY DEF IsPrefix
<1>3. n >= b - 1
  BY <1>1 DEF Present
<1>4. so.pos = a /\ begin = a + 1
  BY <1>1, <1>3 DEF AfterLine
<1>5. split = b - 1 /\ ends # {}
  <2>1. b - 1 \in ends /\ \A p \in ends : b - 1 <= p
    BY <1>4, LineIsFound
  <2>2. \A p \in ends : p \in Int
    BY <1>2 DEF LineEnds, Breaks
  <2> HIDE DEF ends
  <2> QED BY <1>1, <2>1, <2>2
<1>6. last = IF b <= n THEN b ELSE n
  <2> HIDE DEF split, b
  <2> QED BY <1>1, <1>2, <1>3, <1>5
<1>7. ASSUME NEW p \in (a + 1)..b, p <= n
      PROVE  /\ input[p].line = lines[k]
             /\ input[p].is = (IF p = b - 1 THEN "CR" ELSE IF p = b THEN "LF" ELSE "text")
  BY <1>7, PlacesOfLine
<1> HIDE DEF a, b, so, begin, ends, split, last
<1>8. last \in (a + 1)..n /\ last <= b /\ a + 1 <= n
  BY <1>1, <1>3, <1>6
<1>9. /\ Len(chars) = last - a
      /\ \A i \in 1..(last - a) : chars[i] = input[a + i]
  <2>1. a + 1 \in 1..(n + 1) /\ last \in 0..n /\ a + 1 <= last
        /\ last - (a + 1) + 1 = last - a
    BY <1>1, <1>8
  <2>2. LET part == SubSeq(input, a + 1, last)
            m    == IF a + 1 <= last THEN last - (a + 1) + 1 ELSE 0
        IN  /\ Len(part) = m
            /\ part = [i \in 1..m |-> part[i]]
            /\ \A i \in 1..m : part[i] = input[(a + 1) + i - 1]
    BY <1>2, <2>1, Slice, SMTT(30)
  <2>3. \A i \in 1..(last - a) : (a + 1) + i - 1 = a + i
    BY <1>1
  <2>4. chars = SubSeq(input, a + 1, last)
    BY <1>4
  <2> HIDE DEF chars
  <2> QED BY <2>1, <2>2, <2>3, <2>4
<1>10. line = lines[k]
  BY <1>1, <1>4, <1>7, <1>8
<1> HIDE DEF chars, line
<1>11. \A i \in 1..(last - a) :
         chars[i].is = (IF a + i = b - 1 THEN "CR" ELSE IF a + i = b THEN "LF" ELSE "text")
  <2> SUFFICES ASSUME NEW i \in 1..(last - a)
               PROVE  chars[i].is =
                        (IF a + i = b - 1 THEN "CR" ELSE IF a + i = b THEN "LF" ELSE "text")
    OBVIOUS
  <2>1. a + i \in (a + 1)..b /\ a + i <= n
    BY <1>1, <1>8
  <2> QED BY <1>7, <1>9, <2>1
<1>12. (k = 10 => lines[k].size = 2) /\ (k # 10 => lines[k].size >= 3)
  BY DEF IsHead
<1>13. EndsHead(chars) <=> k = 10 /\ b <= n
  <2>1. CASE k = 10 /\ b <= n
    <3>1. last = a + 2 /\ b = a + 2
      BY <1>1, <1>6, <1>12, <2>1
    <3>2. Len(chars) = 2 /\ chars[1].is = "CR" /\ chars[2].is = "LF"
      BY <1>1, <1>9, <1>11, <3>1
    <3> QED BY <2>1, <3>2 DEF EndsHead
  <2>2. CASE k = 10 /\ ~(b <= n)
    <3>1. Len(chars) # 2
      BY <1>1, <1>6, <1>8, <1>9, <1>12, <2>2
    <3> QED BY <2>2, <3>1 DEF EndsHead
  <2>3. CASE k # 10
    <3>1. chars[1].is = "text"
      BY <1>1, <1>8, <1>11, <1>12, <2>3
    <3> QED BY <2>3, <3>1 DEF EndsHead
  <2> QED BY <2>1, <2>2, <2>3
<1>14. split = begin <=> k = 10
  BY <1>1, <1>4, <1>5, <1>12
<1>15. long => k # 10
  BY <1>1, <1>8, <1>9, <1>12
<1>16. k = 9 => long
  <2>1. k = 9 => lines[k].size >= 9
    BY DEF IsHead
  <2> QED BY <1>1, <1>3, <1>6, <1>9, <2>1, SMTT(30)
<1> HIDE DEF long
<1>17. /\ ~(long /\ AlphaCoded(line))
       /\ ~(long /\ line.name = "Content-Type" /\ line.value \in Markup)
       /\ long /\ line.name = "Content-Length" <=> k = 9
       /\ k = 9 => line.value = size
  BY <1>10, <1>15, <1>16 DEF IsHead
<1>18. /\ so.done = FALSE /\ so.head = lengths.head /\ so.markup = FALSE
       /\ so.body = IF k = 10 THEN size ELSE lengths.body
  <2>1. k - 1 # 10 /\ (k - 1 >= 9 <=> k = 10)
    OBVIOUS
  <2>2. /\ so.done = (k - 1 = 10)
        /\ so.head = (IF k - 1 = 10 /\ Ends(lines)[10] <= n THEN Ends(lines)[10]
                      ELSE lengths.head)
        /\ so.body = (IF k - 1 >= 9 THEN size ELSE lengths.body)
        /\ so.markup = FALSE
    BY DEF so, AfterLine
  <2> QED BY <2>1, <2>2
<1>19. ReadLine(input, Breaks(input), so) =
         [pos    |-> last,
          done   |-> split = begin \/ (long /\ AlphaCoded(line)),
          head   |-> IF EndsHead(chars) THEN last ELSE so.head,
          body   |-> IF long /\ line.name = "Content-Length" THEN line.value ELSE so.body,
          markup |-> so.markup \/ (long /\ line.name = "Content-Type" /\ line.value \in Markup)]
  <2>1. ends # {} /\ ~so.done
    BY <1>5, <1>18
  <2> QED BY <2>1 DEF ReadLine, begin, ends, split, last, chars, line, long
<1>20. ReadLine(input, Breaks(input), so) =
         [pos    |-> last,
          done   |-> k = 10,
          head   |-> IF k = 10 /\ b <= n THEN b ELSE lengths.head,
          body   |-> IF k >= 9 THEN size ELSE lengths.body,
          markup |-> FALSE]
  <2>1. split = begin \/ (long /\ AlphaCoded(line)) <=> k = 10
    BY <1>14, <1>17
  <2>2. (IF EndsHead(chars) THEN last ELSE so.head) =
          (IF k = 10 /\ b <= n THEN b ELSE lengths.head)
    BY <1>6, <1>13, <1>18
  <2>3. (IF long /\ line.name = "Content-Length" THEN line.value ELSE so.body) =
          (IF k >= 9 THEN size ELSE lengths.body)
    BY <1>17, <1>18
  <2>4. ~(so.markup \/ (long /\ line.name = "Content-Type" /\ line.value \in Markup))
    BY <1>17, <1>18
  <2>5. /\ (split = begin \/ (long /\ AlphaCoded(line))) \in BOOLEAN
        /\ (so.markup \/ (long /\ line.name = "Content-Type" /\ line.value \in Markup))
              \in BOOLEAN
    OBVIOUS
  <2> QED BY <1>19, <2>1, <2>2, <2>3, <2>4, <2>5
<1> QED BY <1>6, <1>20 DEF AfterLine, so, b

\* After the last line that is there, reading on changes nothing.
LEMMA ReadingStops ==
  ASSUME NEW lines, NEW size, IsHead(lines, size), NEW n \in Nat, NEW input,
         IsPrefix(input, lines, size, n), NEW lengths,
         NEW k \in 0..10, Present(lines, n, k), k = 10 \/ ~Present(lines, n, k + 1)
  PROVE  ReadLine(input, Breaks(input), AfterLine(lines, size, lengths, n, k)) =
           AfterLine(lines, size, lengths, n, k)
<1> DEFINE so == AfterLine(lines, size, lengths, n, k)
<1>1. CASE k = 10
  <2>1. so.done
    BY <1>1 DEF AfterLine
  <2> HIDE DEF so
  <2>2. ReadLine(input, Breaks(input), so) = so
    BY <2>1 DEF ReadLine
  <2> QED BY <2>2 DEF so
<1>2. CASE k # 10
  <2>1. so.pos \in Nat /\ so.pos = IF Ends(lines)[k] <= n THEN Ends(lines)[k] ELSE n
    BY HeadEnds DEF AfterLine
  <2>2. LineEnds(input, Breaks(input), so.pos + 1) = {}
    <3> HIDE DEF so
    <3> QED BY <1>2, <2>1, NoLineIsLeft
  <2> HIDE DEF so
  <2>3. ReadLine(input, Breaks(input), so) = so
    BY <2>2 DEF ReadLine
  <2> QED BY <2>3 DEF so
<1> QED BY <1>1, <1>2

\* The equation of the loop over the lines.
IsReading(f, input, breaks, start, n) ==
  f = [k \in 0..n |-> IF k = 0 THEN start ELSE ReadLine(input, breaks, f[k - 1])]

\* Some function satisfies it, whatever the parser has.
LEMMA ReadingDef ==
  ASSUME NEW input, NEW breaks, NEW start
  PROVE  \A n \in Nat : \E f : IsReading(f, input, breaks, start, n)
<1> DEFINE Reads(f, n) == f = [k \in 0..n |-> IF k = 0 THEN start
                                              ELSE ReadLine(input, breaks, f[k - 1])]
           S == {n \in Nat : \E f : Reads(f, n)}
<1>1. 0 \in S
  <2>1. Reads([k \in 0..0 |-> start], 0)
    OBVIOUS
  <2> QED BY <2>1
<1>2. ASSUME NEW n \in Nat, n \in S
      PROVE  n + 1 \in S
  <2>1. PICK f : Reads(f, n)
    BY <1>2
  <2> DEFINE g == [k \in 0..(n + 1) |-> IF k = n + 1 THEN ReadLine(input, breaks, f[n])
                                        ELSE f[k]]
  <2>2. \A k \in 0..(n + 1) : g[k] = IF k = 0 THEN start ELSE ReadLine(input, breaks, g[k - 1])
    BY <2>1
  <2>3. Reads(g, n + 1)
    BY <2>2
  <2> HIDE DEF Reads, g
  <2> QED BY <2>3
<1>3. Nat \subseteq S
  <2> HIDE DEF S
  <2> QED BY <1>1, <1>2, SetInduction
<1> QED BY <1>3 DEF IsReading

\* The parser looks at no fewer lines than are there: each has a break of its own.
LEMMA BreaksSuffice ==
  ASSUME NEW lines, NEW size, IsHead(lines, size), NEW n \in Nat, NEW input,
         IsPrefix(input, lines, size, n), NEW m \in 0..10,
         \A k \in 1..m : Present(lines, n, k)
  PROVE  Cardinality(Breaks(input)) \in Nat /\ m <= Cardinality(Breaks(input))
<1> DEFINE ret == [k \in 1..m |-> Ends(lines)[k] - 1]
<1>1. IsFiniteSet(Breaks(input)) /\ Cardinality(Breaks(input)) \in Nat
  <2>1. Breaks(input) \in SUBSET (1..n)
    BY DEF IsPrefix, Breaks
  <2>2. IsFiniteSet(1..n)
    BY FS_Interval
  <2> QED BY <2>1, <2>2, FS_Subset, FS_CardinalityType
<1>2. ASSUME NEW k \in 1..m
      PROVE  ret[k] \in Breaks(input)
  <2>1. Ends(lines)[k] - 1 \in LineEnds(input, Breaks(input), Ends(lines)[k - 1] + 1)
    BY LineIsFound
  <2> QED BY <2>1 DEF LineEnds
<1>3. ASSUME NEW i \in 1..m, NEW k \in 1..m, ret[i] = ret[k]
      PROVE  i = k
  <2>1. /\ Ends(lines)[i] \in Nat /\ Ends(lines)[k] \in Nat
        /\ Ends(lines)[i - 1] \in Nat /\ Ends(lines)[k - 1] \in Nat
        /\ Ends(lines)[i - 1] < Ends(lines)[i] /\ Ends(lines)[k - 1] < Ends(lines)[k]
        /\ i < k => Ends(lines)[i] <= Ends(lines)[k - 1]
        /\ k < i => Ends(lines)[k] <= Ends(lines)[i - 1]
    BY HeadEnds, SMTT(30)
  <2>2. Ends(lines)[i] = Ends(lines)[k]
    BY <1>3, <2>1
  <2> QED BY <2>1, <2>2
<1>4. ret \in Injection(1..m, Breaks(input))
  <2>1. ret \in [1..m -> Breaks(input)]
    BY <1>2
  <2> HIDE DEF ret
  <2> QED BY <1>3, <2>1 DEF Injection, IsInjective
<1>5. Cardinality(1..m) = m
  <2>1. 1 \in Int /\ m \in Int /\ (IF 1 > m THEN 0 ELSE m - 1 + 1) = m
    OBVIOUS
  <2>2. Cardinality(1..m) = IF 1 > m THEN 0 ELSE m - 1 + 1
    BY <2>1, FS_Interval
  <2> QED BY <2>1, <2>2
<1> HIDE DEF ret
<1> QED BY <1>1, <1>4, <1>5, FS_Injection

\* What the two loops find in a prefix: what the last line that is there leaves.
LEMMA LinesAreRead ==
  ASSUME NEW lines, NEW size, IsHead(lines, size), NEW n \in Nat, NEW input,
         IsPrefix(input, lines, size, n), NEW lengths, NEW m \in 0..10,
         \A k \in 1..m : Present(lines, n, k), m = 10 \/ ~Present(lines, n, m + 1)
  PROVE  ReadLines(input, lengths) = AfterLine(lines, size, lengths, n, m)
<1> DEFINE breaks == Breaks(input)
           count  == Cardinality(breaks)
           start  == [pos |-> 0, done |-> FALSE, head |-> lengths.head, body |-> lengths.body,
                      markup |-> FALSE]
           After(k) == AfterLine(lines, size, lengths, n, k)
           read == CHOOSE f : f = [k \in 0..count |-> IF k = 0 THEN start
                                                      ELSE ReadLine(input, breaks, f[k - 1])]
<1>1. count \in Nat /\ m <= count
  BY BreaksSuffice
<1>2. ReadLines(input, lengths) = read[count]
  BY DEF ReadLines
<1>3. read = [k \in 0..count |-> IF k = 0 THEN start ELSE ReadLine(input, breaks, read[k - 1])]
  <2> HIDE DEF count, breaks, start
  <2>1. \E f : IsReading(f, input, breaks, start, count)
    BY <1>1, ReadingDef
  <2>2. read = CHOOSE f : IsReading(f, input, breaks, start, count)
    BY DEF IsReading
  <2>3. IsReading(read, input, breaks, start, count)
    <3> HIDE DEF read
    <3> QED BY <2>1, <2>2
  <2> HIDE DEF read
  <2> QED BY <2>3 DEF IsReading
<1>4. start = After(0)
  <2>1. Ends(lines)[0] = 0
    BY HeadEnds
  <2>2. /\ (IF Ends(lines)[0] <= n THEN Ends(lines)[0] ELSE n) = 0
        /\ (0 = 10) = FALSE /\ (0 >= 9) = FALSE
    BY <2>1
  <2> QED BY <2>2 DEF AfterLine
<1> HIDE DEF read, start, count, After
<1>5. /\ read[0] = start
      /\ \A k \in 1..count : read[k] = ReadLine(input, breaks, read[k - 1])
  BY <1>1, <1>3
<1>6. ASSUME NEW k \in 1..m
      PROVE  ReadLine(input, breaks, After(k - 1)) = After(k)
  BY LineIsRead DEF After
<1>7. ReadLine(input, breaks, After(m)) = After(m)
  <2>1. Present(lines, n, m)
    BY DEF Present
  <2> QED BY <2>1, ReadingStops DEF After
<1> HIDE DEF breaks
<1> DEFINE S == {k \in Nat : k <= count => read[k] = After(IF k <= m THEN k ELSE m)}
<1>8. 0 \in S
  BY <1>4, <1>5
<1>9. ASSUME NEW k \in Nat, k \in S
      PROVE  k + 1 \in S
  <2> SUFFICES ASSUME k + 1 <= count
               PROVE  read[k + 1] = After(IF k + 1 <= m THEN k + 1 ELSE m)
    OBVIOUS
  <2>1. read[k + 1] = ReadLine(input, breaks, read[k])
    BY <1>1, <1>5
  <2>2. read[k] = After(IF k <= m THEN k ELSE m)
    BY <1>1, <1>9
  <2>3. CASE k + 1 <= m
    <3>1. k + 1 \in 1..m /\ (k + 1) - 1 = k /\ k <= m
      BY <2>3
    <3>2. ReadLine(input, breaks, After(k)) = After(k + 1)
      BY <1>6, <3>1
    <3> QED BY <2>1, <2>2, <2>3, <3>1, <3>2
  <2>4. CASE ~(k + 1 <= m)
    <3>1. (IF k <= m THEN k ELSE m) = m
      BY <2>4
    <3> QED BY <1>7, <2>1, <2>2, <2>4, <3>1
  <2> QED BY <2>3, <2>4
<1>10. Nat \subseteq S
  <2> HIDE DEF S
  <2> QED BY <1>8, <1>9, SetInduction
<1>11. read[count] = After(m)
  <2>1. count \in S
    BY <1>1, <1>10
  <2>2. (IF count <= m THEN count ELSE m) = m
    BY <1>1
  <2> QED BY <1>1, <2>1, <2>2
<1> QED BY <1>2, <1>11 DEF After

\* Some line is the last of those that are there, and no later one is there.
LEMMA LastLine ==
  ASSUME NEW lines, NEW size, IsHead(lines, size), NEW n \in Nat
  PROVE  \E m \in 0..10 : /\ \A k \in 1..m : Present(lines, n, k)
                          /\ \A k \in (m + 1)..10 : ~Present(lines, n, k)
<1> DEFINE All(m) == \A k \in 1..m : Present(lines, n, k)
           S == {m \in Nat : m <= 10 => All(m)}
<1>1. ASSUME NEW i \in 1..10, NEW k \in i..10, Present(lines, n, k)
      PROVE  Present(lines, n, i)
  <2>1. CASE i = k
    BY <1>1, <2>1
  <2>2. CASE i # k
    <3>1. /\ Ends(lines)[i] \in Nat /\ Ends(lines)[k] \in Nat /\ Ends(lines)[k - 1] \in Nat
          /\ lines[k].size \in Nat \ 0..1
          /\ Ends(lines)[k] = Ends(lines)[k - 1] + lines[k].size
          /\ Ends(lines)[i] <= Ends(lines)[k - 1]
      BY <2>2, HeadEnds
    <3> QED BY <1>1, <2>2, <3>1 DEF Present
  <2> QED BY <2>1, <2>2
<1>2. SUFFICES ASSUME ~ \E m \in 0..9 : All(m) /\ ~Present(lines, n, m + 1)
               PROVE  All(10)
  <2>1. CASE \E m \in 0..9 : All(m) /\ ~Present(lines, n, m + 1)
    <3>1. PICK m \in 0..9 : All(m) /\ ~Present(lines, n, m + 1)
      BY <2>1
    <3>2. \A k \in (m + 1)..10 : ~Present(lines, n, k)
      BY <1>1, <3>1
    <3> QED BY <3>1, <3>2
  <2>2. CASE All(10)
    BY <2>2
  <2> QED BY <2>1, <2>2
<1>3. 0 \in S
  OBVIOUS
<1>4. ASSUME NEW m \in Nat, m \in S
      PROVE  m + 1 \in S
  BY <1>2, <1>4
<1>5. Nat \subseteq S
  <2> HIDE DEF S
  <2> QED BY <1>3, <1>4, SetInduction
<1> QED BY <1>5

\* What pop_front_xdpi_head makes of the first n characters of a message: it learns each
\* length where its line is, and the message is whole as soon as its characters are there.
LEMMA PrefixIsParsed ==
  ASSUME NEW lines, NEW size \in Nat, IsHead(lines, size), NEW n \in Nat, NEW input,
         IsPrefix(input, lines, size, n), NEW lengths \in [head : Int, body : Int]
  PROVE  LET h == IF n >= HeadSize(lines) THEN HeadSize(lines) ELSE lengths.head
             b == IF n >= HeadSize(lines) - 3 THEN size ELSE lengths.body
             whole == n >= lines[1].size /\ h # 0 /\ h + b \in 0..n
         IN  /\ h \in Int /\ b \in Int
             /\ PopFront(input, lengths) =
                  [ret |-> IF whole THEN "whole" ELSE "again", head |-> h, body |-> b]
<1> DEFINE h == IF n >= HeadSize(lines) THEN HeadSize(lines) ELSE lengths.head
           b == IF n >= HeadSize(lines) - 3 THEN size ELSE lengths.body
           so == ReadLines(input, lengths)
<1>1. PICK m \in 0..10 : /\ \A k \in 1..m : Present(lines, n, k)
                         /\ \A k \in (m + 1)..10 : ~Present(lines, n, k)
  BY LastLine
<1>2. so = AfterLine(lines, size, lengths, n, m)
  <2>1. m = 10 \/ ~Present(lines, n, m + 1)
    BY <1>1
  <2> QED BY <1>1, <2>1, LinesAreRead
<1>3. /\ \A k \in 0..10 : Ends(lines)[k] \in Nat
      /\ HeadSize(lines) = Ends(lines)[10]
      /\ Ends(lines)[10] = Ends(lines)[9] + 2
      /\ Ends(lines)[1] = lines[1].size /\ lines[1].size \in Nat \ 0..1
      /\ \A k \in 1..10 : Ends(lines)[1] <= Ends(lines)[k]
      /\ Ends(lines)[0] = 0
  <2>1. lines[10].size = 2
    BY DEF IsHead
  <2> QED BY <2>1, HeadEnds
<1>4. /\ m = 10 <=> n >= Ends(lines)[10] - 1
      /\ m >= 9 <=> n >= Ends(lines)[9] - 1
      /\ m >= 1 <=> n >= Ends(lines)[1]
  <2>1. /\ Present(lines, n, 10) <=> n >= Ends(lines)[10] - 1
        /\ Present(lines, n, 9) <=> n >= Ends(lines)[9] - 1
        /\ Present(lines, n, 1) <=> n >= Ends(lines)[1]
    BY <1>3 DEF Present
  <2>2. \A k \in 1..10 : Present(lines, n, k) <=> k <= m
    BY <1>1
  <2> QED BY <2>1, <2>2
<1>5. /\ so.head = h
      /\ so.body = b
      /\ so.markup = FALSE
      /\ so.pos = 0 <=> ~(n >= lines[1].size)
  <2>1. so.head = h
    BY <1>2, <1>3, <1>4 DEF AfterLine
  <2>2. so.body = b
    BY <1>2, <1>3, <1>4 DEF AfterLine
  <2>3. so.markup = FALSE /\ so.pos = IF Ends(lines)[m] <= n THEN Ends(lines)[m] ELSE n
    BY <1>2 DEF AfterLine
  <2>4. so.pos = 0 <=> ~(n >= lines[1].size)
    <3>1. CASE m = 0
      BY <1>3, <1>4, <2>3, <3>1
    <3>2. CASE m \in 1..10
      <4>1. Ends(lines)[1] <= Ends(lines)[m] /\ Ends(lines)[m] \in Nat
        BY <1>3, <3>2
      <4> QED BY <1>3, <1>4, <2>3, <3>2, <4>1
    <3> QED BY <3>1, <3>2
  <2> QED BY <2>1, <2>2, <2>3, <2>4
<1>6. h \in Int /\ b \in Int /\ Len(input) = n
  BY <1>3 DEF IsPrefix
<1> HIDE DEF h, b, so
<1>7. PopFront(input, lengths) =
        IF so.pos = 0 \/ so.head = 0 \/ so.head + so.body \notin 0..n
          THEN [ret |-> "again", head |-> so.head, body |-> so.body]
          ELSE [ret |-> "whole", head |-> so.head,
                body |-> IF so.markup THEN 0 ELSE so.body]
  BY <1>6 DEF PopFront, so
<1>8. CASE so.pos = 0 \/ so.head = 0 \/ so.head + so.body \notin 0..n
  BY <1>5, <1>6, <1>7, <1>8 DEF h, b
<1>9. CASE ~(so.pos = 0 \/ so.head = 0 \/ so.head + so.body \notin 0..n)
  BY <1>5, <1>6, <1>7, <1>9 DEF h, b
<1> QED BY <1>8, <1>9

-----------------------------------------------------------------------------
(* The obfuscation.                                                        *)

\* A sequence of n bytes.
IsData(data, n) == data = [j \in 1..n |-> data[j]]

\* What one encoding does to each byte.
LEMMA EncodeBytes ==
  ASSUME NEW n \in Nat, NEW data, IsData(data, n), NEW first, NEW last
  PROVE  /\ IsData(Encode(data, first, last), n)
         /\ \A j \in 1..n :
              Encode(data, first, last)[j] =
                IF j \in first..last THEN Meet(data[j], <<last - first + 1, (j - first) % 4>>)
                                     ELSE data[j]
  BY DEF Encode, IsData

\* A clear byte that meets the same key twice is clear again.
LEMMA SameKeyTwice ==
  ASSUME NEW line, NEW is, NEW key
  PROVE  LET byte == [line |-> line, is |-> is, keys |-> {}]
         IN  Meet(Meet(byte, key), key) = byte
<1>1. SymDiff(SymDiff({}, {key}), {key}) = {}
  BY DEF SymDiff
<1>2. \A S : Meet([line |-> line, is |-> is, keys |-> S], key) =
              [line |-> line, is |-> is, keys |-> SymDiff(S, {key})]
  BY DEF Meet
<1> QED BY <1>1, <1>2

\* Decoding the packet behind its head, in the two pieces it was encoded in, gives back
\* every byte that was written.
LEMMA PacketIsClear ==
  ASSUME NEW lines, NEW size \in Nat, IsHead(lines, size), NEW n \in Nat, NEW input,
         IsPrefix(input, lines, size, n), n >= HeadSize(lines) + size
  PROVE  LET first == HeadSize(lines) + 1
             last  == HeadSize(lines) + size
         IN  SubSeq(Clear(input, first, last), first, last) = Packet(size)
<1> DEFINE h == HeadSize(lines)
           first == h + 1
           last  == h + size
           packet == Packet(size)
           written == Encode(packet, 1, 4)
           rest    == Encode(written, 5, size)
           begun   == Encode(input, first, first + 3)
           clear   == Encode(begun, first + 4, last)
           key(j)  == IF j <= 4 THEN <<4, (j - 1) % 4>> ELSE <<size - 4, (j - 5) % 4>>
<1>1. h \in Nat
  BY HeadEnds
<1>2. /\ IsData(packet, size) /\ Len(packet) = size
      /\ \A j \in 1..size : packet[j] = [line |-> Line("body", size, j), is |-> "text", keys |-> {}]
  <2>1. packet = [j \in 1..size |-> packet[j]]
    BY DEF Packet
  <2>2. Len(packet) = size
    <3> DEFINE S == {packet[j] : j \in 1..size}
    <3>1. \A j \in 1..size : packet[j] \in S
      OBVIOUS
    <3> HIDE DEF packet, S
    <3> QED BY <2>1, <3>1, FunctionIsSequence
  <2> QED BY <2>1, <2>2 DEF Packet, IsData
<1>3. Obfuscate(packet) = rest
  BY <1>2 DEF Obfuscate
<1>4. /\ IsData(input, n)
      /\ \A j \in 1..size : h + j \in 1..n /\ input[h + j] = rest[j]
  <2>1. \A j \in 1..size : h + j \in 1..n
    BY <1>1
  <2>2. \A j \in 1..size : h + j <= n => input[h + j] = Obfuscate(packet)[j]
    BY DEF IsPrefix
  <2>3. IsData(input, n)
    BY DEF IsPrefix, IsData
  <2> HIDE DEF h, packet, rest
  <2> QED BY <1>1, <1>3, <2>1, <2>2, <2>3
<1> HIDE DEF h, packet
<1>5. ASSUME NEW j \in 1..size
      PROVE  rest[j] = Meet(packet[j], key(j))
  <2>1. /\ IsData(written, size)
        /\ written[j] = IF j \in 1..4 THEN Meet(packet[j], <<4 - 1 + 1, (j - 1) % 4>>)
                                      ELSE packet[j]
    <3>1. IsData(written, size)
      BY <1>2, EncodeBytes
    <3>2. j \in DOMAIN packet
      BY <1>2 DEF IsData
    <3> QED BY <3>1, <3>2 DEF Encode
  <2> HIDE DEF written
  <2>2. rest[j] = IF j \in 5..size THEN Meet(written[j], <<size - 5 + 1, (j - 5) % 4>>)
                                   ELSE written[j]
    <3>1. j \in DOMAIN written
      BY <2>1 DEF IsData
    <3> QED BY <3>1 DEF Encode
  <2> HIDE DEF rest
  <2>3. CASE j <= 4
    <3>1. j \in 1..4 /\ j \notin 5..size /\ key(j) = <<4 - 1 + 1, (j - 1) % 4>>
      BY <2>3
    <3> HIDE DEF key
    <3> QED BY <2>1, <2>2, <3>1
  <2>4. CASE ~(j <= 4)
    <3>1. j \notin 1..4 /\ j \in 5..size /\ key(j) = <<size - 5 + 1, (j - 5) % 4>>
      BY <2>4
    <3> HIDE DEF key
    <3> QED BY <2>1, <2>2, <3>1
  <2> QED BY <2>3, <2>4
<1>6. /\ IsData(begun, n)
      /\ \A i \in 1..n : begun[i] =
           IF i \in first..(first + 3)
             THEN Meet(input[i], <<(first + 3) - first + 1, (i - first) % 4>>)
             ELSE input[i]
  <2> HIDE DEF first
  <2> QED BY <1>4, EncodeBytes
<1> HIDE DEF begun
<1>7. IsData(clear, n)
  BY <1>6, EncodeBytes
<1>8. \A i \in 1..n : clear[i] =
        IF i \in (first + 4)..last
          THEN Meet(begun[i], <<last - (first + 4) + 1, (i - (first + 4)) % 4>>)
          ELSE begun[i]
  <2> HIDE DEF first, last
  <2> QED BY <1>6, EncodeBytes
<1> HIDE DEF clear, rest
<1>9. ASSUME NEW j \in 1..size
      PROVE  clear[h + j] = Meet(rest[j], key(j))
  <2> DEFINE i == h + j
  <2>1. i \in 1..n /\ input[i] = rest[j]
    BY <1>4
  <2>2. CASE j <= 4
    <3>1. /\ i \in first..(first + 3) /\ i \notin (first + 4)..last
          /\ key(j) = <<(first + 3) - first + 1, (i - first) % 4>>
      <4>1. i - first = j - 1 /\ (first + 3) - first + 1 = 4
        BY <1>1
      <4> QED BY <1>1, <2>2, <4>1
    <3> HIDE DEF key, i, first, last
    <3> QED BY <1>6, <1>8, <2>1, <3>1 DEF i
  <2>3. CASE ~(j <= 4)
    <3>1. /\ i \notin first..(first + 3) /\ i \in (first + 4)..last
          /\ key(j) = <<last - (first + 4) + 1, (i - (first + 4)) % 4>>
      <4>1. i - (first + 4) = j - 5 /\ last - (first + 4) + 1 = size - 4
        BY <1>1
      <4> QED BY <1>1, <2>3, <4>1
    <3> HIDE DEF key, i, first, last
    <3> QED BY <1>6, <1>8, <2>1, <3>1 DEF i
  <2> QED BY <2>2, <2>3
<1>10. ASSUME NEW j \in 1..size
       PROVE  clear[h + j] = packet[j]
  <2> HIDE DEF key
  <2>1. /\ packet[j] = [line |-> Line("body", size, j), is |-> "text", keys |-> {}]
        /\ rest[j] = Meet(packet[j], key(j))
        /\ clear[h + j] = Meet(rest[j], key(j))
    BY <1>2, <1>5, <1>9
  <2> QED BY <2>1, SameKeyTwice
<1>11. SubSeq(clear, first, last) = packet
  <2> DEFINE part == SubSeq(clear, first, last)
  <2>1. /\ first \in 1..(n + 1) /\ last \in 0..n
        /\ (IF first <= last THEN last - first + 1 ELSE 0) = size
    BY <1>1 DEF h
  <2>2. clear = [i \in 1..n |-> clear[i]]
    BY <1>7 DEF IsData
  <2>3. LET m == IF first <= last THEN last - first + 1 ELSE 0
        IN  /\ part = [i \in 1..m |-> part[i]]
            /\ \A i \in 1..m : part[i] = clear[first + i - 1]
    <3> HIDE DEF first, last
    <3> QED BY <2>1, <2>2, Slice, SMTT(30)
  <2>4. \A j \in 1..size : first + j - 1 = h + j
    BY <1>1
  <2>5. part = [i \in 1..size |-> part[i]] /\ \A j \in 1..size : part[j] = packet[j]
    <3> HIDE DEF part, first, last
    <3> QED BY <1>10, <2>1, <2>3, <2>4
  <2>6. packet = [j \in 1..size |-> packet[j]]
    BY <1>2 DEF IsData
  <2> HIDE DEF part
  <2>7. part = packet
    BY <2>5, <2>6
  <2> QED BY <2>7 DEF part
<1> QED BY <1>11 DEF Clear, clear, begun, packet, h

-----------------------------------------------------------------------------
(* What the writers write.                                                 *)

\* A line the parser passes over.
IsPlain(line) == /\ line.size \in Nat \ 0..2
                 /\ line.name # "Content-Length"
                 /\ ~AlphaCoded(line)
                 /\ ~(line.name = "Content-Type" /\ line.value \in Markup)

\* The line with the length of the packet, which has at most four digits, and the empty
\* one.
LEMMA LastLines ==
  ASSUME NEW size \in Nat
  PROVE  /\ ContentLength(size).size \in 19..22
         /\ ContentLength(size).name = "Content-Length"
         /\ ContentLength(size).value = size
         /\ EmptyLine.size = 2
<1>1. Digits(size) \in 1..4
  <2>1. CASE size < 10
    BY <2>1 DEF Digits
  <2>2. CASE ~(size < 10) /\ size < 100
    BY <2>2 DEF Digits
  <2>3. CASE ~(size < 10) /\ ~(size < 100) /\ size < 1000
    BY <2>3 DEF Digits
  <2>4. CASE ~(size < 10) /\ ~(size < 100) /\ ~(size < 1000)
    BY <2>4 DEF Digits
  <2> QED BY <2>1, <2>2, <2>3, <2>4
<1>2. ASSUME NEW d \in 1..4
      PROVE  Line("Content-Length", 16 + d, size).size \in 19..22
  BY DEF Line
<1>3. ContentLength(size).size \in 19..22
  BY <1>1, <1>2 DEF ContentLength
<1>4. EmptyLine.size = 2
  BY DEF EmptyLine, Line
<1> QED BY <1>3, <1>4 DEF ContentLength, Line

\* Eight such lines, the length of the packet and an empty line are a head, and its
\* length is the sum of theirs.
LEMMA TenLines ==
  ASSUME NEW lines, NEW size \in Nat, Len(lines) = 10, DOMAIN lines = 1..10,
         \A k \in 1..8 : IsPlain(lines[k]),
         lines[9] = ContentLength(size), lines[10] = EmptyLine
  PROVE  /\ IsHead(lines, size)
         /\ lines[9].size \in 19..22
         /\ HeadSize(lines) = lines[1].size + lines[2].size + lines[3].size + lines[4].size
              + lines[5].size + lines[6].size + lines[7].size + lines[8].size
              + lines[9].size + 2
<1>1. /\ lines[9].size \in 19..22 /\ lines[9].name = "Content-Length"
      /\ lines[9].value = size /\ lines[10].size = 2
  BY LastLines
<1>2. ~AlphaCoded(lines[9]) /\ ~(lines[9].name = "Content-Type" /\ lines[9].value \in Markup)
  BY <1>1 DEF AlphaCoded
<1>3. IsHead(lines, size)
  <2>1. \A k \in 1..8 : /\ lines[k].size \in Nat \ 0..1 /\ lines[k].size >= 3
                        /\ lines[k].name # "Content-Length" /\ ~AlphaCoded(lines[k])
                        /\ ~(lines[k].name = "Content-Type" /\ lines[k].value \in Markup)
    BY DEF IsPlain
  <2>2. \A k \in 1..10 : k \in 1..8 \/ k = 9 \/ k = 10
    OBVIOUS
  <2>3. AreLines(lines)
    BY <1>1, <2>1, <2>2 DEF AreLines
  <2>4. \A k \in 1..9 : /\ lines[k].size >= 3 /\ ~AlphaCoded(lines[k])
                        /\ ~(lines[k].name = "Content-Type" /\ lines[k].value \in Markup)
    BY <1>1, <1>2, <2>1, <2>2
  <2> QED BY <1>1, <2>1, <2>3, <2>4 DEF IsHead
<1>4. /\ Ends(lines)[0] = 0 /\ HeadSize(lines) = Ends(lines)[10]
      /\ \A k \in 1..10 : /\ Ends(lines)[k] = Ends(lines)[k - 1] + lines[k].size
                          /\ lines[k].size \in Nat
  BY <1>3, HeadEnds
<1>5. HeadSize(lines) = lines[1].size + lines[2].size + lines[3].size + lines[4].size
        + lines[5].size + lines[6].size + lines[7].size + lines[8].size + lines[9].size + 2
  <2>1. /\ Ends(lines)[1] = Ends(lines)[0] + lines[1].size
        /\ Ends(lines)[2] = Ends(lines)[1] + lines[2].size
        /\ Ends(lines)[3] = Ends(lines)[2] + lines[3].size
        /\ Ends(lines)[4] = Ends(lines)[3] + lines[4].size
        /\ Ends(lines)[5] = Ends(lines)[4] + lines[5].size
        /\ Ends(lines)[6] = Ends(lines)[5] + lines[6].size
        /\ Ends(lines)[7] = Ends(lines)[6] + lines[7].size
        /\ Ends(lines)[8] = Ends(lines)[7] + lines[8].size
        /\ Ends(lines)[9] = Ends(lines)[8] + lines[9].size
        /\ Ends(lines)[10] = Ends(lines)[9] + lines[10].size
    BY <1>4
  <2>2. /\ lines[1].size \in Nat /\ lines[2].size \in Nat /\ lines[3].size \in Nat
        /\ lines[4].size \in Nat /\ lines[5].size \in Nat /\ lines[6].size \in Nat
        /\ lines[7].size \in Nat /\ lines[8].size \in Nat /\ lines[9].size \in Nat
    BY <1>4
  <2> QED BY <1>1, <1>4, <2>1, <2>2
<1> QED BY <1>1, <1>3, <1>5

\* The lengths of the strings, as the assumptions give them.
LEMMA Strings ==
  /\ \A host \in Hosts : host \in Nat
  /\ \A agent \in Agents : agent \in Nat
  /\ \A server \in Servers : server \in Nat
  /\ \A age \in Ages : age \in Nat
  /\ \A mime \in Mimes : mime.size \in Nat /\ mime.subtype \notin Markup
  BY StringsAssumption DEF StringsAssumption, Markup

\* A request is a head, and vpn_packet has room for it.
LEMMA RequestIsHead ==
  ASSUME NEW host \in Hosts, NEW agent \in Agents, NEW mime \in Mimes, NEW age \in Ages,
         NEW offset \in 0..4, NEW size \in Nat
  PROVE  /\ IsHead(RequestHead(host, agent, mime, age, offset, size), size)
         /\ HeadSize(RequestHead(host, agent, mime, age, offset, size)) <= Room
<1> DEFINE lines == RequestHead(host, agent, mime, age, offset, size)
           settings == <<Line("Connection", 22, "keep-alive"),
                         Line("Accept-Language", 25, "en"), ContentType(mime),
                         Line("Accept", 82, "types"), CacheControl(age)>>
<1>1. /\ host \in Nat /\ agent \in Nat /\ age \in Nat
      /\ mime.size \in Nat /\ mime.subtype \notin Markup
  BY Strings
<1>2. /\ Len(lines) = 10 /\ DOMAIN lines = 1..10
      /\ lines[1] = Line("GET", Method(size) + 11, "page")
      /\ lines[2] = Line("Host", 6 + host, "host")
      /\ lines[3] = settings[((offset + 0) % 5) + 1]
      /\ lines[4] = settings[((offset + 1) % 5) + 1]
      /\ lines[5] = settings[((offset + 2) % 5) + 1]
      /\ lines[6] = settings[((offset + 3) % 5) + 1]
      /\ lines[7] = settings[((offset + 4) % 5) + 1]
      /\ lines[8] = Line("User-Agent", 12 + agent, "agent")
      /\ lines[9] = ContentLength(size)
      /\ lines[10] = EmptyLine
  BY DEF RequestHead
<1>3. /\ settings[1] = Line("Connection", 22, "keep-alive")
      /\ settings[2] = Line("Accept-Language", 25, "en")
      /\ settings[3] = ContentType(mime)
      /\ settings[4] = Line("Accept", 82, "types")
      /\ settings[5] = CacheControl(age)
  OBVIOUS
<1>4. Method(size) \in {3, 4}
  BY DEF Method
<1> HIDE DEF lines, settings
<1>5. /\ settings[1].size = 24 /\ settings[2].size = 27 /\ settings[3].size = 16 + mime.size
      /\ settings[4].size = 84 /\ settings[5].size = 25 + age
      /\ \A i \in 1..5 : IsPlain(settings[i])
  BY <1>1, <1>3 DEF Line, ContentType, CacheControl, IsPlain, AlphaCoded
<1>6. /\ \A k \in 3..7 : IsPlain(lines[k])
      /\ lines[3].size + lines[4].size + lines[5].size + lines[6].size + lines[7].size
           = 176 + mime.size + age
  <2>1. CASE offset = 0
    BY <1>1, <1>2, <1>5, <2>1
  <2>2. CASE offset = 1
    BY <1>1, <1>2, <1>5, <2>2
  <2>3. CASE offset = 2
    BY <1>1, <1>2, <1>5, <2>3
  <2>4. CASE offset = 3
    BY <1>1, <1>2, <1>5, <2>4
  <2>5. CASE offset = 4
    BY <1>1, <1>2, <1>5, <2>5
  <2> QED BY <2>1, <2>2, <2>3, <2>4, <2>5
<1>7. /\ IsPlain(lines[1]) /\ lines[1].size <= 17
      /\ IsPlain(lines[2]) /\ lines[2].size = 8 + host
      /\ IsPlain(lines[8]) /\ lines[8].size = 14 + agent
  BY <1>1, <1>2, <1>4 DEF Line, IsPlain, AlphaCoded
<1>8. \A k \in 1..8 : IsPlain(lines[k])
  BY <1>6, <1>7
<1>9. /\ IsHead(lines, size)
      /\ lines[9].size \in 19..22
      /\ HeadSize(lines) = lines[1].size + lines[2].size + lines[3].size + lines[4].size
           + lines[5].size + lines[6].size + lines[7].size + lines[8].size + lines[9].size + 2
  BY <1>2, <1>8, TenLines
<1>10. \A k \in 1..8 : lines[k].size \in Nat
  BY <1>8 DEF IsPlain
<1>11. HeadSize(lines) <= 239 + host + agent + mime.size + age
  <2>1. /\ lines[1].size \in Nat /\ lines[2].size \in Nat /\ lines[3].size \in Nat
        /\ lines[4].size \in Nat /\ lines[5].size \in Nat /\ lines[6].size \in Nat
        /\ lines[7].size \in Nat /\ lines[8].size \in Nat
    BY <1>10
  <2> QED BY <1>1, <1>6, <1>7, <1>9, <2>1
<1>12. 239 + host + agent + mime.size + age <= Room
  BY RoomAssumption DEF RoomAssumption, Room
<1>13. HeadSize(lines) \in Nat /\ Room \in Int
  <2>1. HeadSize(lines) \in Nat
    BY <1>9, HeadEnds
  <2>2. Room \in Int
    BY PacketAssumption DEF PacketAssumption, Room
  <2> QED BY <2>1, <2>2
<1> QED BY <1>1, <1>9, <1>11, <1>12, <1>13 DEF lines

\* So is a response: its server name carries a version, never lengths as letters.
LEMMA ResponseIsHead ==
  ASSUME NEW server \in Servers, NEW mime \in Mimes, NEW age \in Ages, NEW size \in Nat
  PROVE  /\ IsHead(ResponseHead(server, mime, age, size), size)
         /\ HeadSize(ResponseHead(server, mime, age, size)) <= Room
<1> DEFINE lines == ResponseHead(server, mime, age, size)
<1>1. /\ server \in Nat /\ age \in Nat /\ mime.size \in Nat /\ mime.subtype \notin Markup
  BY Strings
<1>2. /\ Len(lines) = 10 /\ DOMAIN lines = 1..10
      /\ lines[1] = Line("HTTP", 15, "OK")
      /\ lines[2] = Line("Date", 35, "date")
      /\ lines[3] = Line("Server", 8 + server + 3, "version")
      /\ lines[4] = CacheControl(age)
      /\ lines[5] = Line("Connection", 22, "keep-alive")
      /\ lines[6] = Line("Expires", 38, "date")
      /\ lines[7] = ContentType(mime)
      /\ lines[8] = Line("Content-Encoding", IF size % 2 = 0 THEN 31 ELSE 22, "gzip")
      /\ lines[9] = ContentLength(size)
      /\ lines[10] = EmptyLine
  BY DEF ResponseHead
<1> HIDE DEF lines
<1>3. /\ lines[1].size = 17 /\ lines[2].size = 37 /\ lines[3].size = 13 + server
      /\ lines[4].size = 25 + age /\ lines[5].size = 24 /\ lines[6].size = 40
      /\ lines[7].size = 16 + mime.size /\ lines[8].size \in {24, 33}
  BY <1>1, <1>2 DEF Line, CacheControl, ContentType
<1>4. /\ IsPlain(lines[1]) /\ IsPlain(lines[2]) /\ IsPlain(lines[5]) /\ IsPlain(lines[6])
  BY <1>2, <1>3 DEF Line, IsPlain, AlphaCoded
<1>5. IsPlain(lines[3]) /\ IsPlain(lines[4])
  BY <1>1, <1>2, <1>3 DEF Line, CacheControl, IsPlain, AlphaCoded
<1>6. IsPlain(lines[7]) /\ IsPlain(lines[8])
  BY <1>1, <1>2, <1>3 DEF Line, ContentType, IsPlain, AlphaCoded
<1>7. /\ IsHead(lines, size)
      /\ lines[9].size \in 19..22
      /\ HeadSize(lines) = lines[1].size + lines[2].size + lines[3].size + lines[4].size
           + lines[5].size + lines[6].size + lines[7].size + lines[8].size + lines[9].size + 2
  <2>1. \A k \in 1..8 : IsPlain(lines[k])
    BY <1>4, <1>5, <1>6
  <2> QED BY <1>2, <2>1, TenLines
<1>8. HeadSize(lines) <= 229 + server + mime.size + age
  BY <1>1, <1>3, <1>7
<1>9. 229 + server + mime.size + age <= Room
  BY RoomAssumption DEF RoomAssumption, Room
<1>10. HeadSize(lines) \in Nat /\ Room \in Int
  <2>1. HeadSize(lines) \in Nat
    BY <1>7, HeadEnds
  <2>2. Room \in Int
    BY PacketAssumption DEF PacketAssumption, Room
  <2> QED BY <2>1, <2>2
<1> QED BY <1>1, <1>7, <1>8, <1>9, <1>10 DEF lines

-----------------------------------------------------------------------------
(* The inductive invariant.                                                *)

\* The packet begins behind the room, and another may come as long as no head is there.
BufferInv == /\ front \in Int
             /\ back \in Room..Capacity
             /\ outPackets \in 0..MaxPackets
             /\ head = <<>> => /\ front = Room
                               /\ found = None
                               /\ back > front => outPackets < MaxPackets

\* What is pushed in front of a packet is a head for its size that the room holds.
HeadInv == head # <<>> => /\ back > Room
                          /\ IsHead(head, back - Room)
                          /\ HeadSize(head) <= Room
                          /\ front = Room - HeadSize(head)

\* What the receiver found is what it makes of a part of that message.
FoundInv == found # None =>
              /\ head # <<>>
              /\ cut \in 0..Len(StreamOf(head, back - Room))
              /\ initial \in [head : Int, body : Int]
              /\ found = Taken(SubSeq(StreamOf(head, back - Room), 1, cut), initial, back - Room)

IInv == BufferInv /\ HeadInv /\ FoundInv

\* With no lines there is nothing in front of the packet.
LEMMA NoLines == HeadSize(<<>>) = 0
  BY EndsGrow DEF AreLines, HeadSize

LEMMA RoomFacts == /\ Capacity \in Nat /\ Room \in 0..Capacity
                   /\ RemainSize = Capacity - Room /\ RemainSize \in Nat
                   /\ IpHeader \in Nat \ {0} /\ MaxPackets \in Nat
                   /\ \A m \in PacketSizes : m \in Nat
  BY PacketAssumption DEF PacketAssumption, Room, RemainSize

\* The sizes of the packet and of the message, where the invariant holds.
LEMMA Sizes ==
  ASSUME BufferInv, HeadInv
  PROVE  /\ PacketSize = back - Room /\ back - Room \in Nat
         /\ head # <<>> => /\ HeadSize(head) \in Nat
                           /\ Stream = StreamOf(head, back - Room)
                           /\ Len(Stream) = HeadSize(head) + PacketSize
                                              + head[1].size + head[2].size
<1>1. back - Room \in Nat /\ back \in Nat /\ Room \in Nat
  BY RoomFacts DEF BufferInv
<1>2. CASE head = <<>>
  BY <1>1, <1>2, NoLines DEF BufferInv, PacketSize
<1>3. CASE head # <<>>
  <2>1. IsHead(head, back - Room) /\ front = Room - HeadSize(head)
    BY <1>3 DEF HeadInv
  <2>2. HeadSize(head) \in Nat
    BY <2>1, HeadEnds
  <2>3. PacketSize = back - Room
    BY <1>1, <2>1, <2>2 DEF PacketSize
  <2>4. Stream = StreamOf(head, back - Room)
    BY <2>3 DEF Stream, StreamOf
  <2>5. AreLines(head) /\ Len(head) >= 2
    BY <2>1 DEF IsHead
  <2> QED BY <1>1, <2>2, <2>3, <2>4, <2>5, StreamPrefix
<1> QED BY <1>2, <1>3

\* The receiver is never given more than the message and the two lines after it.
LEMMA CutsAreInside ==
  ASSUME BufferInv, HeadInv, head # <<>>
  PROVE  Cuts \subseteq 0..Len(Stream)
<1> DEFINE h == HeadSize(head)
           n == PacketSize
<1>1. /\ n \in Nat /\ h \in Nat
      /\ Len(Stream) = h + n + head[1].size + head[2].size
  BY Sizes
<1>2. IsHead(head, back - Room)
  BY DEF HeadInv
<1>3. /\ head[1].size \in Nat /\ head[1].size >= 3
      /\ head[2].size \in Nat /\ head[2].size >= 3 /\ Len(head) = 10
  BY <1>2, HeadEnds DEF IsHead
<1>4. \A k \in 1..10 : /\ Ends(head)[k] \in Nat /\ Ends(head)[k] <= h
                        /\ Ends(head)[k] >= 3
  <2>1. /\ Ends(head)[0] = 0 /\ Ends(head)[1] = Ends(head)[0] + head[1].size
        /\ \A k \in 1..10 : Ends(head)[k] \in Nat
        /\ h = Ends(head)[10]
    BY <1>2, HeadEnds
  <2>2. \A k \in 1..10 : Ends(head)[1] <= Ends(head)[k] /\ Ends(head)[k] <= Ends(head)[10]
    <3>1. \A j \in 0..10 : \A i \in 0..j : Ends(head)[i] <= Ends(head)[j]
      BY <1>2, HeadEnds
    <3>2. \A k \in 1..10 : k \in 0..10 /\ 10 \in 0..10 /\ k \in 0..10 /\ 1 \in 0..k
      OBVIOUS
    <3> QED BY <3>1, <3>2
  <2>3. Ends(head)[1] >= 3 /\ Ends(head)[1] \in Nat
    BY <1>3, <2>1
  <2> HIDE DEF h
  <2>4. ASSUME NEW k \in 1..10
        PROVE  Ends(head)[k] >= 3
    <3>1. Ends(head)[k] \in Nat /\ Ends(head)[1] <= Ends(head)[k]
      BY <2>1, <2>2
    <3> QED BY <2>3, <3>1
  <2> QED BY <2>1, <2>2, <2>4
<1>5. h >= 3
  <2> HIDE DEF h
  <2> QED BY <1>1, <1>4
<1> DEFINE edges == {Ends(head)[k] : k \in 1..Len(head)} \cup {h + n, h + n + head[1].size}
<1>6. \A edge \in edges : edge \in 2..(h + n + head[1].size)
  <2> HIDE DEF h, n
  <2>1. /\ h + n \in 2..(h + n + head[1].size)
        /\ h + n + head[1].size \in 2..(h + n + head[1].size)
    BY <1>1, <1>3, <1>5
  <2>2. ASSUME NEW k \in 1..10
        PROVE  Ends(head)[k] \in 2..(h + n + head[1].size)
    <3>1. Ends(head)[k] \in Nat /\ Ends(head)[k] <= h /\ Ends(head)[k] >= 3
      BY <1>4
    <3> QED BY <1>1, <1>3, <3>1
  <2> QED BY <1>3, <2>1, <2>2
<1>7. Cuts = {edge + d : edge \in edges, d \in -2..2}
  BY DEF Cuts
<1> HIDE DEF h, n, edges
<1> QED BY <1>1, <1>3, <1>6, <1>7

-----------------------------------------------------------------------------
(* Every step keeps it.                                                    *)

LEMMA InitIInv == Init => IInv
  BY RoomFacts DEF Init, IInv, BufferInv, HeadInv, FoundInv, None

LEMMA ReadKeeps == ASSUME IInv, NEW m \in PacketSizes, Read(m)
                   PROVE  IInv'
<1> DEFINE n == IF m <= RemainSize THEN m ELSE RemainSize
<1>1. n \in Nat /\ n <= RemainSize /\ n >= IpHeader
  BY RoomFacts DEF Read
<1>2. /\ front' = Room /\ back' = Room + n /\ head' = <<>> /\ found' = None
      /\ outPackets' = outPackets /\ outPackets < MaxPackets
  BY DEF Read
<1> HIDE DEF n
<1>3. Room' = Room
  BY DEF Room
<1>4. BufferInv'
  <2>1. back' \in Room..Capacity /\ front' \in Int
    BY <1>1, <1>2, RoomFacts
  <2>2. outPackets' \in 0..MaxPackets
    BY <1>2 DEF IInv, BufferInv
  <2> QED BY <1>2, <1>3, <2>1, <2>2 DEF BufferInv, None
<1> QED BY <1>2, <1>4 DEF IInv, HeadInv, FoundInv, None

\* Whatever head is pushed, as long as it is one for the packet and the room holds it.
LEMMA PushKeeps == ASSUME IInv, NEW lines, Push(lines), outPackets' \in {outPackets, outPackets + 1},
                          IsHead(lines, PacketSize), HeadSize(lines) <= Room
                   PROVE  IInv'
<1>1. /\ head = <<>> /\ back > front /\ head' = lines
      /\ front' = front - HeadSize(lines)
      /\ back' = back /\ found' = found
  BY DEF Push
<1>2. front = Room /\ found = None /\ outPackets < MaxPackets /\ outPackets \in 0..MaxPackets
  BY <1>1 DEF IInv, BufferInv
<1>3. PacketSize = back - Room
  BY Sizes DEF IInv
<1>4. HeadSize(lines) \in Nat /\ lines # <<>>
  <2>1. Len(lines) = 10
    BY DEF IsHead
  <2>2. lines # <<>>
    BY <2>1
  <2>3. HeadSize(lines) \in Nat
    BY HeadEnds
  <2> QED BY <2>2, <2>3
<1>5. Room' = Room
  BY DEF Room
<1>6. BufferInv'
  <2>1. front' \in Int
    BY <1>1, <1>2, <1>4, RoomFacts
  <2>2. outPackets' \in 0..MaxPackets
    BY <1>2, RoomFacts
  <2>3. back' \in Room..Capacity
    BY <1>1 DEF IInv, BufferInv
  <2> QED BY <1>1, <1>4, <1>5, <2>1, <2>2, <2>3 DEF BufferInv
<1>7. HeadInv'
  <2>1. HeadSize(head') = HeadSize(lines) /\ IsHead(head', back' - Room)
    BY <1>1, <1>3
  <2> QED BY <1>1, <1>2, <1>5, <2>1 DEF HeadInv
<1>8. FoundInv'
  BY <1>1, <1>2 DEF FoundInv, None
<1> QED BY <1>6, <1>7, <1>8 DEF IInv

LEMMA ReceiveKeeps == ASSUME IInv, Receive PROVE IInv'
<1>1. /\ head # <<>> /\ front' = front /\ back' = back /\ outPackets' = outPackets
      /\ head' = head
  BY DEF Receive
<1>2. PICK n \in Cuts, lengths \in Lengths :
         /\ cut' = n /\ initial' = lengths
         /\ found' = Taken(SubSeq(Stream, 1, n), lengths, PacketSize)
  BY DEF Receive
<1>3. /\ n \in 0..Len(Stream) /\ Stream = StreamOf(head, back - Room)
      /\ PacketSize = back - Room
  <2>1. Cuts \subseteq 0..Len(Stream)
    BY <1>1, CutsAreInside DEF IInv
  <2>2. Stream = StreamOf(head, back - Room) /\ PacketSize = back - Room
    BY <1>1, Sizes DEF IInv
  <2> QED BY <2>1, <2>2
<1>4. lengths \in [head : Int, body : Int]
  <2>1. Garbage \subseteq Int
    BY PacketAssumption DEF PacketAssumption
  <2>2. lengths \in [head : Garbage, body : Garbage]
    BY DEF Lengths
  <2> QED BY <2>1, <2>2
<1>5. Room' = Room
  BY DEF Room
<1>6. BufferInv' /\ HeadInv'
  BY <1>1, <1>5 DEF IInv, BufferInv, HeadInv, None
<1>7. FoundInv'
  <2>1. StreamOf(head', back' - Room) = Stream
    BY <1>1, <1>3
  <2>2. /\ cut' \in 0..Len(StreamOf(head', back' - Room))
        /\ found' = Taken(SubSeq(StreamOf(head', back' - Room), 1, cut'), initial', back' - Room)
    BY <1>1, <1>2, <1>3, <2>1
  <2> QED BY <1>1, <1>2, <1>4, <1>5, <2>2 DEF FoundInv
<1> QED BY <1>6, <1>7 DEF IInv

LEMMA NextIInv == IInv /\ [Next]_vars => IInv'
<1> SUFFICES ASSUME IInv, [Next]_vars PROVE IInv'
  OBVIOUS
<1>1. PacketSize \in Nat
  BY Sizes DEF IInv
<1>2. ASSUME NEW m \in PacketSizes, Read(m) PROVE IInv'
  BY <1>2, ReadKeeps
<1>3. CASE PushRequest
  <2>1. PICK host \in Hosts, agent \in Agents, mime \in Mimes, age \in Ages, offset \in 0..4 :
           Push(RequestHead(host, agent, mime, age, offset, PacketSize))
    BY <1>3 DEF PushRequest
  <2>2. outPackets' = outPackets + 1
    BY <1>3 DEF PushRequest
  <2> QED BY <1>1, <2>1, <2>2, RequestIsHead, PushKeeps
<1>4. CASE PushResponse
  <2>1. PICK server \in Servers, mime \in Mimes, age \in Ages :
           Push(ResponseHead(server, mime, age, PacketSize))
    BY <1>4 DEF PushResponse
  <2>2. outPackets' = outPackets
    BY <1>4 DEF PushResponse
  <2> QED BY <1>1, <2>1, <2>2, ResponseIsHead, PushKeeps
<1>5. CASE Receive
  BY <1>5, ReceiveKeeps
<1>6. CASE UNCHANGED vars
  BY <1>6 DEF vars, IInv, BufferInv, HeadInv, FoundInv, Room, None, StreamOf, Obfuscate
<1> QED BY <1>2, <1>3, <1>4, <1>5, <1>6 DEF Next

\* The inductive invariant holds of every reachable state.
THEOREM InvariantHolds == Spec => []IInv
<1>1. Init => IInv
  BY InitIInv
<1>2. IInv /\ [Next]_vars => IInv'
  BY NextIInv
<1> QED BY <1>1, <1>2, PTL DEF Spec

-----------------------------------------------------------------------------
(* What it says of the messages.                                           *)

\* What the receiver has found, in terms of the message and of how much of it there is.
LEMMA WhatIsFound ==
  ASSUME IInv, found # None
  PROVE  LET size  == HeadSize(head)
             h     == IF cut >= size THEN size ELSE initial.head
             b     == IF cut >= size - 3 THEN PacketSize ELSE initial.body
             whole == cut >= head[1].size /\ h # 0 /\ h + b \in 0..cut
         IN  /\ size \in Nat /\ PacketSize \in Nat /\ cut \in Nat
             /\ h \in Int /\ b \in Int
             /\ found.head = h /\ found.body = b
             /\ found.ret = (IF whole THEN "whole" ELSE "again")
             /\ whole /\ cut >= size + PacketSize => 
                  found = [ret |-> "whole", head |-> size, body |-> PacketSize, clear |-> TRUE]
<1> DEFINE size  == HeadSize(head)
           h     == IF cut >= size THEN size ELSE initial.head
           b     == IF cut >= size - 3 THEN PacketSize ELSE initial.body
           whole == cut >= head[1].size /\ h # 0 /\ h + b \in 0..cut
           input == SubSeq(Stream, 1, cut)
<1>1. /\ head # <<>> /\ initial \in [head : Int, body : Int]
      /\ cut \in 0..Len(Stream) /\ Len(Stream) \in Nat
      /\ found = Taken(input, initial, PacketSize)
      /\ size \in Nat /\ PacketSize \in Nat /\ PacketSize = back - Room
      /\ Stream = StreamOf(head, PacketSize)
      /\ IsHead(head, PacketSize)
  <2>1. head # <<>> /\ PacketSize = back - Room /\ PacketSize \in Nat
    BY Sizes DEF IInv, FoundInv
  <2>2. IsHead(head, PacketSize) /\ size \in Nat /\ Stream = StreamOf(head, PacketSize)
    BY <2>1, Sizes DEF IInv, HeadInv
  <2>3. Len(Stream) \in Nat
    <3>1. Len(Stream) = size + PacketSize + head[1].size + head[2].size
      BY <2>1, Sizes DEF IInv
    <3>2. head[1].size \in Nat /\ head[2].size \in Nat
      BY <2>2, HeadEnds
    <3> QED BY <2>1, <2>2, <3>1, <3>2
  <2> QED BY <2>1, <2>2, <2>3 DEF IInv, FoundInv
<1>2. cut \in Nat /\ IsPrefix(input, head, PacketSize, cut)
  <2>1. AreLines(head) /\ Len(head) >= 2
    BY <1>1 DEF IsHead
  <2> QED BY <1>1, <2>1, StreamPrefix
<1>3. /\ h \in Int /\ b \in Int
      /\ PopFront(input, initial) =
           [ret |-> IF whole THEN "whole" ELSE "again", head |-> h, body |-> b]
  BY <1>1, <1>2, PrefixIsParsed
<1> DEFINE packet == SubSeq(Clear(input, h + 1, h + b), h + 1, h + b)
<1> HIDE DEF h, b, whole, input, size
<1>4. found = IF ~whole THEN [ret |-> "again", head |-> h, body |-> b]
              ELSE [ret |-> "whole", head |-> h, body |-> b,
                    clear |-> h + 1 > 0 /\ packet = Packet(PacketSize)]
  BY <1>1, <1>3 DEF Taken
<1> HIDE DEF packet
<1>5. /\ found.head = h /\ found.body = b
      /\ found.ret = IF whole THEN "whole" ELSE "again"
  BY <1>4
<1>6. ASSUME whole, cut >= size + PacketSize
      PROVE  found = [ret |-> "whole", head |-> size, body |-> PacketSize, clear |-> TRUE]
  <2>1. h = size /\ b = PacketSize
    BY <1>1, <1>2, <1>6 DEF h, b
  <2>2. packet = Packet(PacketSize)
    BY <1>1, <1>2, <1>6, <2>1, PacketIsClear DEF packet, size
  <2>3. h + 1 > 0
    BY <1>1, <2>1
  <2> QED BY <1>4, <1>6, <2>1, <2>2, <2>3
<1> QED BY <1>1, <1>2, <1>3, <1>5, <1>6 DEF h, b, whole, size

\* The variables keep their types, and back_offset stays inside the buffer.
THEOREM Types == Spec => []TypeOK
<1>1. IInv => TypeOK
  <2> SUFFICES ASSUME IInv PROVE TypeOK
    OBVIOUS
  <2>1. back \in 0..Capacity
    BY RoomFacts DEF IInv, BufferInv
  <2>2. found # None => found.head \in Int /\ found.body \in Int
    BY WhatIsFound
  <2> QED BY <2>1, <2>2 DEF TypeOK, IInv, BufferInv
<1> QED BY <1>1, InvariantHolds, PTL

\* The assertion of push_front never fails: no head either side writes is longer than
\* the quarter of the buffer in front of the packet.
THEOREM HeadsFit == Spec => []HeadFits
<1>1. IInv => HeadFits
  <2> SUFFICES ASSUME IInv PROVE HeadFits
    OBVIOUS
  <2>1. CASE head = <<>>
    BY <2>1, RoomFacts DEF IInv, BufferInv, HeadFits
  <2>2. CASE head # <<>>
    <3>1. HeadSize(head) \in Nat
      BY <2>2, Sizes DEF IInv
    <3> QED BY <2>2, <3>1, RoomFacts DEF IInv, HeadInv, HeadFits
  <2> QED BY <2>1, <2>2
<1> QED BY <1>1, InvariantHolds, PTL

\* With the whole message there, pop_front_xdpi_head returns the head and the packet that
\* were written, whatever the lengths were before, and write_tun_http clears the packet.
THEOREM MessagesRoundTrip == Spec => []RoundTrip
<1>1. IInv => RoundTrip
  <2> SUFFICES ASSUME IInv, found # None, cut >= HeadSize(head) + PacketSize
               PROVE  found = [ret |-> "whole", head |-> HeadSize(head),
                               body |-> PacketSize, clear |-> TRUE]
    BY DEF RoundTrip
  <2>1. /\ HeadSize(head) \in Nat /\ HeadSize(head) # 0
        /\ head[1].size \in Nat /\ head[1].size <= HeadSize(head)
    <3>1. head # <<>> /\ IsHead(head, back - Room)
      BY DEF IInv, FoundInv, HeadInv
    <3>2. /\ Ends(head)[0] = 0 /\ Ends(head)[1] = Ends(head)[0] + head[1].size
          /\ head[1].size \in Nat \ 0..1 /\ HeadSize(head) = Ends(head)[10]
          /\ Ends(head)[10] \in Nat
      BY <3>1, HeadEnds
    <3>3. Ends(head)[1] <= Ends(head)[10]
      BY <3>1, HeadEnds
    <3> QED BY <3>2, <3>3
  <2> DEFINE size == HeadSize(head)
             whole == cut >= head[1].size /\ size # 0 /\ size + PacketSize \in 0..cut
  <2>2. PacketSize \in Nat /\ cut \in Nat
    BY WhatIsFound
  <2>3. cut >= size /\ cut >= size - 3 /\ whole
    BY <2>1, <2>2
  <2> QED BY <2>3, WhatIsFound
<1> QED BY <1>1, InvariantHolds, PTL

\* What pop_front_xdpi_head makes of any part of a message: each length is found where
\* its line is, until then it is what the caller left in it, and the two decide whether
\* the message is whole.
THEOREM PrefixesAreRead == Spec => []PrefixReading
<1>1. IInv => PrefixReading
  BY WhatIsFound DEF PrefixReading
<1> QED BY <1>1, InvariantHolds, PTL

\* The reader's part of the message that is under way, were it cut after any byte at all
\* and whatever the lengths held: the cuts of Receive are some of these.
EveryCutIsRead ==
  head # <<>> =>
    \A n \in 0..Len(Stream), lengths \in [head : Int, body : Int] :
      LET h == IF n >= HeadSize(head) THEN HeadSize(head) ELSE lengths.head
          b == IF n >= HeadSize(head) - 3 THEN PacketSize ELSE lengths.body
          whole == n >= head[1].size /\ h # 0 /\ h + b \in 0..n
      IN  PopFront(SubSeq(Stream, 1, n), lengths) =
            [ret |-> IF whole THEN "whole" ELSE "again", head |-> h, body |-> b]

\* pop_front_xdpi_head reads a message of either writer alike wherever TCP cuts it.
THEOREM AnyPartIsRead == Spec => []EveryCutIsRead
<1>1. IInv => EveryCutIsRead
  <2> SUFFICES ASSUME IInv, head # <<>> PROVE EveryCutIsRead
    BY DEF EveryCutIsRead
  <2>1. /\ IsHead(head, PacketSize) /\ PacketSize \in Nat
        /\ Stream = StreamOf(head, PacketSize)
    BY Sizes DEF IInv, HeadInv
  <2>2. AreLines(head) /\ Len(head) >= 2
    BY <2>1 DEF IsHead
  <2>3. \A n \in 0..Len(Stream) : IsPrefix(SubSeq(Stream, 1, n), head, PacketSize, n)
    BY <2>1, <2>2, StreamPrefix
  <2>4. \A n \in 0..Len(Stream) : n \in Nat
    OBVIOUS
  <2> QED BY <2>1, <2>3, <2>4, PrefixIsParsed DEF EveryCutIsRead
<1> QED BY <1>1, InvariantHolds, PTL
=============================================================================
