---------------------------- MODULE WireProofs -----------------------------
(***************************************************************************)
(* Frames arrive whole, whatever the sizes of a header, of the alignment   *)
(* and of the buffers, and however write() and read() cut the stream.  The *)
(* bytes that have left queue_string and are not handled yet form a chain: *)
(* in the receiver's buffer, the pipe and what write_all or the queue has, *)
(* each byte is followed by the next one of its frame, and the last one of *)
(* a frame by the first of the next frame.                                 *)
(***************************************************************************)
EXTENDS Wire, SequenceTheorems, TLAPS

Byte == Nat \X Nat

\* The size of the k-th frame of fs, and the byte that is the j-th of it, or the
\* first of the next one.
Size(fs, k)   == Header + fs[k] + PadLength(fs[k])
Pos(fs, k, j) == IF j <= Size(fs, k) THEN <<k, j>> ELSE <<k + 1, 1>>

\* The m-th element of s, when e follows s.
At(s, e, m) == IF m \in 1 .. Len(s) THEN s[m] ELSE e

\* The bytes s of the frames fs follow each other from b on, up to e and without it.
Chain(fs, s, b, e) ==
  /\ s \in Seq(Byte)
  /\ At(s, e, 1) = b
  /\ \A m \in 1 .. Len(s) : s[m][1] \in 1 .. Len(fs) /\ s[m][2] \in 1 .. Size(fs, s[m][1])
  /\ \A m \in 1 .. Len(s) : \A d \in 0 .. Len(s) + 1 - m :
       s[m][2] + d <= Size(fs, s[m][1]) + 1 => At(s, e, m + d) = Pos(fs, s[m][1], s[m][2] + d)

\* The strings that queue_string adds for the last frame.
Part(fs, d) ==
  LET n == Len(fs)
      p == fs[n]
  IN  CASE d = 3 -> Bytes(n, 1, Header)
        [] d = 2 -> Bytes(n, Header + 1, Header + p)
        [] d = 1 -> Bytes(n, Header + p + 1, Header + p + PadLength(p))

\* What there is to add when d of them are still to be.
Strings(fs, d) == [i \in 1 .. d |-> Part(fs, d + 1 - i)]

\* Where the stream goes on when d of them are still to be added.
Given(fs, d) ==
  LET n == Len(fs)
      p == fs[n]
  IN  IF n = 0 THEN <<1, 1>>
      ELSE CASE d = 3 -> Pos(fs, n, 1)
             [] d = 2 -> Pos(fs, n, Header + 1)
             [] d = 1 -> Pos(fs, n, Header + p + 1)
             [] d = 0 -> Pos(fs, n, Size(fs, n) + 1)

\* What is to be written next, all that is under way, and how many of the strings
\* of the last frame are not.
Pending == IF writing.from = "none" THEN queue ELSE writing.bytes
Flow    == (input \o pipe) \o Pending
ToGive  == IF writing.from = "add" THEN Len(todo) - 1 ELSE Len(todo)

TypeInv ==
  /\ frames \in Seq(Payloads)
  /\ queue \in Seq(Byte) /\ pipe \in Seq(Byte) /\ input \in Seq(Byte)
  /\ writing \in [bytes : Seq(Byte), from : {"none", "flush", "add"}]
  /\ handled \in Seq(Seq(Byte))
  /\ status \in {"running", "stopped", "eof"}

\* The strings still to be added are those of the last frame, and what is being
\* written is the queue's or, past an empty queue, the next of them.
SendInv ==
  /\ Len(todo) \in 0 .. 3 /\ (frames = <<>> => todo = <<>>)
  /\ todo = Strings(frames, Len(todo))
  /\ writing.from = "none" => writing.bytes = <<>>
  /\ writing.from = "add" => todo # <<>> /\ queue = <<>>
  /\ Len(queue) <= QueueCap

\* While the receiver runs, what is under way goes on where the last frame handled
\* ends, without a gap, up to what is to be added next.
FlowInv ==
  status = "running" =>
    Chain(frames, Flow, <<Len(handled) + 1, 1>>, Given(frames, ToGive))

HandledInv ==
  /\ \A k \in 1 .. Len(handled) : k \in 1 .. Len(frames) /\ handled[k] = Bytes(k, 1, Size(frames, k))
  /\ status = "eof" => input = <<>> /\ Len(handled) = Len(frames) /\ Len(frames) = MaxFrames

WireInv == TypeInv /\ SendInv /\ FlowInv /\ HandledInv
----------------------------------------------------------------------------
(* Sizes.                                                                  *)

\* Padding takes less than the alignment, and rounds up as pad() does: what
\* queue_string sends is as long as the receiver expects.
LEMMA PaddedLength ==
  ASSUME NEW n \in Nat
  PROVE  PadLength(n) \in 0 .. Align - 1 /\ Pad(n) = n + PadLength(n)
<1>1. Align \in Nat \ {0}
  BY WireAssumption
<1> DEFINE m == n + Align - 1
           q == m \div Align
           r == m % Align
<1>2. m \in Nat
  BY <1>1
<1>3. q \in Int /\ r \in 0 .. Align - 1 /\ m = Align * q + r
  BY <1>1, <1>2
<1>4. PadLength(n) = Align - 1 - r
  BY <1>1 DEF PadLength
<1>5. Pad(n) = q * Align
  BY DEF Pad
<1>6. q * Align = Align * q
  BY <1>1, <1>3
<1>7. Align * q \in Int
  BY <1>1, <1>3
<1> DEFINE a == Align * q
<1>8. m = a + r /\ a \in Int /\ Pad(n) = a
  BY <1>3, <1>5, <1>6, <1>7
<1>9. m = n + Align - 1
  OBVIOUS
<1> HIDE DEF a, r, m, q
<1> QED
  BY <1>1, <1>3, <1>4, <1>8, <1>9

\* The size of a frame, as it is sent and as the receiver works it out.
LEMMA SizeFacts ==
  ASSUME NEW fs \in Seq(Payloads), NEW k \in 1 .. Len(fs)
  PROVE  /\ fs[k] \in Nat
         /\ PadLength(fs[k]) \in Nat
         /\ Size(fs, k) \in Nat /\ Size(fs, k) >= Header /\ Header >= 1 /\ Header \in Nat
         /\ Size(fs, k) = Header + Pad(fs[k])
<1>1. fs[k] \in Nat
  <2>1. fs[k] \in Payloads
    BY ElementOfSeq
  <2> QED
    BY <2>1, WireAssumption
<1>2. Header \in Nat /\ Header >= 1 /\ Align \in Nat
  BY WireAssumption
<1>3. PadLength(fs[k]) \in 0 .. Align - 1 /\ Pad(fs[k]) = fs[k] + PadLength(fs[k])
  BY <1>1, PaddedLength
<1> QED
  BY <1>1, <1>2, <1>3 DEF Size

\* A frame more does not change the ones before it.
LEMMA SizeKept ==
  ASSUME NEW fs \in Seq(Payloads), NEW n \in Payloads, NEW k \in 1 .. Len(fs)
  PROVE  Size(Append(fs, n), k) = Size(fs, k)
<1>1. Append(fs, n)[k] = fs[k]
  OBVIOUS
<1> QED
  BY <1>1 DEF Size

----------------------------------------------------------------------------
(* Chains of bytes.                                                        *)

\* Two chains, the second from where the first ends, are one.
LEMMA ChainJoin ==
  ASSUME NEW fs, NEW s, NEW t, NEW b, NEW c, NEW e,
         \A k \in 1 .. Len(fs) : Size(fs, k) \in Nat, Len(fs) \in Nat,
         Chain(fs, s, b, c), Chain(fs, t, c, e)
  PROVE  Chain(fs, s \o t, b, e)
<1> DEFINE u == s \o t
<1>1. s \in Seq(Byte) /\ t \in Seq(Byte)
  BY DEF Chain
<1>2. /\ u \in Seq(Byte) /\ Len(u) = Len(s) + Len(t) /\ Len(s) \in Nat /\ Len(t) \in Nat
      /\ \A m \in 1 .. Len(s) : u[m] = s[m]
      /\ \A m \in 1 .. Len(t) : u[m + Len(s)] = t[m]
  BY <1>1
<1>3. \A m \in 1 .. Len(s) : At(u, e, m) = s[m] /\ s[m] = At(s, c, m)
  BY <1>2 DEF At
<1>4. \A m \in 1 .. Len(t) + 1 : At(u, e, m + Len(s)) = At(t, e, m)
  <2> TAKE m \in 1 .. Len(t) + 1
  <2> HIDE DEF u
  <2>1. CASE m \in 1 .. Len(t)
    BY <2>1, <1>2 DEF At
  <2>2. CASE m = Len(t) + 1
    BY <2>2, <1>2 DEF At
  <2>3. m \in 1 .. Len(t) \/ m = Len(t) + 1
    BY <1>2
  <2> QED
    BY <2>1, <2>2, <2>3
<1>5. At(t, e, 1) = c /\ At(s, c, 1) = b
  BY DEF Chain
<1>6. \A m \in 1 .. Len(s) + 1 : At(u, e, m) = At(s, c, m)
  <2> TAKE m \in 1 .. Len(s) + 1
  <2>1. CASE m \in 1 .. Len(s)
    BY <2>1, <1>3
  <2>2. CASE m = Len(s) + 1
    <3>1. At(u, e, 1 + Len(s)) = At(t, e, 1)
      BY <1>4, <1>2
    <3>2. At(s, c, m) = c
      BY <2>2, <1>2 DEF At
    <3>3. 1 + Len(s) = m
      BY <2>2, <1>2
    <3> QED
      BY <3>1, <3>2, <3>3, <1>5
  <2>3. m \in 1 .. Len(s) \/ m = Len(s) + 1
    BY <1>2
  <2> QED
    BY <2>1, <2>2, <2>3
<1> HIDE DEF u
<1>7. At(u, e, 1) = b
  BY <1>6, <1>5, <1>2
<1>8. \A m \in 1 .. Len(s) : s[m] \in Byte /\ s[m][1] \in 1 .. Len(fs) /\ s[m][2] \in 1 .. Size(fs, s[m][1])
  BY <1>1 DEF Chain
<1>9. \A m \in 1 .. Len(t) : t[m] \in Byte /\ t[m][1] \in 1 .. Len(fs) /\ t[m][2] \in 1 .. Size(fs, t[m][1])
  BY <1>1 DEF Chain
<1>10. \A m \in 1 .. Len(u) : \/ m \in 1 .. Len(s) /\ u[m] = s[m]
                              \/ m - Len(s) \in 1 .. Len(t) /\ u[m] = t[m - Len(s)]
  <2> TAKE m \in 1 .. Len(u)
  <2>1. CASE m <= Len(s)
    BY <2>1, <1>2
  <2>2. CASE m > Len(s)
    <3>1. m - Len(s) \in 1 .. Len(t) /\ (m - Len(s)) + Len(s) = m
      BY <2>2, <1>2
    <3> QED
      BY <3>1, <1>2
  <2> QED
    BY <1>2, <2>1, <2>2
<1>11. \A m \in 1 .. Len(u) : u[m][1] \in 1 .. Len(fs) /\ u[m][2] \in 1 .. Size(fs, u[m][1])
  BY <1>8, <1>9, <1>10
<1>12. ASSUME NEW m \in 1 .. Len(u), NEW d \in 0 .. Len(u) + 1 - m,
              u[m][2] + d <= Size(fs, u[m][1]) + 1
       PROVE  At(u, e, m + d) = Pos(fs, u[m][1], u[m][2] + d)
  <2>1. CASE m \in 1 .. Len(s) /\ m + d <= Len(s) + 1
    <3>1. u[m] = s[m] /\ d \in 0 .. Len(s) + 1 - m /\ m + d \in 1 .. Len(s) + 1
      BY <2>1, <1>2
    <3>2. At(s, c, m + d) = Pos(fs, s[m][1], s[m][2] + d)
      BY <3>1, <2>1, <1>12 DEF Chain
    <3> QED
      BY <3>1, <3>2, <1>6
  <2>2. CASE m \in 1 .. Len(s) /\ m + d > Len(s) + 1
    <3> DEFINE d0 == Len(s) + 1 - m
               d1 == d - d0
               k == s[m][1]
               j == s[m][2]
    <3>1. u[m] = s[m] /\ k \in 1 .. Len(fs) /\ j \in 1 .. Size(fs, k) /\ Size(fs, k) \in Nat
      BY <2>2, <1>2, <1>8
    <3>2. /\ d0 \in 0 .. Len(s) + 1 - m /\ d0 \in Nat /\ m + d0 = Len(s) + 1
          /\ d1 \in 0 .. Len(t) /\ d1 >= 1 /\ d = d0 + d1 /\ d1 \in Nat
      <4> HIDE DEF u
      <4>1. d \in Int /\ d <= Len(u) + 1 - m /\ Len(u) = Len(s) + Len(t) /\ m \in Int /\ m <= Len(s)
        BY <2>2, <1>2
      <4> QED
        BY <4>1, <2>2, <1>2
    <3>3. j + d <= Size(fs, k) + 1
      BY <3>1, <1>12
    <3> HIDE DEF d0, d1, k, j
    <3>4. j + d0 <= Size(fs, k) /\ j + d0 \in Nat
      BY <3>1, <3>2, <3>3
    <3>5. At(s, c, m + d0) = Pos(fs, k, j + d0)
      <4>1. s[m][2] + d0 <= Size(fs, s[m][1]) + 1
        BY <3>1, <3>4 DEF k, j
      <4> QED
        BY <4>1, <2>2, <3>2 DEF Chain, k, j
    <3>6. c = <<k, j + d0>>
      <4>1. At(s, c, m + d0) = c
        BY <3>2, <1>2 DEF At
      <4>2. Pos(fs, k, j + d0) = <<k, j + d0>>
        BY <3>4 DEF Pos
      <4> QED
        BY <4>1, <4>2, <3>5
    <3>7. 1 \in 1 .. Len(t) /\ t[1] = c
      BY <3>2, <1>2, <1>5 DEF At
    <3>8. t[1][1] = k /\ t[1][2] = j + d0
      BY <3>6, <3>7
    <3>9. d1 \in 0 .. Len(t) + 1 - 1 /\ t[1][2] + d1 <= Size(fs, t[1][1]) + 1
      BY <3>2, <3>3, <3>8, <3>1, <1>2
    <3>10. At(t, e, 1 + d1) = Pos(fs, k, t[1][2] + d1)
      BY <3>7, <3>8, <3>9 DEF Chain
    <3>11. t[1][2] + d1 = j + d
      BY <3>1, <3>2, <3>8
    <3>12. At(u, e, (1 + d1) + Len(s)) = At(t, e, 1 + d1)
      BY <1>4, <1>2, <3>2
    <3>13. (1 + d1) + Len(s) = m + d
      <4>1. m \in Int /\ Len(s) \in Int /\ d0 \in Int /\ d1 \in Int
        BY <2>2, <3>2, <1>2
      <4>2. m + d0 = Len(s) + 1 /\ d = d0 + d1
        BY <3>2
      <4> QED
        BY <4>1, <4>2
    <3> QED
      BY <3>1, <3>10, <3>11, <3>12, <3>13 DEF k, j
  <2>3. CASE m - Len(s) \in 1 .. Len(t) /\ u[m] = t[m - Len(s)]
    <3> DEFINE i == m - Len(s)
    <3>0. i \in 1 .. Len(t) /\ u[m] = t[i]
      BY <2>3
    <3>1. /\ i \in 1 .. Len(t) /\ u[m] = t[i]
          /\ d \in 0 .. Len(t) + 1 - i /\ i + d \in 1 .. Len(t) + 1 /\ (i + d) + Len(s) = m + d
      <4> DEFINE a == Len(s)  n == Len(t)
      <4>1. a \in Nat /\ n \in Nat /\ Len(u) = a + n /\ i = m - a /\ i \in 1 .. n
        BY <1>2, <3>0
      <4>2. m \in 1 .. a + n /\ d \in 0 .. (a + n) + 1 - m
        BY <4>1
      <4> HIDE DEF a, n, i
      <4>3. d \in 0 .. n + 1 - i /\ i + d \in 1 .. n + 1 /\ (i + d) + a = m + d
        BY <4>1, <4>2
      <4> QED
        BY <3>0, <4>3 DEF a, n
    <3> HIDE DEF i
    <3>2. At(t, e, i + d) = Pos(fs, t[i][1], t[i][2] + d)
      BY <3>1, <1>12 DEF Chain
    <3> QED
      BY <3>1, <3>2, <1>4
  <2> QED
    BY <2>1, <2>2, <2>3, <1>10, <1>2
<1> QED
  BY <1>2, <1>7, <1>11, <1>12 DEF Chain, u

\* What is left of a chain when its first bytes are taken.
LEMMA ChainDrop ==
  ASSUME NEW fs, NEW s, NEW b, NEW e, Chain(fs, s, b, e), NEW n \in 0 .. Len(s)
  PROVE  Chain(fs, SubSeq(s, n + 1, Len(s)), At(s, e, n + 1), e)
<1> DEFINE t == SubSeq(s, n + 1, Len(s))
<1>1. s \in Seq(Byte) /\ Len(s) \in Nat
  BY DEF Chain
<1>2. t \in Seq(Byte) /\ Len(t) = Len(s) - n /\ \A m \in 1 .. Len(t) : t[m] = s[n + m]
  BY <1>1, SubSeqProperties
<1> HIDE DEF t
<1>3. \A m \in 1 .. Len(t) + 1 : At(t, e, m) = At(s, e, n + m)
  <2> TAKE m \in 1 .. Len(t) + 1
  <2>1. CASE m \in 1 .. Len(t)
    BY <2>1, <1>1, <1>2 DEF At
  <2>2. CASE m = Len(t) + 1
    BY <2>2, <1>1, <1>2 DEF At
  <2>3. Len(t) \in Nat
    BY <1>2, LenProperties
  <2>4. m \in 1 .. Len(t) \/ m = Len(t) + 1
    BY <2>3
  <2> QED
    BY <2>1, <2>2, <2>4
<1>4. At(t, e, 1) = At(s, e, n + 1)
  BY <1>1, <1>2, <1>3
<1>5. \A m \in 1 .. Len(t) : n + m \in 1 .. Len(s)
  BY <1>1, <1>2
<1>6. \A m \in 1 .. Len(t) : t[m][1] \in 1 .. Len(fs) /\ t[m][2] \in 1 .. Size(fs, t[m][1])
  BY <1>2, <1>5 DEF Chain
<1>7. ASSUME NEW m \in 1 .. Len(t), NEW d \in 0 .. Len(t) + 1 - m,
             t[m][2] + d <= Size(fs, t[m][1]) + 1
      PROVE  At(t, e, m + d) = Pos(fs, t[m][1], t[m][2] + d)
  <2>1. d \in 0 .. Len(s) + 1 - (n + m) /\ m + d \in 1 .. Len(t) + 1 /\ (n + m) + d = n + (m + d)
    BY <1>1, <1>2
  <2>2. At(s, e, (n + m) + d) = Pos(fs, s[n + m][1], s[n + m][2] + d)
    BY <2>1, <1>5, <1>2, <1>7 DEF Chain
  <2> QED
    BY <2>1, <2>2, <1>2, <1>3
<1> QED
  BY <1>2, <1>4, <1>6, <1>7 DEF Chain, t

\* A frame more does not break a chain.
LEMMA ChainGrows ==
  ASSUME NEW fs \in Seq(Payloads), NEW n \in Payloads, NEW s, NEW b, NEW e, Chain(fs, s, b, e)
  PROVE  Chain(Append(fs, n), s, b, e)
<1> DEFINE gs == Append(fs, n)
<1>1. Len(gs) = Len(fs) + 1 /\ Len(fs) \in Nat
  OBVIOUS
<1>2. \A k \in 1 .. Len(fs) : Size(gs, k) = Size(fs, k)
  BY SizeKept
<1> HIDE DEF gs
<1>3. \A m \in 1 .. Len(s) : s[m][1] \in 1 .. Len(fs) /\ s[m][2] \in 1 .. Size(fs, s[m][1])
  BY DEF Chain
<1>4. \A m \in 1 .. Len(s) : /\ s[m][1] \in 1 .. Len(gs)
                             /\ Size(gs, s[m][1]) = Size(fs, s[m][1])
  BY <1>1, <1>2, <1>3
<1>5. \A m \in 1 .. Len(s) : \A d : Pos(gs, s[m][1], s[m][2] + d) = Pos(fs, s[m][1], s[m][2] + d)
  BY <1>4 DEF Pos
<1> QED
  BY <1>3, <1>4, <1>5 DEF Chain, gs

\* Bytes of one frame, in order, are a chain.
LEMMA BytesChain ==
  ASSUME NEW fs \in Seq(Payloads), NEW k \in 1 .. Len(fs),
         NEW a \in Nat, NEW z \in Nat, 1 <= a, a <= z + 1, z <= Size(fs, k)
  PROVE  /\ Chain(fs, Bytes(k, a, z), Pos(fs, k, a), Pos(fs, k, z + 1))
         /\ Bytes(k, a, z) \in Seq(Byte) /\ Len(Bytes(k, a, z)) = z - a + 1
<1> DEFINE s == Bytes(k, a, z)
           e == Pos(fs, k, z + 1)
           l == z - a + 1
<1>1. l \in Nat /\ Size(fs, k) \in Nat /\ k \in Nat /\ Len(fs) \in Nat
  BY SizeFacts
<1>2. s \in Seq(Byte) /\ Len(s) = l /\ \A m \in 1 .. l : s[m] = <<k, a + m - 1>>
  <2>1. s = [m \in 1 .. l |-> <<k, a + m - 1>>]
    BY DEF Bytes
  <2>2. \A m \in 1 .. l : <<k, a + m - 1>> \in Byte
    BY <1>1 DEF Byte
  <2> HIDE DEF s, l
  <2>3. s \in [1 .. l -> Byte] /\ \A m \in 1 .. l : s[m] = <<k, a + m - 1>>
    BY <2>1, <2>2, Zenon
  <2> QED
    BY <2>3, <1>1, LenProperties, SMT
<1>3. l + a = z + 1
  OBVIOUS
<1> HIDE DEF s, l
<1>4. \A m \in 1 .. l : s[m][1] = k /\ s[m][2] = a + m - 1
  BY <1>2
<1>5. \A m \in 1 .. l : s[m][1] \in 1 .. Len(fs) /\ s[m][2] \in 1 .. Size(fs, s[m][1])
  BY <1>1, <1>3, <1>4
<1>6. \A m \in 1 .. l + 1 : At(s, e, m) = Pos(fs, k, a + m - 1)
  <2> TAKE m \in 1 .. l + 1
  <2>1. CASE m \in 1 .. l
    <3>1. At(s, e, m) = <<k, a + m - 1>>
      BY <2>1, <1>2 DEF At
    <3>2. a + m - 1 <= Size(fs, k)
      BY <2>1, <1>1, <1>3
    <3> QED
      BY <3>1, <3>2 DEF Pos
  <2>2. CASE m = l + 1
    <3>1. At(s, e, m) = e
      BY <2>2, <1>1, <1>2 DEF At
    <3>2. a + m - 1 = z + 1
      BY <2>2, <1>1, <1>3
    <3> QED
      BY <3>1, <3>2
  <2>3. m \in 1 .. l \/ m = l + 1
    BY <1>1
  <2> QED
    BY <2>1, <2>2, <2>3
<1>7. At(s, e, 1) = Pos(fs, k, a)
  <2>1. 1 \in 1 .. l + 1 /\ a + 1 - 1 = a
    BY <1>1
  <2> QED
    BY <2>1, <1>6
<1> HIDE DEF e
<1>8. ASSUME NEW m \in 1 .. l, NEW d \in 0 .. l + 1 - m
      PROVE  At(s, e, m + d) = Pos(fs, s[m][1], s[m][2] + d)
  <2>1. m + d \in 1 .. l + 1 /\ a + (m + d) - 1 = (a + m - 1) + d
    BY <1>1
  <2> QED
    BY <2>1, <1>4, <1>6
<1>9. Chain(fs, s, Pos(fs, k, a), e)
  BY <1>2, <1>5, <1>7, <1>8 DEF Chain
<1> QED
  BY <1>2, <1>9 DEF s, e, l

\* Nothing is a chain from where it starts.
LEMMA EmptyChain ==
  ASSUME NEW fs, NEW b
  PROVE  Chain(fs, <<>>, b, b)
<1>1. <<>> \in Seq(Byte) /\ Len(<<>>) = 0
  OBVIOUS
<1> QED
  BY <1>1 DEF Chain, At

\* The first byte of a chain that starts with a frame names that frame.
LEMMA ChainHead ==
  ASSUME NEW fs \in Seq(Payloads), NEW s, NEW k, NEW e, Chain(fs, s, <<k, 1>>, e), s # <<>>
  PROVE  s[1] = <<k, 1>> /\ s[1][1] = k /\ k \in 1 .. Len(fs) /\ 1 \in 1 .. Len(s)
<1>1. s \in Seq(Byte) /\ Len(s) \in Nat /\ 1 \in 1 .. Len(s)
  BY EmptySeq DEF Chain
<1>2. s[1] = <<k, 1>>
  BY <1>1 DEF Chain, At
<1> QED
  BY <1>1, <1>2 DEF Chain

\* A chain that starts with a frame and is long enough begins with all of it, and
\* goes on with the next.
LEMMA FrameInFront ==
  ASSUME NEW fs \in Seq(Payloads), NEW s, NEW k, NEW e, Chain(fs, s, <<k, 1>>, e), s # <<>>,
         Len(s) >= Size(fs, k)
  PROVE  SubSeq(s, 1, Size(fs, k)) = Bytes(k, 1, Size(fs, k))
         /\ At(s, e, Size(fs, k) + 1) = <<k + 1, 1>>
<1> DEFINE z == Size(fs, k)
<1>1. s[1] = <<k, 1>> /\ k \in 1 .. Len(fs) /\ 1 \in 1 .. Len(s)
  BY ChainHead
<1>2. z \in Nat /\ z >= 1
  BY <1>1, SizeFacts
<1>3. s \in Seq(Byte) /\ Len(s) \in Nat
  BY DEF Chain
<1>4. s[1][1] = k /\ s[1][2] = 1
  BY <1>1
<1>5. Len(s) >= z
  OBVIOUS
<1>6. \A d \in 0 .. z : At(s, e, 1 + d) = Pos(fs, k, 1 + d)
  <2> TAKE d \in 0 .. z
  <2> HIDE DEF z
  <2>1. d \in 0 .. Len(s) + 1 - 1 /\ s[1][2] + d <= z + 1
    BY <1>2, <1>3, <1>4, <1>5
  <2>2. s[1][2] + d <= Size(fs, s[1][1]) + 1
    BY <2>1, <1>4 DEF z
  <2>3. At(s, e, 1 + d) = Pos(fs, s[1][1], s[1][2] + d)
    BY <2>1, <2>2, <1>1 DEF Chain
  <2> QED
    BY <2>3, <1>4
<1>7. At(s, e, z + 1) = <<k + 1, 1>>
  <2>1. At(s, e, 1 + z) = Pos(fs, k, 1 + z)
    <3> HIDE DEF z
    <3> QED
      BY <1>2, <1>6
  <2>2. Pos(fs, k, 1 + z) = <<k + 1, 1>>
    BY <1>2 DEF Pos
  <2>3. 1 + z = z + 1
    BY <1>2
  <2> QED
    BY <2>1, <2>2, <2>3
<1>8. \A m \in 1 .. z : s[m] = <<k, m>>
  <2> TAKE m \in 1 .. z
  <2>1. m - 1 \in 0 .. z /\ 1 + (m - 1) = m /\ m \in 1 .. Len(s) /\ m <= z
    <3> HIDE DEF z
    <3> QED
      BY <1>2, <1>3, <1>5
  <2>2. At(s, e, m) = Pos(fs, k, m)
    <3> HIDE DEF z
    <3> QED
      BY <1>6, <2>1
  <2> QED
    BY <2>1, <2>2 DEF At, Pos
<1>9. Bytes(k, 1, z) = [m \in 1 .. z |-> <<k, m>>]
  <2>1. z - 1 + 1 = z /\ \A m \in 1 .. z : 1 + m - 1 = m
    <3> HIDE DEF z
    <3> QED
      BY <1>2
  <2> QED
    BY <2>1 DEF Bytes
<1> HIDE DEF z
<1>10. SubSeq(s, 1, z) = [m \in 1 .. z |-> <<k, m>>]
  <2>1. SubSeq(s, 1, z) = [m \in 1 .. z |-> s[m]]
    BY <1>2, <1>3, <1>5
  <2> QED
    BY <2>1, <1>8
<1> QED
  BY <1>7, <1>9, <1>10 DEF z

----------------------------------------------------------------------------
(* What queue_string adds.                                                 *)

\* Each string goes on where the one before it ends, the last up to the next frame.
LEMMA PartChain ==
  ASSUME NEW fs \in Seq(Payloads), fs # <<>>, NEW d \in 1 .. 3
  PROVE  Part(fs, d) \in Seq(Byte) /\ Chain(fs, Part(fs, d), Given(fs, d), Given(fs, d - 1))
<1> DEFINE n == Len(fs)
           p == fs[n]
           z == Size(fs, n)
<1>1. n \in 1 .. Len(fs) /\ n \in Nat /\ n # 0
  BY EmptySeq, LenProperties
<1>2. /\ p \in Nat /\ PadLength(p) \in Nat /\ Header \in Nat /\ Header >= 1
      /\ z \in Nat /\ z = Header + p + PadLength(p)
  BY <1>1, SizeFacts DEF Size
<1>3. /\ Given(fs, 3) = Pos(fs, n, 1) /\ Given(fs, 2) = Pos(fs, n, Header + 1)
      /\ Given(fs, 1) = Pos(fs, n, Header + p + 1) /\ Given(fs, 0) = Pos(fs, n, z + 1)
  BY <1>1 DEF Given
<1>4. /\ Part(fs, 3) = Bytes(n, 1, Header) /\ Part(fs, 2) = Bytes(n, Header + 1, Header + p)
      /\ Part(fs, 1) = Bytes(n, Header + p + 1, z)
  BY <1>2 DEF Part
<1> HIDE DEF n, p, z
<1>5. CASE d = 3
  <2>1. /\ Chain(fs, Bytes(n, 1, Header), Pos(fs, n, 1), Pos(fs, n, Header + 1))
        /\ Bytes(n, 1, Header) \in Seq(Byte)
    <3>1. 1 \in Nat /\ 1 <= 1 /\ 1 <= Header + 1 /\ Header <= Size(fs, n) /\ Header \in Nat
      BY <1>2 DEF z
    <3> QED
      BY <3>1, <1>1, BytesChain
  <2>2. d - 1 = 2
    BY <1>5
  <2> QED
    BY <2>1, <2>2, <1>3, <1>4, <1>5
<1>6. CASE d = 2
  <2>1. /\ Chain(fs, Bytes(n, Header + 1, Header + p), Pos(fs, n, Header + 1), Pos(fs, n, Header + p + 1))
        /\ Bytes(n, Header + 1, Header + p) \in Seq(Byte)
    <3>1. /\ Header + 1 \in Nat /\ 1 <= Header + 1 /\ Header + 1 <= Header + p + 1
          /\ Header + p <= Size(fs, n) /\ Header + p \in Nat
      BY <1>2 DEF z
    <3> QED
      BY <3>1, <1>1, BytesChain
  <2>2. d - 1 = 1
    BY <1>6
  <2> QED
    BY <2>1, <2>2, <1>3, <1>4, <1>6
<1>7. CASE d = 1
  <2>1. /\ Chain(fs, Bytes(n, Header + p + 1, z), Pos(fs, n, Header + p + 1), Pos(fs, n, z + 1))
        /\ Bytes(n, Header + p + 1, z) \in Seq(Byte)
    <3>1. /\ Header + p + 1 \in Nat /\ 1 <= Header + p + 1 /\ Header + p + 1 <= z + 1
          /\ z <= Size(fs, n) /\ z \in Nat
      BY <1>2 DEF z
    <3> QED
      BY <3>1, <1>1, BytesChain
  <2>2. d - 1 = 0
    BY <1>7
  <2> QED
    BY <2>1, <2>2, <1>3, <1>4, <1>7
<1> QED
  BY <1>5, <1>6, <1>7

\* Taking the first string leaves the ones after it.
LEMMA NextString ==
  ASSUME NEW fs, NEW d \in 1 .. 3, NEW t, t = Strings(fs, d)
  PROVE  t # <<>> /\ Len(t) = d /\ Head(t) = Part(fs, d) /\ Tail(t) = Strings(fs, d - 1)
         /\ Len(Tail(t)) = d - 1
<1>1. t = [i \in 1 .. d |-> Part(fs, d + 1 - i)]
  BY DEF Strings
<1>2. CASE d = 3
  <2>1. t = <<Part(fs, 3), Part(fs, 2), Part(fs, 1)>>
    BY <1>1, <1>2
  <2>2. Strings(fs, 2) = <<Part(fs, 2), Part(fs, 1)>>
    BY DEF Strings
  <2> QED
    BY <2>1, <2>2, <1>2
<1>3. CASE d = 2
  <2>1. t = <<Part(fs, 2), Part(fs, 1)>>
    BY <1>1, <1>3
  <2>2. Strings(fs, 1) = <<Part(fs, 1)>>
    BY DEF Strings
  <2> QED
    BY <2>1, <2>2, <1>3
<1>4. CASE d = 1
  <2>1. t = <<Part(fs, 1)>>
    BY <1>1, <1>4
  <2>2. Strings(fs, 0) = <<>>
    BY DEF Strings
  <2> QED
    BY <2>1, <2>2, <1>4
<1> QED
  BY <1>2, <1>3, <1>4

\* The strings of a frame that is queued.
LEMMA FirstStrings ==
  ASSUME NEW fs \in Seq(Payloads), NEW n \in Payloads
  PROVE  LET k  == Len(fs) + 1
             gs == Append(fs, n)
         IN  << Bytes(k, 1, Header), Bytes(k, Header + 1, Header + n),
                Bytes(k, Header + n + 1, Header + n + PadLength(n)) >> = Strings(gs, 3)
<1> DEFINE gs == Append(fs, n)
<1>1. Len(gs) = Len(fs) + 1 /\ gs[Len(fs) + 1] = n
  BY AppendProperties
<1> HIDE DEF gs
<1>2. /\ Part(gs, 3) = Bytes(Len(fs) + 1, 1, Header)
      /\ Part(gs, 2) = Bytes(Len(fs) + 1, Header + 1, Header + n)
      /\ Part(gs, 1) = Bytes(Len(fs) + 1, Header + n + 1, Header + n + PadLength(n))
  BY <1>1 DEF Part
<1>3. Strings(gs, 3) = <<Part(gs, 3), Part(gs, 2), Part(gs, 1)>>
  BY DEF Strings
<1> QED
  BY <1>2, <1>3 DEF gs

\* The end of the frames there are.
LEMMA EndOfFrames ==
  ASSUME NEW fs \in Seq(Payloads)
  PROVE  Given(fs, 0) = <<Len(fs) + 1, 1>>
<1> DEFINE l == Len(fs)
<1>1. l \in Nat
  BY LenProperties
<1> HIDE DEF l
<1>2. CASE l = 0
  BY <1>2 DEF Given, l
<1>3. CASE l # 0
  <2>1. l \in 1 .. Len(fs)
    BY <1>3, <1>1 DEF l
  <2>2. Size(fs, l) \in Nat
    BY <2>1, SizeFacts
  <2>3. Given(fs, 0) = Pos(fs, l, Size(fs, l) + 1)
    BY <1>3 DEF Given, l
  <2>4. Given(fs, 0) = <<l + 1, 1>>
    BY <2>2, <2>3 DEF Pos
  <2> QED
    BY <2>4 DEF l
<1> QED
  BY <1>2, <1>3

\* A frame that is queued starts where the ones before it end.
LEMMA NextFrame ==
  ASSUME NEW fs \in Seq(Payloads), NEW n \in Payloads
  PROVE  Given(Append(fs, n), 3) = Given(fs, 0)
<1> DEFINE gs == Append(fs, n)
           l == Len(fs)
<1>1. Len(gs) = l + 1 /\ l \in Nat /\ gs \in Seq(Payloads)
  BY AppendProperties, LenProperties
<1> HIDE DEF gs, l
<1>2. Given(gs, 3) = <<l + 1, 1>>
  <2>1. l + 1 \in 1 .. Len(gs) /\ l + 1 # 0
    BY <1>1
  <2>2. 1 <= Size(gs, l + 1)
    BY <2>1, <1>1, SizeFacts
  <2>3. Given(gs, 3) = Pos(gs, l + 1, 1)
    BY <2>1, <1>1 DEF Given
  <2> QED
    BY <2>2, <2>3 DEF Pos
<1>3. Given(fs, 0) = <<l + 1, 1>>
  BY EndOfFrames DEF l
<1> QED
  BY <1>2, <1>3 DEF gs

----------------------------------------------------------------------------
(* Cutting sequences.                                                      *)

\* The two parts of a sequence that is cut make it up again.
LEMMA Cut ==
  ASSUME NEW S, NEW s \in Seq(S), NEW n \in 0 .. Len(s)
  PROVE  /\ SubSeq(s, 1, n) \in Seq(S) /\ SubSeq(s, n + 1, Len(s)) \in Seq(S)
         /\ SubSeq(s, 1, n) \o SubSeq(s, n + 1, Len(s)) = s
<1>1. Len(s) \in Nat /\ \A i \in 1 .. Len(s) : s[i] \in S
  BY LenProperties, ElementOfSeq
<1>2. SubSeq(s, 1, n) \in Seq(S)
  <2>1. n \in Int /\ 1 \in Int /\ \A i \in 1 .. n : s[i] \in S
    BY <1>1
  <2> QED
    BY <2>1, SubSeqProperties
<1>3. SubSeq(s, n + 1, Len(s)) \in Seq(S)
  <2>1. n + 1 \in Int /\ Len(s) \in Int /\ \A i \in n + 1 .. Len(s) : s[i] \in S
    BY <1>1
  <2> QED
    BY <2>1, SubSeqProperties
<1>4. SubSeq(s, 1, n) \o SubSeq(s, n + 1, Len(s)) = SubSeq(s, 1, Len(s))
  <2>1. 1 \in 1 .. Len(s) + 1 /\ n \in 1 - 1 .. Len(s) /\ Len(s) \in n .. Len(s)
    BY <1>1
  <2> QED
    BY <2>1, ConcatAdjacentSubSeq
<1>5. SubSeq(s, 1, Len(s)) = s
  BY SubSeqFull
<1> QED
  BY <1>2, <1>3, <1>4, <1>5

\* What moves from the front of one sequence to the end of the one before it stays
\* where it is in the two together.
LEMMA Moved ==
  ASSUME NEW S, NEW s \in Seq(S), NEW t \in Seq(S)
  PROVE  \A n \in 0 .. Len(t) :
         /\ s \o SubSeq(t, 1, n) \in Seq(S) /\ SubSeq(t, n + 1, Len(t)) \in Seq(S)
         /\ (s \o SubSeq(t, 1, n)) \o SubSeq(t, n + 1, Len(t)) = s \o t
<1>0. \A x, y, z \in Seq(S) : (x \o y) \o z = x \o (y \o z)
  BY ConcatAssociative, SMTT(30)
<1> TAKE n \in 0 .. Len(t)
<1> DEFINE a == SubSeq(t, 1, n)
           b == SubSeq(t, n + 1, Len(t))
<1>1. a \in Seq(S) /\ b \in Seq(S) /\ a \o b = t
  BY Cut
<1> HIDE DEF a, b
<1>2. (s \o a) \o b = s \o (a \o b)
  BY <1>1, <1>0, ZenonT(30)
<1>3. s \o a \in Seq(S)
  BY <1>1, ConcatProperties, Zenon
<1> QED
  BY <1>1, <1>2, <1>3 DEF a, b

\* The front of the first of two sequences is the front of both.
LEMMA FrontOf ==
  ASSUME NEW S, NEW s \in Seq(S), NEW t \in Seq(S)
  PROVE  \A n \in 1 .. Len(s) :
         /\ SubSeq(s \o t, 1, n) = SubSeq(s, 1, n)
         /\ SubSeq(s \o t, n + 1, Len(s \o t)) = SubSeq(s, n + 1, Len(s)) \o t
<1>a. \A x, y \in Seq(S) : (x \o y) \o t = x \o (y \o t)
  BY ConcatAssociative, SMTT(30)
<1> TAKE n \in 1 .. Len(s)
<1> DEFINE a == SubSeq(s, 1, n)
           b == SubSeq(s, n + 1, Len(s))
           both == s \o t
           c == SubSeq(both, 1, n)
           d == SubSeq(both, n + 1, Len(both))
<1>0. Len(s) \in Nat /\ Len(t) \in Nat /\ both \in Seq(S) /\ Len(both) = Len(s) + Len(t)
  BY LenProperties, ConcatProperties
<1>1. a \in Seq(S) /\ b \in Seq(S) /\ a \o b = s
  <2>1. n \in 0 .. Len(s)
    BY <1>0
  <2> QED
    BY <2>1, Cut
<1>2. c = a
  <2>1. 1 \in 1 .. Len(s)
    BY <1>0
  <2> QED
    BY <2>1, SubSeqOfConcat1
<1>3. c \in Seq(S) /\ d \in Seq(S) /\ c \o d = both
  <2>1. n \in 0 .. Len(both)
    <3> HIDE DEF both
    <3> QED
      BY <1>0
  <2> QED
    BY <2>1, <1>0, Cut
<1>4. a \o (b \o t) = both /\ b \o t \in Seq(S)
  <2> HIDE DEF a, b
  <2>1. (a \o b) \o t = a \o (b \o t)
    <3>1. a \in Seq(S) /\ b \in Seq(S)
      BY <1>1
    <3> QED
      BY <3>1, <1>a, Zenon
  <2>2. b \o t \in Seq(S)
    BY <1>1, ConcatProperties, Zenon
  <2> QED
    BY <2>1, <2>2, <1>1
<1>5. a \o (b \o t) = a \o d
  BY <1>2, <1>3, <1>4
<1> HIDE DEF a, b, c, d, both
<1>6. b \o t = d
  BY <1>1, <1>3, <1>4, <1>5, ConcatSimplifications
<1> QED
  BY <1>2, <1>6 DEF a, b, c, d, both

----------------------------------------------------------------------------
(* The invariant.                                                          *)

\* A string to be added, if there is one: which, and what is left after it.
LEMMA Adds ==
  ASSUME TypeInv, SendInv, todo # <<>>
  PROVE  LET d == Len(todo) IN
         /\ d \in 1 .. 3
         /\ Head(todo) = Part(frames, d) /\ Head(todo) \in Seq(Byte)
         /\ Tail(todo) = Strings(frames, d - 1) /\ Len(Tail(todo)) = d - 1
         /\ frames # <<>>
         /\ Chain(frames, Head(todo), Given(frames, d), Given(frames, d - 1))
<1> DEFINE d == Len(todo)
<1>1. d \in 0 .. 3 /\ todo = Strings(frames, d) /\ frames # <<>> /\ frames \in Seq(Payloads)
  BY DEF SendInv, TypeInv
<1> HIDE DEF d
<1>2. d # 0
  <2>1. Strings(frames, 0) = <<>>
    BY DEF Strings
  <2> QED
    BY <2>1, <1>1
<1>3. d \in 1 .. 3
  BY <1>1, <1>2
<1>4. Head(todo) = Part(frames, d) /\ Tail(todo) = Strings(frames, d - 1) /\ Len(Tail(todo)) = d - 1
  BY <1>1, <1>3, NextString
<1>5. Part(frames, d) \in Seq(Byte) /\ Chain(frames, Part(frames, d), Given(frames, d), Given(frames, d - 1))
  BY <1>1, <1>3, PartChain
<1> QED
  BY <1>1, <1>3, <1>4, <1>5 DEF d

\* The frame in front of the receiver's buffer is the one after those handled, and
\* the receiver knows its size.
LEMMA InFront ==
  ASSUME TypeInv, FlowInv, status = "running", input # <<>>
  PROVE  LET k == Len(handled) + 1 IN
         /\ k \in 1 .. Len(frames) /\ input[1] = <<k, 1>> /\ input[1][1] = k
         /\ FrameSize = Size(frames, k)
         /\ Size(frames, k) \in Nat /\ Size(frames, k) >= Header /\ Header >= 1 /\ Header \in Nat
         /\ Len(input) \in Nat /\ Len(input) >= 1
         /\ pipe \o Pending \in Seq(Byte) /\ Flow = input \o (pipe \o Pending) /\ Flow # <<>>
         /\ Len(Flow) \in Nat /\ Len(Flow) >= Len(input)
<1> DEFINE k == Len(handled) + 1
           e == Given(frames, ToGive)
           rest == pipe \o Pending
<1>1. /\ frames \in Seq(Payloads) /\ input \in Seq(Byte) /\ pipe \in Seq(Byte) /\ Pending \in Seq(Byte)
      /\ handled \in Seq(Seq(Byte))
  BY DEF TypeInv, Pending
<1>2. rest \in Seq(Byte) /\ Flow = input \o rest
  BY <1>1, ConcatAssociative, ConcatProperties DEF Flow
<1> HIDE DEF rest
<1>3. /\ Len(input) \in Nat /\ Len(input) >= 1 /\ Len(rest) \in Nat
      /\ Len(Flow) = Len(input) + Len(rest) /\ Flow[1] = input[1] /\ Flow \in Seq(Byte)
  BY <1>1, <1>2, LenProperties, EmptySeq, ConcatProperties
<1>4. Flow # <<>>
  BY <1>3
<1>5. Chain(frames, Flow, <<k, 1>>, e)
  BY DEF FlowInv
<1> HIDE DEF e, k
<1>6. Flow[1] = <<k, 1>> /\ k \in 1 .. Len(frames)
  BY <1>1, <1>4, <1>5, ChainHead
<1>7. input[1] = <<k, 1>> /\ input[1][1] = k
  BY <1>3, <1>6
<1>8. /\ Size(frames, k) \in Nat /\ Size(frames, k) >= Header /\ Header >= 1 /\ Header \in Nat
      /\ Size(frames, k) = Header + Pad(frames[k])
  BY <1>1, <1>6, SizeFacts
<1>9. FrameSize = Size(frames, k)
  BY <1>7, <1>8 DEF FrameSize
<1> QED
  BY <1>1, <1>2, <1>3, <1>4, <1>6, <1>7, <1>8, <1>9 DEF k, rest

\* A frame that is complete in the receiver's buffer is the next one, and what is
\* under way after it goes on with the one after that.
LEMMA WholeFrame ==
  ASSUME TypeInv, FlowInv, status = "running", Complete
  PROVE  LET k == Len(handled) + 1 IN
         /\ k \in 1 .. Len(frames)
         /\ FrameSize = Size(frames, k) /\ FrameSize \in 1 .. Len(input)
         /\ SubSeq(input, 1, FrameSize) = Bytes(k, 1, Size(frames, k))
         /\ SubSeq(input, 1, FrameSize) \in Seq(Byte)
         /\ SubSeq(input, FrameSize + 1, Len(input)) \in Seq(Byte)
         /\ Chain(frames, (SubSeq(input, FrameSize + 1, Len(input)) \o pipe) \o Pending,
                  <<k + 1, 1>>, Given(frames, ToGive))
<1> DEFINE k == Len(handled) + 1
           e == Given(frames, ToGive)
           z == Size(frames, k)
           rest == pipe \o Pending
<1>1. /\ frames \in Seq(Payloads) /\ input \in Seq(Byte) /\ pipe \in Seq(Byte) /\ Pending \in Seq(Byte)
  BY DEF TypeInv, Pending
<1>2. Len(input) >= Header /\ Len(input) >= FrameSize
  BY DEF Complete
<1>3. input # <<>>
  <2>1. Header >= 1 /\ Header \in Nat
    BY WireAssumption
  <2>2. Len(input) # 0
    BY <2>1, <1>1, <1>2, LenProperties
  <2> QED
    BY <2>2
<1>4. /\ k \in 1 .. Len(frames) /\ FrameSize = z
      /\ z \in Nat /\ z >= 1 /\ Len(input) \in Nat
      /\ rest \in Seq(Byte) /\ Flow = input \o rest /\ Flow # <<>>
      /\ Len(Flow) \in Nat /\ Len(Flow) >= Len(input)
  <2> HIDE DEF z, rest
  <2> QED
    BY <1>3, InFront, SMTT(30) DEF z, rest
<1>5. Chain(frames, Flow, <<k, 1>>, e)
  BY DEF FlowInv
<1> HIDE DEF k, e, rest
<1>6. z \in 1 .. Len(input) /\ Len(Flow) >= z /\ z \in 0 .. Len(Flow)
  <2> HIDE DEF z
  <2> QED
    BY <1>2, <1>4
<1>7. SubSeq(Flow, 1, z) = Bytes(k, 1, z) /\ At(Flow, e, z + 1) = <<k + 1, 1>>
  BY <1>1, <1>4, <1>5, <1>6, FrameInFront
<1>8. Chain(frames, SubSeq(Flow, z + 1, Len(Flow)), <<k + 1, 1>>, e)
  BY <1>5, <1>6, <1>7, ChainDrop
<1>9. /\ SubSeq(Flow, 1, z) = SubSeq(input, 1, z)
      /\ SubSeq(Flow, z + 1, Len(Flow)) = SubSeq(input, z + 1, Len(input)) \o rest
  BY <1>1, <1>4, <1>6, FrontOf
<1> DEFINE i == SubSeq(input, z + 1, Len(input))
<1>10. i \in Seq(Byte) /\ SubSeq(input, 1, z) \in Seq(Byte)
  <2>1. z \in 0 .. Len(input)
    <3> HIDE DEF z
    <3> QED
      BY <1>4, <1>6
  <2> QED
    BY <2>1, <1>1, Cut
<1> HIDE DEF i
<1>11. i \o rest = (i \o pipe) \o Pending
  <2>1. \A x, y, v \in Seq(Byte) : (x \o y) \o v = x \o (y \o v)
    BY ConcatAssociative
  <2> QED
    BY <1>1, <1>10, <2>1, ZenonT(30) DEF rest
<1> QED
  BY <1>4, <1>6, <1>7, <1>8, <1>9, <1>10, <1>11 DEF k, e, i

LEMMA Grouped ==
  \A x, y, z \in Seq(Byte) : (x \o y) \o z = x \o (y \o z)
  BY ConcatAssociative

\* What a round of write_all does to the bytes it writes.
LEMMA WriteSomeMoves ==
  ASSUME TypeInv, SendInv, WriteSome
  PROVE  /\ pipe' \in Seq(Byte) /\ writing' \in [bytes : Seq(Byte), from : {"none", "flush", "add"}]
         /\ writing.from # "none" /\ writing'.from = writing.from
         /\ pipe' \o writing'.bytes = pipe \o writing.bytes
         /\ status = "running"
         /\ UNCHANGED <<frames, todo, queue, failed, input, handled, status>>
<1>1. PICK n \in 1 .. Len(writing.bytes) :
        /\ status = "running"
        /\ pipe' = pipe \o SubSeq(writing.bytes, 1, n)
        /\ writing' = [writing EXCEPT !.bytes = SubSeq(@, n + 1, Len(@))]
        /\ UNCHANGED <<frames, todo, queue, failed, input, handled, status>>
  BY DEF WriteSome
<1>2. /\ pipe \in Seq(Byte) /\ writing \in [bytes : Seq(Byte), from : {"none", "flush", "add"}]
      /\ writing.bytes \in Seq(Byte)
  BY DEF TypeInv
<1>3. n \in 0 .. Len(writing.bytes) /\ Len(writing.bytes) # 0
  BY <1>2, LenProperties
<1>4. /\ pipe \o SubSeq(writing.bytes, 1, n) \in Seq(Byte)
      /\ SubSeq(writing.bytes, n + 1, Len(writing.bytes)) \in Seq(Byte)
      /\ (pipe \o SubSeq(writing.bytes, 1, n)) \o SubSeq(writing.bytes, n + 1, Len(writing.bytes))
           = pipe \o writing.bytes
  <2>1. \A k \in 0 .. Len(writing.bytes) :
          /\ pipe \o SubSeq(writing.bytes, 1, k) \in Seq(Byte) /\ SubSeq(writing.bytes, k + 1, Len(writing.bytes)) \in Seq(Byte)
          /\ (pipe \o SubSeq(writing.bytes, 1, k)) \o SubSeq(writing.bytes, k + 1, Len(writing.bytes)) = pipe \o writing.bytes
    BY <1>2, Moved, ZenonT(30)
  <2> QED
    BY <1>3, <2>1, Zenon
<1>5. /\ writing'.bytes = SubSeq(writing.bytes, n + 1, Len(writing.bytes))
      /\ writing'.from = writing.from
      /\ writing' = [writing EXCEPT !.bytes = SubSeq(writing.bytes, n + 1, Len(writing.bytes))]
  BY <1>1, <1>2
<1>6. writing.from # "none"
  <2>1. writing.bytes # <<>>
    BY <1>3
  <2> QED
    BY <2>1 DEF SendInv
<1>7. writing' \in [bytes : Seq(Byte), from : {"none", "flush", "add"}]
  BY <1>2, <1>4, <1>5
<1>8. pipe' \o writing'.bytes = pipe \o writing.bytes /\ pipe' \in Seq(Byte)
  BY <1>1, <1>4, <1>5, Zenon
<1> QED
  BY <1>1, <1>5, <1>6, <1>7, <1>8

\* What a read does to the bytes it reads.
LEMMA ReadMoves ==
  ASSUME TypeInv, Read
  PROVE  /\ pipe' \in Seq(Byte) /\ input' \in Seq(Byte)
         /\ input' \o pipe' = input \o pipe
         /\ UNCHANGED <<frames, todo, queue, writing, failed, handled, status>>
<1>1. PICK n \in 1 .. Len(pipe) :
        /\ input' = input \o SubSeq(pipe, 1, n)
        /\ pipe' = SubSeq(pipe, n + 1, Len(pipe))
  BY DEF Read
<1>2. input \in Seq(Byte) /\ pipe \in Seq(Byte)
  BY DEF TypeInv
<1>3. n \in 0 .. Len(pipe)
  BY <1>2, LenProperties
<1>4. /\ input \o SubSeq(pipe, 1, n) \in Seq(Byte) /\ SubSeq(pipe, n + 1, Len(pipe)) \in Seq(Byte)
      /\ (input \o SubSeq(pipe, 1, n)) \o SubSeq(pipe, n + 1, Len(pipe)) = input \o pipe
  <2>1. \A k \in 0 .. Len(pipe) :
          /\ input \o SubSeq(pipe, 1, k) \in Seq(Byte) /\ SubSeq(pipe, k + 1, Len(pipe)) \in Seq(Byte)
          /\ (input \o SubSeq(pipe, 1, k)) \o SubSeq(pipe, k + 1, Len(pipe)) = input \o pipe
    BY <1>2, Moved
  <2> QED
    BY <1>3, <2>1, Zenon
<1>5. UNCHANGED <<frames, todo, queue, writing, failed, handled, status>>
  BY DEF Read
<1> QED
  BY <1>1, <1>4, <1>5, Zenon

LEMMA NextType ==
  ASSUME TypeInv, SendInv, FlowInv, [Next]_vars
  PROVE  TypeInv'
<1>1. ASSUME NEW n \in Payloads, QueueFrame(n)
      PROVE  TypeInv'
  BY <1>1, AppendProperties DEF TypeInv, QueueFrame
<1>2. CASE Flush
  BY <1>2 DEF TypeInv, Flush
<1>3. CASE AddFits
  <2>1. todo # <<>>
    BY <1>3 DEF AddFits, Adding
  <2>2. Head(todo) \in Seq(Byte) /\ queue \in Seq(Byte)
    BY <2>1, Adds DEF TypeInv
  <2>3. queue \o Head(todo) \in Seq(Byte)
    BY <2>2, ConcatProperties
  <2> QED
    BY <1>3, <2>3 DEF TypeInv, AddFits
<1>4. CASE AddFlushes
  BY <1>4 DEF TypeInv, AddFlushes
<1>5. CASE AddLarge
  <2>1. todo # <<>>
    BY <1>5 DEF AddLarge, Adding
  <2>2. Head(todo) \in Seq(Byte)
    BY <2>1, Adds
  <2> QED
    BY <1>5, <2>2 DEF TypeInv, AddLarge
<1>6. CASE WriteSome
  BY <1>6, WriteSomeMoves DEF TypeInv
<1>7. CASE WriteFails
  BY <1>7 DEF TypeInv, WriteFails
<1>8. CASE Written
  <2>1. queue' \in Seq(Byte)
    BY <1>8 DEF TypeInv, Written
  <2> QED
    BY <1>8, <2>1 DEF TypeInv, Written, NoWrite
<1>9. CASE Read
  BY <1>9, ReadMoves DEF TypeInv
<1>10. CASE HandleFrame
  <2>1. /\ SubSeq(input, 1, FrameSize) \in Seq(Byte)
        /\ SubSeq(input, FrameSize + 1, Len(input)) \in Seq(Byte)
    BY <1>10, WholeFrame DEF HandleFrame
  <2>2. handled' \in Seq(Seq(Byte))
    BY <1>10, <2>1, AppendProperties DEF HandleFrame, TypeInv
  <2>3. input' \in Seq(Byte) /\ status' \in {"running", "stopped", "eof"}
    BY <1>10, <2>1 DEF HandleFrame, TypeInv
  <2> QED
    BY <1>10, <2>2, <2>3 DEF HandleFrame, TypeInv
<1>11. CASE EndOfFile
  BY <1>11 DEF TypeInv, EndOfFile
<1>12. CASE UNCHANGED vars
  BY <1>12 DEF TypeInv, vars
<1> QED
  BY <1>1, <1>2, <1>3, <1>4, <1>5, <1>6, <1>7, <1>8, <1>9, <1>10, <1>11, <1>12
  DEF Next, Send, Sending, Receive, Finished

LEMMA NextSend ==
  ASSUME TypeInv, SendInv, FlowInv, [Next]_vars
  PROVE  SendInv'
<1>1. ASSUME NEW n \in Payloads, QueueFrame(n)
      PROVE  SendInv'
  <2>1. frames' = Append(frames, n) /\ frames \in Seq(Payloads)
    BY <1>1 DEF QueueFrame, TypeInv
  <2>2. todo' = Strings(frames', 3)
    BY <1>1, <2>1, FirstStrings DEF QueueFrame
  <2>3. Len(todo') = 3
    BY <2>2, NextString
  <2>4. frames' # <<>>
    BY <2>1, AppendProperties
  <2>5. writing' = writing /\ queue' = queue /\ writing.from = "none"
    BY <1>1 DEF QueueFrame, Idle, NoWrite
  <2>6. Len(todo') \in 0 .. 3 /\ todo' = Strings(frames', Len(todo'))
    <3>1. 3 \in 0 .. 3
      OBVIOUS
    <3> QED
      BY <2>2, <2>3, <3>1, Zenon
  <2>7. /\ writing'.from = "none" => writing'.bytes = <<>>
        /\ writing'.from = "add" => todo' # <<>> /\ queue' = <<>>
        /\ Len(queue') <= QueueCap
    BY <2>5 DEF SendInv
  <2> QED
    BY <2>4, <2>6, <2>7 DEF SendInv
<1>2. CASE Flush
  BY <1>2 DEF SendInv, Flush
<1>3. CASE AddFits
  <2>1. /\ todo # <<>> /\ writing' = writing /\ frames' = frames /\ writing.from = "none"
        /\ todo' = Tail(todo) /\ queue' = queue \o Head(todo)
        /\ Len(Head(todo)) <= QueueCap - Len(queue)
    BY <1>3 DEF AddFits, Adding, NoWrite, FreeSpace
  <2>2. /\ Len(todo) \in 1 .. 3 /\ Tail(todo) = Strings(frames, Len(todo) - 1)
        /\ Len(Tail(todo)) = Len(todo) - 1 /\ frames # <<>> /\ Head(todo) \in Seq(Byte)
    BY <2>1, Adds
  <2>3. Len(queue') <= QueueCap
    <3>1. /\ Len(queue \o Head(todo)) = Len(queue) + Len(Head(todo))
          /\ Len(queue) \in Nat /\ Len(Head(todo)) \in Nat
      BY <2>2, ConcatProperties, LenProperties DEF TypeInv
    <3> QED
      BY <2>1, <3>1, WireAssumption
  <2>4. Len(todo') \in 0 .. 3 /\ todo' = Strings(frames', Len(todo'))
    BY <2>1, <2>2
  <2> QED
    BY <2>1, <2>2, <2>3, <2>4 DEF SendInv
<1>4. CASE AddFlushes
  BY <1>4 DEF SendInv, AddFlushes
<1>5. CASE AddLarge
  BY <1>5 DEF SendInv, AddLarge, Adding
<1>6. CASE WriteSome
  BY <1>6, WriteSomeMoves DEF SendInv
<1>7. CASE WriteFails
  BY <1>7 DEF SendInv, WriteFails
<1>8. CASE Written
  <2>1. writing'.from = "none" /\ writing'.bytes = <<>> /\ frames' = frames
    BY <1>8 DEF Written, NoWrite
  <2>2. CASE writing.from = "flush"
    <3>1. todo' = todo /\ queue' = <<>>
      BY <1>8, <2>2 DEF Written
    <3>2. Len(<<>>) <= QueueCap
      BY WireAssumption
    <3> QED
      BY <2>1, <3>1, <3>2 DEF SendInv
  <2>3. CASE writing.from # "flush"
    <3>1. writing.from = "add"
      BY <1>8, <2>3 DEF Written, TypeInv
    <3>2. todo # <<>> /\ todo' = Tail(todo) /\ queue' = queue
      BY <1>8, <2>3, <3>1 DEF Written, SendInv
    <3>3. /\ Len(todo) \in 1 .. 3 /\ Tail(todo) = Strings(frames, Len(todo) - 1)
          /\ Len(Tail(todo)) = Len(todo) - 1 /\ frames # <<>>
      BY <3>2, Adds
    <3>4. Len(todo') \in 0 .. 3 /\ todo' = Strings(frames', Len(todo'))
      BY <2>1, <3>2, <3>3
    <3> QED
      BY <2>1, <3>2, <3>3, <3>4 DEF SendInv
  <2> QED
    BY <2>2, <2>3
<1>9. CASE Read
  BY <1>9 DEF SendInv, Read
<1>10. CASE HandleFrame
  BY <1>10 DEF SendInv, HandleFrame
<1>11. CASE EndOfFile
  BY <1>11 DEF SendInv, EndOfFile
<1>12. CASE UNCHANGED vars
  BY <1>12 DEF SendInv, vars
<1> QED
  BY <1>1, <1>2, <1>3, <1>4, <1>5, <1>6, <1>7, <1>8, <1>9, <1>10, <1>11, <1>12
  DEF Next, Send, Sending, Receive, Finished

\* Nothing that is under way changes: what is sent next does not either.
LEMMA FlowSame ==
  ASSUME FlowInv, status' = "running" => status = "running",
         UNCHANGED <<frames, handled>>, Flow' = Flow, ToGive' = ToGive
  PROVE  FlowInv'
BY DEF FlowInv

LEMMA NextFlow ==
  ASSUME TypeInv, SendInv, FlowInv, [Next]_vars
  PROVE  FlowInv'
<1> SUFFICES ASSUME status' = "running"
             PROVE  FlowInv'
  BY DEF FlowInv
<1>a. /\ frames \in Seq(Payloads) /\ input \in Seq(Byte) /\ pipe \in Seq(Byte)
      /\ queue \in Seq(Byte) /\ writing.bytes \in Seq(Byte) /\ Pending \in Seq(Byte)
      /\ input \o pipe \in Seq(Byte)
  BY ConcatProperties DEF TypeInv, Pending
<1>b. ASSUME status = "running"
      PROVE  Chain(frames, Flow, <<Len(handled) + 1, 1>>, Given(frames, ToGive))
  BY <1>b DEF FlowInv
<1>1. ASSUME NEW n \in Payloads, QueueFrame(n)
      PROVE  FlowInv'
  <2>1. /\ frames' = Append(frames, n) /\ todo = <<>> /\ writing.from = "none"
        /\ UNCHANGED <<queue, writing, pipe, input, handled, status>>
    BY <1>1 DEF QueueFrame, Idle, NoWrite
  <2>2. Flow' = Flow
    BY <2>1 DEF Flow, Pending
  <2>3. ToGive = 0 /\ ToGive' = 3
    <3>1. todo' = Strings(frames', 3)
      BY <1>1, <2>1, <1>a, FirstStrings DEF QueueFrame
    <3>2. Len(todo') = 3
      BY <3>1, NextString
    <3> QED
      BY <2>1, <3>2 DEF ToGive
  <2>4. Chain(frames, Flow, <<Len(handled) + 1, 1>>, Given(frames, 0))
    BY <2>1, <2>3, <1>b
  <2>5. Chain(frames', Flow, <<Len(handled) + 1, 1>>, Given(frames, 0))
    BY <2>1, <2>4, <1>a, ChainGrows
  <2>6. Given(frames', 3) = Given(frames, 0)
    BY <2>1, <1>a, NextFrame
  <2> QED
    BY <2>1, <2>2, <2>3, <2>5, <2>6 DEF FlowInv
<1>2. CASE Flush
  <2>1. Flow' = Flow /\ ToGive' = ToGive /\ UNCHANGED <<frames, handled, status>>
    BY <1>2 DEF Flush, Idle, NoWrite, Flow, Pending, ToGive
  <2> QED
    BY <2>1, FlowSame
<1>3. CASE AddFits
  <2>1. /\ todo # <<>> /\ writing.from = "none" /\ todo' = Tail(todo) /\ queue' = queue \o Head(todo)
        /\ UNCHANGED <<frames, writing, pipe, input, handled, status>>
    BY <1>3 DEF AddFits, Adding, NoWrite
  <2>2. /\ Head(todo) \in Seq(Byte) /\ Len(Tail(todo)) = Len(todo) - 1
        /\ Chain(frames, Head(todo), Given(frames, Len(todo)), Given(frames, Len(todo) - 1))
    BY <2>1, Adds
  <2>3. Flow' = Flow \o Head(todo)
    <3>1. Flow' = (input \o pipe) \o (queue \o Head(todo)) /\ Flow = (input \o pipe) \o queue
      BY <2>1 DEF Flow, Pending
    <3> QED
      BY <3>1, <2>2, <1>a, Grouped, Zenon
  <2>4. ToGive = Len(todo) /\ ToGive' = Len(todo) - 1
    BY <2>1, <2>2 DEF ToGive
  <2>5. Chain(frames, Flow, <<Len(handled) + 1, 1>>, Given(frames, Len(todo)))
    BY <2>1, <2>4, <1>b
  <2>6. Chain(frames, Flow \o Head(todo), <<Len(handled) + 1, 1>>, Given(frames, Len(todo) - 1))
    BY <2>2, <2>5, <1>a, LenProperties, SizeFacts, ChainJoin
  <2> QED
    BY <2>1, <2>3, <2>4, <2>6 DEF FlowInv
<1>4. CASE AddFlushes
  <2>1. Flow' = Flow /\ ToGive' = ToGive /\ UNCHANGED <<frames, handled, status>>
    BY <1>4 DEF AddFlushes, Adding, NoWrite, Flow, Pending, ToGive
  <2> QED
    BY <2>1, FlowSame
<1>5. CASE AddLarge
  <2>1. /\ todo # <<>> /\ writing.from = "none" /\ queue = <<>>
        /\ writing' = [bytes |-> Head(todo), from |-> "add"]
        /\ UNCHANGED <<frames, todo, queue, pipe, input, handled, status>>
    BY <1>5 DEF AddLarge, Adding, NoWrite
  <2>2. /\ Head(todo) \in Seq(Byte)
        /\ Chain(frames, Head(todo), Given(frames, Len(todo)), Given(frames, Len(todo) - 1))
    BY <2>1, Adds
  <2>3. Flow = input \o pipe /\ Flow' = Flow \o Head(todo)
    <3>1. Flow = (input \o pipe) \o <<>> /\ Flow' = (input \o pipe) \o Head(todo)
      BY <2>1 DEF Flow, Pending
    <3>2. (input \o pipe) \o <<>> = input \o pipe
      BY <1>a, ConcatEmptySeq
    <3> QED
      BY <3>1, <3>2
  <2>4. ToGive = Len(todo) /\ ToGive' = Len(todo) - 1
    BY <2>1 DEF ToGive
  <2>5. Chain(frames, Flow, <<Len(handled) + 1, 1>>, Given(frames, Len(todo)))
    BY <2>1, <2>4, <1>b
  <2>6. Chain(frames, Flow \o Head(todo), <<Len(handled) + 1, 1>>, Given(frames, Len(todo) - 1))
    BY <2>2, <2>5, <1>a, LenProperties, SizeFacts, ChainJoin
  <2> QED
    BY <2>1, <2>3, <2>4, <2>6 DEF FlowInv
<1>6. CASE WriteSome
  <2>1. /\ pipe' \in Seq(Byte) /\ writing'.bytes \in Seq(Byte)
        /\ writing.from # "none" /\ writing'.from = writing.from
        /\ pipe' \o writing'.bytes = pipe \o writing.bytes
        /\ UNCHANGED <<frames, todo, input, handled, status>>
    BY <1>6, WriteSomeMoves
  <2>2. Flow = (input \o pipe) \o writing.bytes /\ Flow' = (input \o pipe') \o writing'.bytes
    BY <2>1 DEF Flow, Pending
  <2>0. \A x, y \in Seq(Byte) : (input \o x) \o y = input \o (x \o y)
    BY <1>a, Grouped
  <2>3. Flow = input \o (pipe \o writing.bytes)
    <3>1. (input \o pipe) \o writing.bytes = input \o (pipe \o writing.bytes)
      BY <2>0, <1>a
    <3> QED
      BY <2>2, <3>1, Zenon
  <2>4. Flow' = input \o (pipe' \o writing'.bytes)
    <3>1. (input \o pipe') \o writing'.bytes = input \o (pipe' \o writing'.bytes)
      BY <2>0, <2>1
    <3> QED
      BY <2>2, <3>1, Zenon
  <2>5. Flow' = Flow /\ ToGive' = ToGive
    BY <2>1, <2>3, <2>4 DEF ToGive
  <2> QED
    BY <2>1, <2>5, FlowSame
<1>7. CASE WriteFails
  BY <1>7 DEF WriteFails
<1>8. CASE Written
  <2>1. /\ writing.bytes = <<>> /\ writing.from # "none" /\ writing'.from = "none"
        /\ UNCHANGED <<frames, pipe, input, handled, status>>
    BY <1>8 DEF Written, NoWrite
  <2>2. queue' = <<>> /\ ToGive' = ToGive
    <3>1. CASE writing.from = "flush"
      BY <1>8, <2>1, <3>1 DEF Written, ToGive
    <3>2. CASE writing.from # "flush"
      <4>1. writing.from = "add"
        BY <2>1, <3>2 DEF TypeInv
      <4>2. todo # <<>> /\ queue = <<>>
        BY <4>1 DEF SendInv
      <4>3. Len(Tail(todo)) = Len(todo) - 1
        BY <4>2, Adds
      <4>4. todo' = Tail(todo) /\ queue' = queue
        BY <1>8, <3>2 DEF Written
      <4> QED
        BY <2>1, <4>1, <4>2, <4>3, <4>4 DEF ToGive
    <3> QED
      BY <3>1, <3>2
  <2>3. Flow' = Flow
    BY <2>1, <2>2 DEF Flow, Pending
  <2> QED
    BY <2>1, <2>2, <2>3, FlowSame
<1>9. CASE Read
  <2>1. input' \o pipe' = input \o pipe /\ UNCHANGED <<frames, todo, queue, writing, handled, status>>
    BY <1>9, ReadMoves
  <2>2. Flow' = Flow /\ ToGive' = ToGive
    BY <2>1 DEF Flow, Pending, ToGive
  <2> QED
    BY <2>1, <2>2, FlowSame
<1>10. CASE HandleFrame
  <2>1. /\ status = "running" /\ Complete /\ input' = SubSeq(input, FrameSize + 1, Len(input))
        /\ handled' = Append(handled, SubSeq(input, 1, FrameSize))
        /\ UNCHANGED <<frames, todo, queue, writing, pipe>>
    BY <1>10 DEF HandleFrame
  <2>2. /\ Chain(frames, (input' \o pipe) \o Pending, <<(Len(handled) + 1) + 1, 1>>, Given(frames, ToGive))
        /\ SubSeq(input, 1, FrameSize) \in Seq(Byte)
    BY <2>1, WholeFrame
  <2>3. Len(handled') = Len(handled) + 1
    BY <2>1, <2>2, AppendProperties DEF TypeInv
  <2>4. Flow' = (input' \o pipe) \o Pending /\ ToGive' = ToGive
    BY <2>1 DEF Flow, Pending, ToGive
  <2> QED
    BY <2>1, <2>2, <2>3, <2>4 DEF FlowInv
<1>11. CASE EndOfFile
  BY <1>11 DEF EndOfFile
<1>12. CASE UNCHANGED vars
  <2>1. Flow' = Flow /\ ToGive' = ToGive /\ UNCHANGED <<frames, handled, status>>
    BY <1>12 DEF vars, Flow, Pending, ToGive
  <2> QED
    BY <2>1, FlowSame
<1> QED
  BY <1>1, <1>2, <1>3, <1>4, <1>5, <1>6, <1>7, <1>8, <1>9, <1>10, <1>11, <1>12
  DEF Next, Send, Sending, Receive, Finished

\* Nothing is handed over: the frames handled stay what they are.
LEMMA HandledSame ==
  ASSUME HandledInv, status' = "eof" => status = "eof", UNCHANGED <<frames, handled, input>>
  PROVE  HandledInv'
BY DEF HandledInv

\* At the end of the stream every frame has been handled, and the receiver's
\* buffer is empty.
LEMMA EndInv ==
  ASSUME TypeInv, SendInv, FlowInv, EndOfFile
  PROVE  input = <<>> /\ Len(handled) = Len(frames) /\ Len(frames) = MaxFrames
<1>1. /\ status = "running" /\ ~Complete /\ pipe = <<>> /\ queue = <<>> /\ todo = <<>>
      /\ writing.from = "none" /\ Len(frames) = MaxFrames
  BY DEF EndOfFile, Done, Idle, NoWrite
<1>2. /\ frames \in Seq(Payloads) /\ input \in Seq(Byte) /\ Len(frames) \in Nat
      /\ handled \in Seq(Seq(Byte)) /\ Len(handled) \in Nat
  BY LenProperties DEF TypeInv
<1>3. Flow = input
  <2>1. Flow = (input \o <<>>) \o <<>>
    BY <1>1 DEF Flow, Pending
  <2>2. input \o <<>> = input
    BY <1>2, ConcatEmptySeq
  <2> QED
    BY <2>1, <2>2
<1> DEFINE n == Len(frames)
           k == Len(handled) + 1
<1>4. Chain(frames, input, <<k, 1>>, <<n + 1, 1>>)
  <2>1. ToGive = 0
    BY <1>1 DEF ToGive
  <2>2. Given(frames, 0) = <<n + 1, 1>>
    BY <1>2, EndOfFrames
  <2> QED
    BY <1>1, <1>3, <2>1, <2>2 DEF FlowInv
<1>5. input = <<>>
  <2> SUFFICES ASSUME input # <<>> PROVE FALSE
    OBVIOUS
  <2> DEFINE z == Size(frames, k)
             l == Len(input)
  <2>1. /\ k \in 1 .. Len(frames) /\ input[1] = <<k, 1>> /\ FrameSize = z
        /\ z \in Nat /\ z >= Header /\ Header \in Nat /\ l \in Nat /\ l >= 1
    <3> HIDE DEF z, l
    <3> QED
      BY <1>1, InFront DEF z, l
  <2>2. l < z
    <3>1. ~(l >= Header /\ l >= z)
      <4> HIDE DEF z
      <4> QED
        BY <1>1, <2>1 DEF Complete
    <3> HIDE DEF z, l
    <3> QED
      BY <2>1, <3>1
  <2> HIDE DEF z, l, k, n
  <2>3. l \in 0 .. Len(input) + 1 - 1 /\ input[1][2] + l <= Size(frames, input[1][1]) + 1 /\ 1 \in 1 .. Len(input)
    <3>1. input[1][1] = k /\ input[1][2] = 1
      BY <2>1
    <3>2. 1 + l <= z + 1
      BY <2>1, <2>2
    <3>3. Len(input) = l
      BY DEF l
    <3>4. l \in 0 .. l + 1 - 1 /\ 1 \in 1 .. l
      BY <2>1
    <3> QED
      BY <3>1, <3>2, <3>3, <3>4 DEF z
  <2>4. At(input, <<n + 1, 1>>, 1 + l) = Pos(frames, k, 1 + l)
    <3>1. At(input, <<n + 1, 1>>, 1 + l) = Pos(frames, input[1][1], input[1][2] + l)
      BY <1>4, <2>3 DEF Chain
    <3> QED
      BY <3>1, <2>1
  <2>5. At(input, <<n + 1, 1>>, 1 + l) = <<n + 1, 1>>
    BY <2>1 DEF At, l
  <2>6. Pos(frames, k, 1 + l) = <<k, 1 + l>>
    BY <2>1, <2>2 DEF Pos, z
  <2>7. 1 + l = 1
    BY <2>4, <2>5, <2>6
  <2> QED
    BY <2>1, <2>7
<1>6. <<k, 1>> = <<n + 1, 1>>
  <2> HIDE DEF k, n
  <2> QED
    BY <1>4, <1>5 DEF Chain, At
<1>7. k = n + 1
  <2> HIDE DEF k, n
  <2> QED
    BY <1>6
<1> QED
  BY <1>1, <1>2, <1>5, <1>7

LEMMA NextHandled ==
  ASSUME TypeInv, SendInv, FlowInv, HandledInv, [Next]_vars
  PROVE  HandledInv'
<1>1. ASSUME NEW n \in Payloads, QueueFrame(n)
      PROVE  HandledInv'
  <2>1. /\ frames' = Append(frames, n) /\ frames \in Seq(Payloads) /\ Len(frames) < MaxFrames
        /\ UNCHANGED <<handled, input, status>>
    BY <1>1 DEF QueueFrame, TypeInv
  <2>2. status # "eof"
    <3>1. Len(frames) \in Nat /\ MaxFrames \in Nat
      BY <2>1, LenProperties, WireAssumption
    <3> QED
      BY <2>1, <3>1 DEF HandledInv
  <2>3. \A k \in 1 .. Len(frames) : k \in 1 .. Len(frames') /\ Size(frames', k) = Size(frames, k)
    <3>1. Len(frames') = Len(frames) + 1 /\ Len(frames) \in Nat
      BY <2>1, AppendProperties, LenProperties
    <3> QED
      BY <2>1, <3>1, SizeKept
  <2>4. \A k \in 1 .. Len(handled) : k \in 1 .. Len(frames) /\ handled[k] = Bytes(k, 1, Size(frames, k))
    BY DEF HandledInv
  <2>5. \A k \in 1 .. Len(handled) : k \in 1 .. Len(frames') /\ handled[k] = Bytes(k, 1, Size(frames', k))
    BY <2>3, <2>4
  <2> QED
    BY <2>1, <2>2, <2>5 DEF HandledInv
<1>2. CASE Flush
  BY <1>2, HandledSame DEF Flush
<1>3. CASE AddFits
  BY <1>3, HandledSame DEF AddFits
<1>4. CASE AddFlushes
  BY <1>4, HandledSame DEF AddFlushes
<1>5. CASE AddLarge
  BY <1>5, HandledSame DEF AddLarge
<1>6. CASE WriteSome
  BY <1>6, WriteSomeMoves, HandledSame
<1>7. CASE WriteFails
  BY <1>7, HandledSame DEF WriteFails
<1>8. CASE Written
  BY <1>8, HandledSame DEF Written
<1>9. CASE Read
  <2>1. status' = "running" /\ UNCHANGED <<frames, handled>>
    BY <1>9 DEF Read
  <2> QED
    BY <2>1 DEF HandledInv
<1>10. CASE HandleFrame
  <2>1. /\ status = "running" /\ Complete /\ status' # "eof" /\ frames' = frames
        /\ handled' = Append(handled, SubSeq(input, 1, FrameSize))
    BY <1>10 DEF HandleFrame
  <2> DEFINE l == Len(handled)
  <2>2. /\ l + 1 \in 1 .. Len(frames) /\ SubSeq(input, 1, FrameSize) = Bytes(l + 1, 1, Size(frames, l + 1))
        /\ SubSeq(input, 1, FrameSize) \in Seq(Byte)
    BY <2>1, WholeFrame
  <2>3. /\ Len(handled') = l + 1 /\ l \in Nat /\ \A k \in 1 .. l : handled'[k] = handled[k]
        /\ handled'[l + 1] = SubSeq(input, 1, FrameSize)
    BY <2>1, <2>2, AppendProperties, LenProperties DEF TypeInv
  <2>4. \A k \in 1 .. l : k \in 1 .. Len(frames) /\ handled[k] = Bytes(k, 1, Size(frames, k))
    BY DEF HandledInv
  <2> HIDE DEF l
  <2>5. ASSUME NEW k \in 1 .. l + 1
        PROVE  k \in 1 .. Len(frames) /\ handled'[k] = Bytes(k, 1, Size(frames, k))
    <3>1. k \in 1 .. l \/ k = l + 1
      BY <2>3
    <3> QED
      BY <3>1, <2>2, <2>3, <2>4
  <2> QED
    BY <2>1, <2>3, <2>5 DEF HandledInv
<1>11. CASE EndOfFile
  <2>1. input = <<>> /\ Len(handled) = Len(frames) /\ Len(frames) = MaxFrames
    BY <1>11, EndInv
  <2>2. UNCHANGED <<frames, handled, input>>
    BY <1>11 DEF EndOfFile
  <2> QED
    BY <2>1, <2>2 DEF HandledInv
<1>12. CASE UNCHANGED vars
  BY <1>12, HandledSame DEF vars
<1> QED
  BY <1>1, <1>2, <1>3, <1>4, <1>5, <1>6, <1>7, <1>8, <1>9, <1>10, <1>11, <1>12
  DEF Next, Send, Sending, Receive, Finished

----------------------------------------------------------------------------
(* The theorem.                                                            *)

LEMMA InitInv ==
  ASSUME Init
  PROVE  WireInv
<1>1. TypeInv
  BY EmptySeq DEF Init, TypeInv, NoWrite
<1>2. SendInv
  <2>1. Strings(frames, 0) = <<>> /\ Len(<<>>) = 0
    BY DEF Strings
  <2>2. 0 <= QueueCap
    BY WireAssumption
  <2> QED
    BY <2>1, <2>2 DEF Init, SendInv, NoWrite
<1>3. FlowInv
  <2>1. Flow = <<>>
    <3>1. Flow = (<<>> \o <<>>) \o <<>>
      BY DEF Init, Flow, Pending, NoWrite
    <3>2. <<>> \in Seq(Byte)
      OBVIOUS
    <3>3. <<>> \o <<>> = <<>>
      BY <3>2, ConcatEmptySeq
    <3> QED
      BY <3>1, <3>3
  <2>2. Len(handled) + 1 = 1 /\ Given(frames, ToGive) = <<1, 1>>
    BY DEF Init, Given, ToGive, NoWrite
  <2>3. Chain(frames, <<>>, <<1, 1>>, <<1, 1>>)
    BY EmptyChain
  <2> QED
    BY <2>1, <2>2, <2>3 DEF FlowInv
<1>4. HandledInv
  BY DEF Init, HandledInv
<1> QED
  BY <1>1, <1>2, <1>3, <1>4 DEF WireInv

\* The invariant holds in every reachable state of queue_string, send_queue,
\* write_in_full and data_receiver.
THEOREM WireInvariant ==
  Spec => []WireInv
<1>1. Init => WireInv
  BY InitInv
<1>2. WireInv /\ [Next]_vars => WireInv'
  BY NextType, NextSend, NextFlow, NextHandled DEF WireInv
<1> QED
  BY <1>1, <1>2, PTL DEF Spec

\* The frame handler is given each frame that queue_string sent, whole, padded,
\* once and in order, and at the end of the stream it has been given them all and
\* no byte is left over: for every size of the header, the payloads, the send
\* queue, the pipe and the receive buffer, every alignment and number of frames.
THEOREM FramesArrive ==
  Spec => []FramesArriveWhole
<1>1. WireInv => FramesArriveWhole
  BY DEF WireInv, HandledInv, SendInv, FramesArriveWhole, Size
<1> QED
  BY <1>1, WireInvariant, PTL

============================================================================
