----------------------------- MODULE FgetProofs -----------------------------
(***************************************************************************)
(* What fget leaves on the disk, for files of any size, any number of      *)
(* runs, faults and reads.  The invariant says that the data on its way to *)
(* fget goes on where the local file's position is: frame after frame,     *)
(* up to where the server reads on.                                        *)
(***************************************************************************)
EXTENDS Fget, SequenceTheorems, TLAPS

Frames == [type : {"size", "data", "result"}, n : Nat, bytes : Seq(Nat)]

\* A frame that comes when the file holds bytes 1 .. a and leaves it with 1 .. b.
Leads(frame, a, b) ==
  IF frame.type = "data" THEN a <= b /\ frame.bytes = Bytes(a + 1, b) ELSE b = a

\* Frames that lead from a file of length `from' to one of length `to', and
\* never beyond s.
Chain(frames, s, from, to) ==
  \E f \in [1 .. Len(frames) + 1 -> 0 .. s] :
    /\ f[1] = from /\ f[Len(frames) + 1] = to
    /\ \A k \in 1 .. Len(frames) : Leads(frames[k], f[k], f[k + 1])

\* The answer begins where the local file ends.
Straight == kind = "regular" \/ offset = -1

Types ==
  /\ kind \in {"regular", "generated"} /\ size \in Nat
  /\ exists \in BOOLEAN /\ local \in Seq(Nat) /\ position \in 0 .. Len(local)
  /\ run \in {"idle", "running", "failed", "killed", "ok"}
  /\ nWritten \in Nat /\ expected \in Nat /\ result \in Nat
  /\ offset \in Nat \cup {-1} /\ at \in Nat
  /\ server \in {"gone", "opening", "reading", "answered"}
  /\ pipe \in Seq(Frames)

Control ==
  /\ ~exists => local = <<>>
  /\ run = "running" => exists
  /\ server # "gone" => run = "running"
  /\ server = "opening" => pipe = <<>>

\* The file ends at its position, and what is on its way leads on from there to
\* where the server reads next.
Reach(to) ==
  /\ Chain(pipe, size, position, to)
  /\ server = "reading" => at = to
  /\ server = "opening" => ReadFrom = to

Download ==
  run = "running" /\ Straight =>
    /\ local = Bytes(1, position) /\ nWritten = position
    /\ \E to \in 0 .. size : Reach(to)

FInv == Types /\ Control /\ LocalIsPrefix /\ Download /\ OkMeansWhole

----------------------------------------------------------------------------
(* Bytes.                                                                  *)

LEMMA BytesType ==
  ASSUME NEW a \in Nat, NEW b \in Nat, a <= b
  PROVE  /\ Bytes(a + 1, b) \in Seq(Nat)
         /\ Len(Bytes(a + 1, b)) = b - a
         /\ \A k \in 1 .. b - a : Bytes(a + 1, b)[k] = a + k
<1>1. Bytes(a + 1, b) = [k \in 1 .. b - a |-> a + k]
  BY DEF Bytes
<1> QED
  BY <1>1

LEMMA FirstBytesType ==
  ASSUME NEW b \in Nat
  PROVE  /\ Bytes(1, b) \in Seq(Nat) /\ Len(Bytes(1, b)) = b
         /\ \A k \in 1 .. b : Bytes(1, b)[k] = k
<1>1. Bytes(1, b) = [k \in 1 .. b |-> k]
  BY DEF Bytes
<1> QED
  BY <1>1

LEMMA BytesNone == Bytes(1, 0) = <<>>
  BY DEF Bytes

LEMMA BytesConcat ==
  ASSUME NEW a \in Nat, NEW b \in Nat, a <= b
  PROVE  Bytes(1, a) \o Bytes(a + 1, b) = Bytes(1, b)
<1>1. /\ Bytes(1, a) \in Seq(Nat) /\ Len(Bytes(1, a)) = a
      /\ \A k \in 1 .. a : Bytes(1, a)[k] = k
  BY FirstBytesType
<1>2. /\ Bytes(1, b) \in Seq(Nat) /\ Len(Bytes(1, b)) = b
      /\ \A k \in 1 .. b : Bytes(1, b)[k] = k
  BY FirstBytesType
<1>3. /\ Bytes(a + 1, b) \in Seq(Nat) /\ Len(Bytes(a + 1, b)) = b - a
      /\ \A k \in 1 .. b - a : Bytes(a + 1, b)[k] = a + k
  BY BytesType
<1> DEFINE left == Bytes(1, a)  right == Bytes(a + 1, b)  all == Bytes(1, b)
<1> HIDE DEF left, right, all
<1>4. left \o right \in Seq(Nat) /\ Len(left \o right) = b
  BY <1>1, <1>3 DEF left, right
<1>5. \A k \in 1 .. b : (left \o right)[k] = all[k]
  BY <1>1, <1>2, <1>3, SMTT(30) DEF left, right, all
<1>6. all \in Seq(Nat) /\ Len(all) = b
  BY <1>2 DEF all
<1>7. left \o right = all
  BY <1>4, <1>5, <1>6, SeqEqual
<1> QED
  BY <1>7 DEF left, right, all

LEMMA BytesPrefix ==
  ASSUME NEW a \in Nat, NEW b \in Nat, a <= b, NEW m \in 0 .. b - a
  PROVE  SubSeq(Bytes(a + 1, b), 1, m) = Bytes(a + 1, a + m)
<1> DEFINE all == Bytes(a + 1, b)  part == Bytes(a + 1, a + m)
<1>1. all \in Seq(Nat) /\ Len(all) = b - a /\ \A k \in 1 .. b - a : all[k] = a + k
  BY BytesType
<1>2. part \in Seq(Nat) /\ Len(part) = m /\ \A k \in 1 .. m : part[k] = a + k
  BY BytesType
<1> HIDE DEF all, part
<1>3. SubSeq(all, 1, m) \in Seq(Nat) /\ Len(SubSeq(all, 1, m)) = m
  BY <1>1
<1>4. \A k \in 1 .. m : SubSeq(all, 1, m)[k] = part[k]
  BY <1>1, <1>2
<1> QED
  BY <1>2, <1>3, <1>4 DEF all, part

\* What write() makes of a file.
Written(file, p, bytes) ==
  SubSeq(file, 1, p) \o bytes \o SubSeq(file, p + Len(bytes) + 1, Len(file))

LEMMA WrittenType ==
  ASSUME NEW file \in Seq(Nat), NEW p \in 0 .. Len(file), NEW bytes \in Seq(Nat)
  PROVE  Written(file, p, bytes) \in Seq(Nat) /\ p + Len(bytes) <= Len(Written(file, p, bytes))
<1> DEFINE before == SubSeq(file, 1, p)  after == SubSeq(file, p + Len(bytes) + 1, Len(file))
<1>1. before \in Seq(Nat) /\ Len(before) = p
  OBVIOUS
<1>2. after \in Seq(Nat)
  OBVIOUS
<1> HIDE DEF before, after
<1>3. (before \o bytes) \in Seq(Nat) /\ Len(before \o bytes) = p + Len(bytes)
  BY <1>1, ConcatProperties
<1>4. Written(file, p, bytes) = (before \o bytes) \o after
  BY DEF Written, before, after
<1> DEFINE start == before \o bytes
<1> HIDE DEF start
<1>5. (start \o after) \in Seq(Nat) /\ Len(start) <= Len(start \o after)
  BY <1>2, <1>3 DEF start
<1> QED
  BY <1>3, <1>4, <1>5 DEF start

LEMMA WrittenAtEnd ==
  ASSUME NEW file \in Seq(Nat), NEW bytes \in Seq(Nat)
  PROVE  Written(file, Len(file), bytes) = file \o bytes
<1>1. SubSeq(file, 1, Len(file)) = file
  OBVIOUS
<1>2. SubSeq(file, Len(file) + Len(bytes) + 1, Len(file)) = <<>>
  OBVIOUS
<1>3. file \o bytes \in Seq(Nat)
  OBVIOUS
<1> DEFINE both == file \o bytes
<1>4. Written(file, Len(file), bytes) = both \o <<>>
  BY <1>1, <1>2 DEF Written
<1> HIDE DEF both
<1>5. both \o <<>> = both
  BY <1>3, ConcatEmptySeq DEF both
<1> QED
  BY <1>4, <1>5 DEF both

----------------------------------------------------------------------------
(* Chains.                                                                 *)

LEMMA EmptyChain ==
  ASSUME NEW s \in Nat, NEW a \in 0 .. s
  PROVE  Chain(<<>>, s, a, a)
<1> DEFINE f == [k \in {1} |-> a]
<1>1. Len(<<>>) = 0 /\ 1 .. Len(<<>>) + 1 = {1}
  OBVIOUS
<1>2. f \in [1 .. Len(<<>>) + 1 -> 0 .. s] /\ f[1] = a /\ f[Len(<<>>) + 1] = a
  BY <1>1
<1>3. \A k \in 1 .. Len(<<>>) : Leads(<<>>[k], f[k], f[k + 1])
  BY <1>1
<1> QED
  BY <1>2, <1>3, Zenon DEF Chain

LEMMA LongerChain ==
  ASSUME NEW frames \in Seq(Frames), NEW s \in Nat, NEW a \in Nat, NEW b \in Nat,
         NEW c \in 0 .. s, NEW frame \in Frames,
         Chain(frames, s, a, b), Leads(frame, b, c)
  PROVE  Chain(frames \o <<frame>>, s, a, c)
<1> DEFINE n == Len(frames)  more == frames \o <<frame>>
<1>1. PICK f \in [1 .. n + 1 -> 0 .. s] :
        /\ f[1] = a /\ f[n + 1] = b
        /\ \A k \in 1 .. n : Leads(frames[k], f[k], f[k + 1])
  BY DEF Chain
<1> DEFINE g == [k \in 1 .. n + 2 |-> IF k <= n + 1 THEN f[k] ELSE c]
<1>2. n \in Nat /\ Len(more) = n + 1 /\ more[n + 1] = frame /\ \A k \in 1 .. n : more[k] = frames[k]
  OBVIOUS
<1>3. g \in [1 .. n + 2 -> 0 .. s] /\ g[1] = a /\ g[n + 1] = b /\ g[n + 2] = c
  BY <1>1, <1>2
<1>4. \A k \in 1 .. n + 1 : g[k] = f[k]
  BY <1>2
<1>5. \A k \in 1 .. n : Leads(more[k], g[k], g[k + 1])
  <2> SUFFICES ASSUME NEW k \in 1 .. n PROVE Leads(more[k], g[k], g[k + 1])
    OBVIOUS
  <2>1. g[k] = f[k] /\ g[k + 1] = f[k + 1] /\ more[k] = frames[k]
    BY <1>2, <1>4
  <2> HIDE DEF g, more
  <2> QED
    BY <1>1, <2>1
<1> HIDE DEF g, more, n
<1>6. Leads(more[n + 1], g[n + 1], g[n + 2])
  BY <1>2, <1>3
<1>7. n + 2 = (n + 1) + 1
  BY <1>2
<1>8. \A k \in 1 .. n + 1 : Leads(more[k], g[k], g[k + 1])
  <2> SUFFICES ASSUME NEW k \in 1 .. n + 1 PROVE Leads(more[k], g[k], g[k + 1])
    OBVIOUS
  <2>1. k \in 1 .. n \/ k = n + 1
    BY <1>2
  <2> QED
    BY <1>5, <1>6, <1>7, <2>1
<1> QED
  BY <1>2, <1>3, <1>7, <1>8 DEF Chain, more

LEMMA ShorterChain ==
  ASSUME NEW frames \in Seq(Frames), frames # <<>>, NEW s \in Nat, NEW a \in Nat, NEW c \in Nat,
         Chain(frames, s, a, c)
  PROVE  \E b \in 0 .. s : Leads(Head(frames), a, b) /\ Chain(Tail(frames), s, b, c)
<1> DEFINE n == Len(frames)  rest == Tail(frames)
<1>1. PICK f \in [1 .. n + 1 -> 0 .. s] :
        /\ f[1] = a /\ f[n + 1] = c
        /\ \A k \in 1 .. n : Leads(frames[k], f[k], f[k + 1])
  BY DEF Chain
<1>2. n \in Nat \ {0} /\ rest \in Seq(Frames) /\ Len(rest) = n - 1 /\ Head(frames) = frames[1]
  OBVIOUS
<1>3. \A k \in 1 .. n - 1 : rest[k] = frames[k + 1]
  OBVIOUS
<1> DEFINE g == [k \in 1 .. n |-> f[k + 1]]
<1>4. g \in [1 .. n -> 0 .. s] /\ g[1] = f[2] /\ g[n] = c
  BY <1>1, <1>2
<1>5. \A k \in 1 .. n - 1 : Leads(rest[k], g[k], g[k + 1])
  <2> SUFFICES ASSUME NEW k \in 1 .. n - 1 PROVE Leads(rest[k], g[k], g[k + 1])
    OBVIOUS
  <2>1. g[k] = f[k + 1] /\ g[k + 1] = f[(k + 1) + 1] /\ k + 1 \in 1 .. n
    BY <1>2
  <2>2. rest[k] = frames[k + 1]
    BY <1>3
  <2> HIDE DEF g, rest
  <2> QED
    BY <1>1, <2>1, <2>2
<1>6. Leads(frames[1], a, f[2]) /\ f[2] \in 0 .. s
  <2>1. 1 \in 1 .. n /\ 2 \in 1 .. n + 1 /\ 1 + 1 = 2
    BY <1>2
  <2> QED
    BY <1>1, <2>1
<1> HIDE DEF g, rest, n
<1>7. (n - 1) + 1 = n
  BY <1>2
<1>8. Chain(rest, s, f[2], c)
  BY <1>2, <1>4, <1>5, <1>7 DEF Chain
<1> QED
  BY <1>2, <1>6, <1>8 DEF rest

LEMMA CutChain ==
  ASSUME NEW frames \in Seq(Frames), NEW s \in Nat, NEW a \in Nat, NEW c \in Nat,
         Chain(frames, s, a, c), NEW m \in 0 .. Len(frames)
  PROVE  \E b \in 0 .. s : Chain(SubSeq(frames, 1, m), s, a, b)
<1> DEFINE n == Len(frames)  some == SubSeq(frames, 1, m)
<1>1. PICK f \in [1 .. n + 1 -> 0 .. s] :
        /\ f[1] = a /\ f[n + 1] = c
        /\ \A k \in 1 .. n : Leads(frames[k], f[k], f[k + 1])
  BY DEF Chain
<1>2. n \in Nat /\ Len(some) = m /\ \A k \in 1 .. m : some[k] = frames[k]
  OBVIOUS
<1> DEFINE g == [k \in 1 .. m + 1 |-> f[k]]
<1>3. g \in [1 .. m + 1 -> 0 .. s] /\ g[1] = a /\ g[m + 1] \in 0 .. s
  <2>1. m \in Nat /\ m <= n
    BY <1>2
  <2> HIDE DEF n, some
  <2>2. \A k \in 1 .. m + 1 : k \in 1 .. n + 1
    BY <1>2, <2>1
  <2>3. g \in [1 .. m + 1 -> 0 .. s]
    BY <1>1, <2>2
  <2>4. 1 \in 1 .. m + 1 /\ m + 1 \in 1 .. m + 1
    BY <2>1
  <2> QED
    BY <1>1, <2>3, <2>4
<1>4. \A k \in 1 .. m : Leads(some[k], g[k], g[k + 1])
  <2> SUFFICES ASSUME NEW k \in 1 .. m PROVE Leads(some[k], g[k], g[k + 1])
    OBVIOUS
  <2>1. g[k] = f[k] /\ g[k + 1] = f[k + 1] /\ some[k] = frames[k] /\ k \in 1 .. n
    BY <1>2
  <2> HIDE DEF g, some, n
  <2> QED
    BY <1>1, <2>1
<1> HIDE DEF g, some
<1>5. Chain(some, s, a, g[m + 1])
  BY <1>2, <1>3, <1>4 DEF Chain
<1> QED
  BY <1>3, <1>5 DEF some

LEMMA RoomierChain ==
  ASSUME NEW frames, NEW s \in Nat, NEW a, NEW c, Chain(frames, s, a, c)
  PROVE  Chain(frames, s + 1, a, c)
<1>1. PICK f \in [1 .. Len(frames) + 1 -> 0 .. s] :
        /\ f[1] = a /\ f[Len(frames) + 1] = c
        /\ \A k \in 1 .. Len(frames) : Leads(frames[k], f[k], f[k + 1])
  BY DEF Chain
<1>2. f \in [1 .. Len(frames) + 1 -> 0 .. s + 1]
  BY <1>1
<1> QED
  BY <1>1, <1>2 DEF Chain

LEMMA Joined ==
  ASSUME NEW x \in Frames, NEW y \in Frames, NEW z \in Frames
  PROVE  <<x>> \o <<y>> = <<x, y>> /\ <<x, y>> \o <<z>> = <<x, y, z>>
<1>1. <<x>> \in Seq(Frames) /\ <<y>> \in Seq(Frames) /\ <<z>> \in Seq(Frames)
  OBVIOUS
<1>2. <<x, y>> \in Seq(Frames) /\ <<x, y, z>> \in Seq(Frames)
  OBVIOUS
<1>3. <<x>> \o <<y>> = <<x, y>>
  <2>1. <<x>> \o <<y>> \in Seq(Frames) /\ Len(<<x>> \o <<y>>) = 2
    BY <1>1, ConcatProperties
  <2>2. \A i \in 1 .. 2 : (<<x>> \o <<y>>)[i] = <<x, y>>[i]
    BY <1>1, ConcatProperties
  <2> QED
    BY <1>2, <2>1, <2>2, SeqEqual
<1>4. <<x, y>> \o <<z>> = <<x, y, z>>
  <2>1. <<x, y>> \o <<z>> \in Seq(Frames) /\ Len(<<x, y>> \o <<z>>) = 3
    BY <1>1, <1>2, ConcatProperties
  <2>2. \A i \in 1 .. 3 : (<<x, y>> \o <<z>>)[i] = <<x, y, z>>[i]
    BY <1>1, <1>2, ConcatProperties
  <2> QED
    BY <1>2, <2>1, <2>2, SeqEqual
<1> QED
  BY <1>3, <1>4

----------------------------------------------------------------------------
(* The steps of fget.                                                      *)

LEMMA FgetInit == Init => FInv
<1> SUFFICES ASSUME Init PROVE FInv
  OBVIOUS
<1>1. local = <<>> /\ Len(local) = 0 /\ pipe = <<>> /\ position = 0 /\ local = Bytes(1, 0)
  BY BytesNone DEF Init
<1>2. Types
  <2>1. kind \in {"regular", "generated"} /\ size \in Nat
    BY FgetAssumption DEF Init
  <2>2. exists \in BOOLEAN
    BY DEF Init
  <2>3. local \in Seq(Nat) /\ pipe \in Seq(Frames) /\ position \in 0 .. Len(local)
    BY <1>1
  <2>4. /\ run = "idle" /\ server = "gone"
        /\ nWritten = 0 /\ expected = 0 /\ result = 0 /\ offset = -1 /\ at = 0
    BY DEF Init
  <2> QED
    BY <2>1, <2>2, <2>3, <2>4 DEF Types
<1>3. Control /\ Download /\ OkMeansWhole
  BY <1>1 DEF Init, Control, Download, OkMeansWhole
<1>4. LocalIsPrefix
  BY <1>1, <1>2 DEF LocalIsPrefix, Types
<1> QED
  BY <1>2, <1>3, <1>4 DEF FInv

LEMMA StartKeeps ==
  ASSUME FInv, NEW option \in Options, Start(option)
  PROVE  FInv'
<1>1. CASE option = "none" /\ exists
  <2>1. /\ run' = "failed" /\ run # "running"
        /\ UNCHANGED <<worldVars, fileVars, nWritten, expected, result, heard, serverVars>>
    BY <1>1 DEF Start
  <2>2. UNCHANGED <<kind, size, exists, local, position, nWritten, expected, result, offset, at, server, pipe>>
    BY <2>1 DEF worldVars, fileVars, serverVars
  <2>3. Types' /\ Control' /\ Download'
    BY <2>1, <2>2 DEF FInv, Types, Control, Download
  <2>4. LocalIsPrefix' /\ OkMeansWhole'
    BY <2>1, <2>2 DEF FInv, LocalIsPrefix, OkMeansWhole, Bytes
  <2> QED
    BY <2>3, <2>4 DEF FInv
<1>2. CASE ~(option = "none" /\ exists)
  <2> DEFINE begin == IF option = "continue" THEN Len(local) ELSE 0
  <2>1. /\ exists' = TRUE /\ position' = begin /\ nWritten' = begin
        /\ local' = IF option = "clobber" THEN <<>> ELSE local
        /\ run' = "running" /\ expected' = 0 /\ result' = 0
        /\ offset' = IF begin = 0 THEN -1 ELSE begin
        /\ server' = "opening" /\ pipe' = <<>> /\ at' = 0
        /\ kind' = kind /\ size' = size
    BY <1>2 DEF Start, OpenFile, worldVars
  <2>2. /\ option \in {"none", "clobber", "continue"}
        /\ Types /\ local \in Seq(Nat) /\ Len(local) \in Nat /\ size \in Nat
    BY FgetAssumption DEF FInv, Types
  <2>3. local' \in Seq(Nat) /\ Len(local') \in Nat /\ begin \in 0 .. Len(local')
    BY <2>1, <2>2
  <2>4. Len(local') = begin
    <3>1. CASE option = "none"
      <4>1. local = <<>>
        BY <1>2, <3>1 DEF FInv, Control, Types
      <4> QED
        BY <2>1, <3>1, <4>1
    <3>2. CASE option \in {"clobber", "continue"}
      BY <2>1, <3>2
    <3> QED
      BY <2>2, <3>1, <3>2
  <2>5. Types'
    BY <2>1, <2>2, <2>3 DEF Types
  <2>6. Control' /\ OkMeansWhole'
    BY <2>1 DEF Control, OkMeansWhole
  <2>7. begin = 0 => local' = Bytes(1, begin)
    BY <2>3, <2>4, BytesNone
  <2>8. LocalIsPrefix'
    <3>1. CASE local' = local
      BY <2>1, <3>1 DEF FInv, LocalIsPrefix, Bytes
    <3>2. CASE local' = <<>>
      BY <2>1, <2>2, <3>2, BytesNone DEF LocalIsPrefix
    <3> QED
      BY <2>1, <3>1, <3>2
  <2>9. Straight' => local' = Bytes(1, begin) /\ begin <= size
    <3>1. CASE kind = "regular"
      BY <2>1, <2>4, <2>8, <3>1 DEF LocalIsPrefix
    <3>2. CASE kind # "regular"
      BY <2>1, <2>2, <2>3, <2>7, <3>2 DEF Straight
    <3> QED
      BY <3>1, <3>2
  <2> HIDE DEF begin
  <2>10. ASSUME Straight' PROVE \E to \in 0 .. size' : Reach(to)'
    <3>0. PICK b : b = begin
      OBVIOUS
    <3>1. b \in 0 .. size
      BY <2>2, <2>3, <2>9, <2>10, <3>0
    <3>2. Chain(<<>>, size, b, b)
      BY <2>2, <3>1, EmptyChain
    <3>3. ReadFrom' = b
      BY <2>1, <2>3, <3>0 DEF ReadFrom
    <3>4. Reach(b)'
      BY <2>1, <3>0, <3>2, <3>3 DEF Reach
    <3> QED
      BY <2>1, <3>1, <3>4
  <2>11. Download'
    BY <2>1, <2>9, <2>10 DEF Download, Bytes
  <2> QED
    BY <2>5, <2>6, <2>8, <2>11 DEF FInv
<1> QED
  BY <1>1, <1>2

\* The first frame is handled: where the others lead from there.
LEMMA NextFrame ==
  ASSUME FInv, run = "running", pipe # <<>>
  PROVE  /\ Head(pipe) \in Frames /\ Tail(pipe) \in Seq(Frames)
         /\ server # "opening"
         /\ Straight => \E to, b \in 0 .. size :
              /\ Leads(Head(pipe), position, b) /\ Chain(Tail(pipe), size, b, to)
              /\ server = "reading" => at = to
<1>1. /\ Types /\ pipe \in Seq(Frames) /\ size \in Nat /\ position \in Nat
  BY DEF FInv, Types
<1>2. Head(pipe) \in Frames /\ Tail(pipe) \in Seq(Frames)
  BY <1>1
<1>3. server # "opening"
  BY DEF FInv, Control
<1>4. ASSUME Straight
      PROVE  \E to, b \in 0 .. size :
               /\ Leads(Head(pipe), position, b) /\ Chain(Tail(pipe), size, b, to)
               /\ server = "reading" => at = to
  <2>1. PICK to \in 0 .. size : Reach(to)
    BY <1>4 DEF FInv, Download
  <2>2. \E b \in 0 .. size : Leads(Head(pipe), position, b) /\ Chain(Tail(pipe), size, b, to)
    BY <1>1, <2>1, ShorterChain DEF Reach
  <2> QED
    BY <2>1, <2>2 DEF Reach
<1> QED
  BY <1>2, <1>3, <1>4

\* The size or the result, which leave the file alone.
LEMMA OtherFrameKeeps ==
  ASSUME FInv, Handle, Head(pipe).type # "data"
  PROVE  FInv'
<1>1. /\ run = "running" /\ run' = "running" /\ pipe # <<>> /\ pipe' = Tail(pipe)
      /\ UNCHANGED <<kind, size, exists, local, position, nWritten, offset, at, server>>
      /\ expected' \in {expected, Head(pipe).n} /\ result' \in {result, Head(pipe).n}
  BY DEF Handle, HandleSize, HandleData, HandleResult, fileVars, worldVars
<1>2. /\ Head(pipe) \in Frames /\ Head(pipe).n \in Nat /\ Tail(pipe) \in Seq(Frames)
      /\ server # "opening"
  BY <1>1, NextFrame DEF Frames
<1>3. Types' /\ Control' /\ LocalIsPrefix' /\ OkMeansWhole'
  BY <1>1, <1>2 DEF FInv, Types, Control, LocalIsPrefix, OkMeansWhole, Bytes
<1>4. ASSUME Straight PROVE \E to \in 0 .. size : Reach(to)'
  <2>1. PICK to, b \in 0 .. size :
          /\ Leads(Head(pipe), position, b) /\ Chain(Tail(pipe), size, b, to)
          /\ server = "reading" => at = to
    BY <1>1, <1>4, NextFrame
  <2>2. b = position
    BY <2>1 DEF Leads
  <2>3. Reach(to)'
    BY <1>1, <1>2, <2>1, <2>2 DEF Reach
  <2> QED
    BY <2>3
<1>5. Download'
  BY <1>1, <1>4 DEF FInv, Download, Straight, Bytes
<1> QED
  BY <1>3, <1>5 DEF FInv

\* Data: the file ends where the frame leads.
LEMMA DataKeeps ==
  ASSUME FInv, Handle, Head(pipe).type = "data"
  PROVE  FInv'
<1> DEFINE bytes == Head(pipe).bytes
<1>1. /\ run = "running" /\ run' = "running" /\ pipe # <<>> /\ pipe' = Tail(pipe)
      /\ UNCHANGED <<kind, size, exists, offset, at, server, expected, result>>
      /\ nWritten' = nWritten + Len(bytes) /\ position' = position + Len(bytes)
      /\ local' = Written(local, position, bytes)
  BY DEF Handle, HandleSize, HandleData, HandleResult, Overwrite, Written, worldVars
<1>2. /\ bytes \in Seq(Nat) /\ Len(bytes) \in Nat /\ Tail(pipe) \in Seq(Frames)
      /\ server # "opening"
  BY <1>1, NextFrame DEF Frames
<1>3. /\ Types /\ local \in Seq(Nat) /\ position \in 0 .. Len(local) /\ position \in Nat
      /\ nWritten \in Nat /\ size \in Nat
  BY DEF FInv, Types
<1>4. local' \in Seq(Nat) /\ position' \in 0 .. Len(local') /\ nWritten' \in Nat
  BY <1>1, <1>2, <1>3, WrittenType, SMTT(30)
<1> HIDE DEF bytes
<1>5. Types'
  BY <1>1, <1>2, <1>3, <1>4 DEF Types
<1>6. Control' /\ OkMeansWhole'
  BY <1>1, <1>2 DEF FInv, Control, OkMeansWhole
<1>7. ASSUME Straight
      PROVE  /\ local' = Bytes(1, position + Len(bytes)) /\ nWritten' = position'
             /\ position + Len(bytes) \in 0 .. size
             /\ \E to \in 0 .. size : Reach(to)'
  <2>1. PICK to, b \in 0 .. size :
          /\ Leads(Head(pipe), position, b) /\ Chain(Tail(pipe), size, b, to)
          /\ server = "reading" => at = to
    BY <1>1, <1>7, NextFrame
  <2>2. b \in Nat /\ position <= b /\ bytes = Bytes(position + 1, b)
    BY <1>3, <2>1 DEF Leads, bytes
  <2>3. Len(bytes) = b - position
    BY <1>3, <2>2, BytesType
  <2>4. position + Len(bytes) = b
    BY <1>3, <2>2, <2>3
  <2>5. local = Bytes(1, position) /\ nWritten = position
    BY <1>1, <1>7 DEF FInv, Download
  <2>6. Len(local) = position
    BY <1>3, <2>5, FirstBytesType
  <2>7. local' = local \o bytes
    BY <1>1, <1>2, <1>3, <2>6, WrittenAtEnd
  <2>8. local' = Bytes(1, b)
    BY <1>3, <2>2, <2>5, <2>7, BytesConcat
  <2>9. Reach(to)'
    BY <1>1, <1>2, <2>1, <2>4 DEF Reach
  <2> QED
    BY <1>1, <2>4, <2>5, <2>8, <2>9
<1>8. LocalIsPrefix'
  <2>1. CASE kind = "regular"
    <3>1. local' = Bytes(1, position + Len(bytes)) /\ position + Len(bytes) \in 0 .. size
      BY <1>7, <2>1 DEF Straight
    <3>2. Len(local') = position + Len(bytes)
      BY <1>2, <1>3, <3>1, FirstBytesType
    <3> QED
      BY <1>1, <1>3, <3>1, <3>2 DEF LocalIsPrefix
  <2>2. CASE kind # "regular"
    BY <1>1, <2>2 DEF LocalIsPrefix
  <2> QED
    BY <2>1, <2>2
<1>9. Download'
  BY <1>1, <1>7 DEF Download, Straight, Bytes
<1> QED
  BY <1>5, <1>6, <1>8, <1>9 DEF FInv

LEMMA FinishKeeps ==
  ASSUME FInv, Finish
  PROVE  FInv'
<1>1. /\ run = "running" /\ pipe = <<>> /\ server' = "gone"
      /\ run' = IF result = 0 /\ nWritten = expected THEN "ok" ELSE "failed"
      /\ UNCHANGED <<kind, size, exists, local, position, nWritten, expected, result, offset, at, pipe>>
  BY DEF Finish, worldVars, fileVars
<1>2. Types' /\ Control' /\ LocalIsPrefix' /\ Download'
  BY <1>1 DEF FInv, Types, Control, LocalIsPrefix, Download, Bytes
<1>3. OkMeansWhole'
  <2>1. ASSUME run' = "ok", Straight PROVE local = Bytes(1, expected)
    BY <1>1, <2>1 DEF FInv, Download
  <2> QED
    BY <1>1, <2>1 DEF OkMeansWhole, Straight, Bytes
<1> QED
  BY <1>2, <1>3 DEF FInv

\* A kill in the middle of a write leaves some of the frame's data behind.
LEMMA KillKeeps ==
  ASSUME FInv, Kill
  PROVE  FInv'
<1>1. /\ run = "running" /\ run' = "killed" /\ server' = "gone" /\ pipe' = <<>>
      /\ UNCHANGED <<kind, size, exists, nWritten, expected, result, offset, at>>
  BY DEF Kill, Overwrite, fileVars
<1>2. /\ Types /\ local \in Seq(Nat) /\ position \in 0 .. Len(local) /\ position \in Nat
      /\ size \in Nat /\ exists
  BY <1>1 DEF FInv, Types, Control
<1>3. local' \in Seq(Nat) /\ position' \in 0 .. Len(local') /\ LocalIsPrefix'
  <2>1. CASE pipe # <<>> /\ Head(pipe).type = "data"
    <3> DEFINE bytes == Head(pipe).bytes
    <3>1. /\ bytes \in Seq(Nat) /\ Len(bytes) \in Nat
      BY <1>1, <2>1, NextFrame DEF Frames
    <3>2. PICK m \in 0 .. Len(bytes) :
            /\ local' = Written(local, position, SubSeq(bytes, 1, m))
            /\ position' = position + Len(SubSeq(bytes, 1, m))
      BY <2>1 DEF Kill, Overwrite, Written
    <3> DEFINE part == SubSeq(bytes, 1, m)
    <3>3. part \in Seq(Nat) /\ Len(part) = m
      BY <3>1
    <3>4. local' \in Seq(Nat) /\ position' \in 0 .. Len(local')
      <4>1. local' = Written(local, position, part) /\ position' = position + Len(part)
        BY <3>2
      <4> HIDE DEF part
      <4>2. local' \in Seq(Nat) /\ position + Len(part) <= Len(local')
        BY <1>2, <3>3, <4>1, WrittenType
      <4> QED
        BY <1>2, <3>3, <4>1, <4>2
    <3>5. ASSUME kind = "regular" PROVE Len(local') <= size /\ local' = Bytes(1, Len(local'))
      <4>1. PICK b \in 0 .. size : Leads(Head(pipe), position, b)
        BY <1>1, <2>1, <3>5, NextFrame DEF Straight
      <4>2. b \in Nat /\ position <= b /\ bytes = Bytes(position + 1, b)
        BY <1>2, <2>1, <4>1 DEF Leads
      <4>3. Len(bytes) = b - position
        BY <1>2, <4>2, BytesType
      <4>4. m \in 0 .. b - position
        BY <4>3
      <4>5. part = Bytes(position + 1, position + m)
        BY <1>2, <4>2, <4>4, BytesPrefix
      <4>6. local = Bytes(1, position)
        BY <1>1, <3>5 DEF FInv, Download, Straight
      <4>7. Len(local) = position
        BY <1>2, <4>6, FirstBytesType
      <4> HIDE DEF part, bytes
      <4>8. local' = local \o part
        BY <1>2, <3>2, <3>3, <4>7, WrittenAtEnd DEF part
      <4>9. position + m \in Nat /\ position <= position + m /\ position + m <= size
        BY <1>2, <4>2, <4>4
      <4>10. local' = Bytes(1, position + m)
        BY <1>2, <4>5, <4>6, <4>8, <4>9, BytesConcat
      <4>11. Len(local') = position + m
        BY <4>9, <4>10, FirstBytesType
      <4> QED
        BY <4>9, <4>10, <4>11
    <3> QED
      BY <1>1, <3>4, <3>5 DEF LocalIsPrefix, Bytes
  <2>2. CASE ~(pipe # <<>> /\ Head(pipe).type = "data")
    <3>1. local' = local /\ position' = position
      BY <2>2 DEF Kill, fileVars
    <3> QED
      BY <1>1, <1>2, <3>1 DEF FInv, LocalIsPrefix, Bytes
  <2> QED
    BY <2>1, <2>2
<1>4. Types'
  BY <1>1, <1>2, <1>3 DEF Types
<1>5. Control' /\ Download' /\ OkMeansWhole'
  BY <1>1, <1>2 DEF Control, Download, OkMeansWhole
<1> QED
  BY <1>3, <1>4, <1>5 DEF FInv

----------------------------------------------------------------------------
(* The steps of the server and of the world.                               *)

\* A step that leaves the local file alone and changes only what is on its way.
LEMMA ServerKeeps ==
  ASSUME FInv,
         UNCHANGED <<exists, local, position, run, nWritten, expected, result, kind, offset>>,
         Types', server' # "gone" => server # "gone", server' = "opening" => pipe' = <<>>,
         size <= size',
         run = "running" /\ Straight => \E to \in 0 .. size' : Reach(to)'
  PROVE  FInv'
<1>1. Control' /\ OkMeansWhole'
  BY DEF FInv, Control, OkMeansWhole, Bytes
<1>2. LocalIsPrefix'
  <2>1. Len(local) \in Nat /\ size \in Nat /\ size' \in Nat
    BY DEF FInv, Types
  <2> QED
    BY <2>1 DEF FInv, LocalIsPrefix, Bytes
<1>3. Download'
  BY DEF FInv, Download, Straight, Bytes
<1> QED
  BY <1>1, <1>2, <1>3 DEF FInv

\* What a frame that is neither data nor the first adds.
LEMMA ServeErrorKeeps ==
  ASSUME FInv, ServeError
  PROVE  FInv'
<1> DEFINE frame == Frame("result", 1, <<>>)
<1>1. /\ UNCHANGED <<kind, size, exists, local, position, run, nWritten, expected, result, offset, at>>
      /\ server \in {"opening", "reading"} /\ server' = "answered" /\ pipe' = pipe \o <<frame>>
  BY DEF ServeError, Answer, fileVars, runVars
<1>2. frame \in Frames /\ frame.type = "result"
  BY DEF Frame, Frames
<1>3. Types /\ pipe \in Seq(Frames) /\ size \in Nat /\ position \in Nat
  BY DEF FInv, Types
<1> HIDE DEF frame
<1>4. Types'
  BY <1>1, <1>2, <1>3 DEF Types
<1>5. ASSUME run = "running", Straight PROVE \E to \in 0 .. size' : Reach(to)'
  <2>1. PICK to \in 0 .. size : Reach(to)
    BY <1>5 DEF FInv, Download
  <2>2. Chain(pipe \o <<frame>>, size, position, to)
    BY <1>2, <1>3, <2>1, LongerChain DEF Reach, Leads
  <2>3. Reach(to)'
    BY <1>1, <2>2 DEF Reach
  <2> QED
    BY <1>1, <2>3
<1> QED
  BY <1>1, <1>3, <1>4, <1>5, ServerKeeps

LEMMA ServeOpenKeeps ==
  ASSUME FInv, ServeOpen
  PROVE  FInv'
<1> DEFINE frame == Frame("size", size, <<>>)
<1>1. /\ UNCHANGED <<kind, size, exists, local, position, run, nWritten, expected, result, offset>>
      /\ server = "opening" /\ server' = "reading" /\ at' = ReadFrom /\ pipe' = pipe \o <<frame>>
  BY DEF ServeOpen, Answer, worldVars, fileVars, runVars
<1>2. Types /\ pipe \in Seq(Frames) /\ size \in Nat /\ position \in Nat /\ offset \in Nat \cup {-1}
  BY DEF FInv, Types
<1>3. frame \in Frames /\ frame.type = "size"
  BY <1>2 DEF Frame, Frames
<1> HIDE DEF frame
<1>4. Types'
  BY <1>1, <1>2, <1>3 DEF Types, ReadFrom
<1>5. ASSUME run = "running", Straight PROVE \E to \in 0 .. size' : Reach(to)'
  <2>1. PICK to \in 0 .. size : Reach(to)
    BY <1>5 DEF FInv, Download
  <2>2. Chain(pipe \o <<frame>>, size, position, to)
    BY <1>2, <1>3, <2>1, LongerChain DEF Reach, Leads
  <2>3. Reach(to)'
    BY <1>1, <2>1, <2>2 DEF Reach
  <2> QED
    BY <1>1, <2>3
<1> QED
  BY <1>1, <1>2, <1>4, <1>5, ServerKeeps

\* A generated file is sent from its start, which is where the local file is
\* unless it is continued.
LEMMA ServeSlurpKeeps ==
  ASSUME FInv, ServeSlurp
  PROVE  FInv'
<1> DEFINE first == Frame("size", size, <<>>)
           data  == Frame("data", 0, Bytes(1, size))
           last  == Frame("result", 0, <<>>)
           one   == <<>> \o <<first>>
           two   == one \o <<data>>
           three == two \o <<last>>
<1>1. /\ UNCHANGED <<kind, size, exists, local, position, run, nWritten, expected, result, offset, at>>
      /\ kind = "generated" /\ server = "opening" /\ server' = "answered"
      /\ pipe' = pipe \o <<first, data, last>>
  BY DEF ServeSlurp, Answer, worldVars, fileVars, runVars
<1>2. pipe = <<>>
  BY <1>1 DEF FInv, Control
<1>3. Types /\ size \in Nat /\ position \in Nat /\ offset \in Nat \cup {-1}
  BY DEF FInv, Types
<1>4. Bytes(1, size) \in Seq(Nat)
  BY <1>3, FirstBytesType
<1>5. /\ first \in Frames /\ data \in Frames /\ last \in Frames
      /\ first.type = "size" /\ last.type = "result"
      /\ data.type = "data" /\ data.bytes = Bytes(1, size)
  BY <1>3, <1>4 DEF Frame, Frames
<1> HIDE DEF first, data, last
<1>6. <<>> \in Seq(Frames) /\ one \in Seq(Frames) /\ two \in Seq(Frames) /\ three \in Seq(Frames)
  BY <1>5
<1>7. pipe' = three
  <2>1. <<first, data, last>> \in Seq(Frames)
    BY <1>5
  <2>2. pipe' = <<first, data, last>>
    BY <1>1, <1>2, <2>1, ConcatEmptySeq
  <2>3. one = <<first>>
    BY <1>5, ConcatEmptySeq
  <2>4. two = <<first, data>>
    BY <1>5, <2>3, Joined
  <2>5. three = <<first, data, last>>
    BY <1>5, <2>4, Joined, ZenonT(30)
  <2> QED
    BY <2>2, <2>5
<1> HIDE DEF one, two, three
<1>8. Types'
  BY <1>1, <1>3, <1>6, <1>7 DEF Types
<1>9. ASSUME run = "running", Straight PROVE \E to \in 0 .. size' : Reach(to)'
  <2>1. PICK to \in 0 .. size : Reach(to)
    BY <1>9 DEF FInv, Download
  <2>2. to = 0
    BY <1>1, <1>9, <2>1 DEF Reach, Straight, ReadFrom
  <2>3. Chain(<<>>, size, position, 0)
    BY <1>2, <2>1, <2>2 DEF Reach
  <2>4. Leads(first, 0, 0) /\ Leads(data, 0, size) /\ Leads(last, size, size)
    BY <1>3, <1>5 DEF Leads
  <2>5. 0 \in 0 .. size /\ size \in 0 .. size
    BY <1>3
  <2>6. Chain(one, size, position, 0)
    BY <1>3, <1>5, <1>6, <2>3, <2>4, <2>5, LongerChain DEF one
  <2>7. Chain(two, size, position, size)
    BY <1>3, <1>5, <1>6, <2>4, <2>5, <2>6, LongerChain DEF two
  <2>8. Chain(three, size, position, size)
    BY <1>3, <1>5, <1>6, <2>4, <2>5, <2>7, LongerChain DEF three
  <2>9. PICK end : end = size
    OBVIOUS
  <2>10. Reach(end)'
    BY <1>1, <1>7, <2>8, <2>9 DEF Reach
  <2> QED
    BY <1>1, <2>5, <2>9, <2>10
<1> QED
  BY <1>1, <1>3, <1>8, <1>9, ServerKeeps

LEMMA ServeReadKeeps ==
  ASSUME FInv, ServeRead
  PROVE  FInv'
<1>1. /\ UNCHANGED <<kind, size, exists, local, position, run, nWritten, expected, result, offset>>
      /\ server = "reading"
  BY DEF ServeRead, worldVars, fileVars, runVars
<1>2. Types /\ pipe \in Seq(Frames) /\ size \in Nat /\ position \in Nat /\ at \in Nat
  BY DEF FInv, Types
<1>3. CASE at < size
  <2>1. PICK n \in 1 .. ChunkMax :
          /\ at + n <= size /\ at' = at + n /\ server' = server
          /\ pipe' = pipe \o <<Frame("data", 0, Bytes(at + 1, at + n))>>
    BY <1>3 DEF ServeRead, Answer
  <2> DEFINE frame == Frame("data", 0, Bytes(at + 1, at + n))
  <2>2. n \in Nat /\ at + n \in 0 .. size /\ at <= at + n /\ at + n \in Nat
    BY <1>2, <2>1, FgetAssumption
  <2>3. Bytes(at + 1, at + n) \in Seq(Nat)
    BY <1>2, <2>2, BytesType
  <2>4. frame \in Frames /\ Leads(frame, at, at + n)
    BY <2>2, <2>3 DEF Frame, Frames, Leads
  <2> HIDE DEF frame
  <2>5. Types'
    BY <1>1, <1>2, <2>1, <2>2, <2>4 DEF Types, frame
  <2>6. ASSUME run = "running", Straight PROVE \E to \in 0 .. size' : Reach(to)'
    <3>1. Chain(pipe, size, position, at)
      BY <1>1, <2>6 DEF FInv, Download, Reach
    <3>2. Chain(pipe \o <<frame>>, size, position, at + n)
      BY <1>2, <2>2, <2>4, <3>1, LongerChain
    <3>3. PICK to : to = at + n
      OBVIOUS
    <3>4. Reach(to)'
      BY <1>1, <2>1, <3>2, <3>3 DEF Reach, frame
    <3> QED
      BY <1>1, <2>2, <3>3, <3>4
  <2> QED
    BY <1>1, <1>2, <2>1, <2>5, <2>6, ServerKeeps
<1>4. CASE ~(at < size)
  <2> DEFINE frame == Frame("result", 0, <<>>)
  <2>1. server' = "answered" /\ at' = at /\ pipe' = pipe \o <<frame>>
    BY <1>4 DEF ServeRead, Answer
  <2>2. frame \in Frames /\ frame.type = "result"
    BY DEF Frame, Frames
  <2> HIDE DEF frame
  <2>3. Types'
    BY <1>1, <1>2, <2>1, <2>2 DEF Types
  <2>4. ASSUME run = "running", Straight PROVE \E to \in 0 .. size' : Reach(to)'
    <3>1. PICK to \in 0 .. size : Reach(to)
      BY <2>4 DEF FInv, Download
    <3>2. Chain(pipe \o <<frame>>, size, position, to)
      BY <1>2, <2>2, <3>1, LongerChain DEF Reach, Leads
    <3>3. Reach(to)'
      BY <1>1, <2>1, <3>2 DEF Reach
    <3> QED
      BY <1>1, <3>3
  <2> QED
    BY <1>1, <1>2, <2>1, <2>3, <2>4, ServerKeeps
<1> QED
  BY <1>3, <1>4

LEMMA GrowKeeps ==
  ASSUME FInv, Grow
  PROVE  FInv'
<1>1. /\ UNCHANGED <<kind, exists, local, position, run, nWritten, expected, result, offset, at, server, pipe>>
      /\ size' = size + 1
  BY DEF Grow, fileVars, runVars, serverVars
<1>2. Types /\ size \in Nat /\ Types'
  BY <1>1 DEF FInv, Types
<1>3. ASSUME run = "running", Straight PROVE \E to \in 0 .. size' : Reach(to)'
  <2>1. PICK to \in 0 .. size : Reach(to)
    BY <1>3 DEF FInv, Download
  <2>2. Chain(pipe, size + 1, position, to)
    BY <1>2, <2>1, RoomierChain DEF Reach
  <2>3. Reach(to)' /\ to \in 0 .. size'
    BY <1>1, <1>2, <2>1, <2>2 DEF Reach, ReadFrom
  <2> QED
    BY <2>3
<1>4. server = "opening" => pipe = <<>>
  BY DEF FInv, Control
<1> QED
  BY <1>1, <1>2, <1>3, <1>4, ServerKeeps

LEMMA CutKeeps ==
  ASSUME FInv, Cut
  PROVE  FInv'
<1>1. /\ UNCHANGED <<kind, size, exists, local, position, run, nWritten, expected, result, offset, at>>
      /\ server' = "gone"
  BY DEF Cut, fileVars, runVars
<1>2. PICK m \in 0 .. Len(pipe) : pipe' = SubSeq(pipe, 1, m)
  BY DEF Cut
<1>3. Types /\ pipe \in Seq(Frames) /\ size \in Nat /\ position \in Nat
  BY DEF FInv, Types
<1>4. SubSeq(pipe, 1, m) \in Seq(Frames)
  BY <1>3
<1>5. Types'
  BY <1>1, <1>2, <1>3, <1>4 DEF Types
<1>6. ASSUME run = "running", Straight PROVE \E to \in 0 .. size' : Reach(to)'
  <2>1. PICK to \in 0 .. size : Reach(to)
    BY <1>6 DEF FInv, Download
  <2>2. PICK b \in 0 .. size : Chain(SubSeq(pipe, 1, m), size, position, b)
    BY <1>3, <2>1, CutChain DEF Reach
  <2>3. Reach(b)'
    BY <1>1, <1>2, <2>2 DEF Reach
  <2> QED
    BY <1>1, <2>3
<1> QED
  BY <1>1, <1>3, <1>5, <1>6, ServerKeeps

\* Nothing happens to the download.
LEMMA StutterKeeps ==
  ASSUME FInv, UNCHANGED vars
  PROVE  FInv'
<1>1. UNCHANGED <<kind, size, exists, local, position, run, nWritten, expected, result, offset, at, server, pipe>>
  BY DEF vars, worldVars, fileVars, runVars, serverVars
<1>2. Types'
  BY <1>1 DEF FInv, Types
<1>3. Control' /\ LocalIsPrefix' /\ OkMeansWhole'
  BY <1>1 DEF FInv, Control, LocalIsPrefix, OkMeansWhole, Bytes
<1>4. Download'
  BY <1>1 DEF FInv, Download, Straight, Reach, ReadFrom, Chain, Leads, Bytes
<1> QED
  BY <1>2, <1>3, <1>4 DEF FInv

LEMMA FgetInvariant == Spec => []FInv
<1>1. Init => FInv
  BY FgetInit
<1>2. FInv /\ [Next]_vars => FInv'
  <2> SUFFICES ASSUME FInv, [Next]_vars PROVE FInv'
    OBVIOUS
  <2>1. ASSUME NEW option \in Options, Start(option) PROVE FInv'
    BY <2>1, StartKeeps
  <2>2. CASE Handle
    BY <2>2, DataKeeps, OtherFrameKeeps
  <2>3. CASE Finish
    BY <2>3, FinishKeeps
  <2>4. CASE Kill
    BY <2>4, KillKeeps
  <2>5. CASE ServeError
    BY <2>5, ServeErrorKeeps
  <2>6. CASE ServeOpen
    BY <2>6, ServeOpenKeeps
  <2>7. CASE ServeSlurp
    BY <2>7, ServeSlurpKeeps
  <2>8. CASE ServeRead
    BY <2>8, ServeReadKeeps
  <2>9. CASE Grow
    BY <2>9, GrowKeeps
  <2>10. CASE Cut
    BY <2>10, CutKeeps
  <2>11. CASE UNCHANGED vars
    BY <2>11, StutterKeeps
  <2> QED
    BY <2>1, <2>2, <2>3, <2>4, <2>5, <2>6, <2>7, <2>8, <2>9, <2>10, <2>11 DEF Next, Client, Server
<1> QED
  BY <1>1, <1>2, PTL DEF Spec

\* However often fget is killed, cut off or refused, and however the file grows
\* meanwhile, the local file is the beginning of the one on the server: fget.cc
\* continues (open_file) where the data it wrote ends, and nowhere else.
THEOREM DownloadsArePrefixes == Spec => []LocalIsPrefix
<1>1. FInv => LocalIsPrefix
  BY DEF FInv
<1> QED
  BY <1>1, FgetInvariant, PTL

\* When fget reports success, the local file has every byte up to the size that
\* was announced, whatever was interrupted before (fget.cc, main).
THEOREM SuccessMeansWhole == Spec => []OkMeansWhole
<1>1. FInv => OkMeansWhole
  BY DEF FInv
<1> QED
  BY <1>1, FgetInvariant, PTL
=============================================================================
