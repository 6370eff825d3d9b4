--------------------------- MODULE InteractProofs ---------------------------
(***************************************************************************)
(* What interact's update thread sends is the image, and the image is the  *)
(* raster: for rasters of any size, in chunks of any size, whatever the    *)
(* author draws meanwhile and however the pieces of the two threads'       *)
(* frames mix.                                                             *)
(***************************************************************************)
EXTENDS Interact, SequenceTheorems, TLAPS

Image == [Rows -> 0 .. MaxUpdates]

Piece == [id : {1, 255}, part : Nat, offset : Nat, data : Seq(0 .. MaxUpdates)]

Typed ==
  /\ raster \in Image /\ image \in Image /\ shown \in Image
  /\ undrawn \subseteq Rows /\ ready \in BOOLEAN
  /\ pc \in {"status", "wait", "copy", "write", "sending", "shutdown", "ended"}
  /\ main \in {"ask", "loop", "cancel", "join", "exited", "died"}
  /\ cancelled \in BOOLEAN
  /\ part \in 0 .. Pieces - 1 /\ nCopied \in 0 .. Height
  /\ out \in Seq(Piece) /\ Len(out) <= PipeCap
  /\ replies \in Seq({0, 1}) /\ Len(replies) <= ReplyCap
  /\ \A k \in 1 .. Len(out) : Len(out[k].data) * Stride <= MaxPayload

\* write_image advances by whole rows.
WholeRows == \E w \in 0 .. Height : nWritten = w * Stride

\* The seed follows the author, and nobody draws but in an update.
Seeds ==
  /\ updates \in Nat /\ syncSeed \in Nat /\ seed \in Nat
  /\ seed <= syncSeed /\ syncSeed <= updates
  /\ undrawn # {} => syncSeed < updates /\ updates <= MaxUpdates

\* What has been copied since the last update's seed was read is the raster.
Current ==
  seed = updates => \A r \in Rows : (pc = "copy" => r <= nCopied) => image[r] = raster[r]

\* What has been written of the image will be shown.
Sent ==
  pc \in {"status", "wait", "shutdown", "write"} /\ main \in {"ask", "loop"} /\ 1 \notin Range(replies)
    => \A r \in Rows : (pc = "write" => r * Stride <= nWritten) => Arrives(r, image[r])

\* Only main, when it leaves its loop, cancels the thread, and only then may it
\* be too late for write_all to notice.
Cancelling == (pc = "sending" => cancelled) /\ (cancelled => main \notin {"ask", "loop"})

InteractInv == Typed /\ WholeRows /\ Seeds /\ Current /\ Sent /\ Cancelling

----------------------------------------------------------------------------
(* Arithmetic of rows and bytes.                                           *)

LEMMA LessRows ==
  ASSUME NEW a \in Int, NEW b \in Int, NEW s \in Nat \ {0}
  PROVE  /\ a * s < b * s <=> a < b
         /\ a * s <= b * s <=> a <= b
         /\ a * s = b * s <=> a = b
<1>1. (a - b) * s = a * s - b * s
  OBVIOUS
<1>2. ASSUME NEW d \in Int, d >= 1 PROVE d * s >= 1
  <2>1. PICK e \in Nat : d = e + 1
    <3>1. d - 1 \in Nat /\ d = (d - 1) + 1
      BY <1>2
    <3> QED
      BY <3>1
  <2>2. e * s \in Nat /\ (e + 1) * s = e * s + s
    OBVIOUS
  <2> QED
    BY <2>1, <2>2
<1>3. CASE a - b >= 1
  BY <1>1, <1>2, <1>3
<1>4. CASE b - a >= 1
  <2>1. (b - a) * s >= 1 /\ (b - a) * s = b * s - a * s
    BY <1>2, <1>4
  <2> QED
    BY <1>4, <2>1
<1>5. CASE a = b
  BY <1>5
<1> QED
  BY <1>3, <1>4, <1>5

LEMMA RowsOfBytes ==
  ASSUME NEW a \in Nat, NEW s \in Nat \ {0}
  PROVE  (a * s) \div s = a
<1> DEFINE q == (a * s) \div s
<1>1. a * s \in Nat
  OBVIOUS
<1>2. q \in Int /\ q * s <= a * s /\ a * s < (q + 1) * s
  BY <1>1
<1> HIDE DEF q
<1>3. q <= a /\ a < q + 1
  BY <1>2, LessRows
<1> QED
  BY <1>2, <1>3 DEF q

\* A chunk has a row, if the image has one, and no more than fit in a frame.
LEMMA ChunkRows ==
  /\ ChunkHeight \in 1 .. Height
  /\ ChunkHeight * Stride <= MaxPayload
<1> DEFINE q == MaxPayload \div Stride
<1>1. q \in Int /\ q * Stride <= MaxPayload /\ MaxPayload < (q + 1) * Stride
  BY InteractAssumption
<1> HIDE DEF q
<1>2. 1 * Stride < (q + 1) * Stride
  BY <1>1, InteractAssumption
<1>3. q >= 1
  BY <1>1, <1>2, LessRows, InteractAssumption
<1>4. ChunkHeight = IF Height < q THEN Height ELSE q
  BY DEF ChunkHeight, q
<1>5. CASE Height < q
  <2>1. Height * Stride < q * Stride
    BY <1>1, <1>5, LessRows, InteractAssumption
  <2> QED
    BY <1>1, <1>4, <1>5, <2>1, InteractAssumption
<1> QED
  BY <1>1, <1>3, <1>4, <1>5, InteractAssumption

\* write_image sends c rows from row w + 1 on, none only when all are sent.
LEMMA SizeIs ==
  ASSUME NEW w \in 0 .. Height, nWritten = w * Stride
  PROVE  \E c \in 0 .. Height - w :
           /\ Size = c * Stride /\ c * Stride <= MaxPayload
           /\ c = 0 <=> w = Height
           /\ nWritten + Size = (w + c) * Stride
           /\ nWritten \div Stride = w /\ (nWritten + Size) \div Stride = w + c
<1> DEFINE h == ChunkHeight
<1>1. h \in 1 .. Height /\ h * Stride <= MaxPayload
  BY ChunkRows
<1>2. ChunkSize = h * Stride /\ ImageSize = Height * Stride
  BY DEF ChunkSize, ImageSize
<1> HIDE DEF h
<1>3. ImageSize - ChunkSize = (Height - h) * Stride
  BY <1>1, <1>2, InteractAssumption
<1>4. nWritten < ImageSize - ChunkSize <=> w < Height - h
  BY <1>1, <1>3, LessRows, InteractAssumption
<1>5. PICK c \in 0 .. Height - w :
        /\ c <= h /\ Size = c * Stride /\ (c = 0 <=> w = Height)
  <2>1. CASE w < Height - h
    <3>1. h \in 0 .. Height - w /\ h # 0 /\ w # Height
      BY <1>1, <2>1, InteractAssumption
    <3> QED
      BY <1>1, <1>2, <1>4, <2>1, <3>1 DEF Size
  <2>2. CASE ~(w < Height - h)
    <3>1. Height - w \in 0 .. Height - w /\ Height - w <= h /\ (Height - w = 0 <=> w = Height)
      BY <1>1, <2>2, InteractAssumption
    <3>2. Size = Height * Stride - w * Stride
      BY <1>2, <1>4, <2>2 DEF Size
    <3>3. Height * Stride - w * Stride = (Height - w) * Stride
      BY InteractAssumption
    <3> QED
      BY <3>1, <3>2, <3>3
  <2> QED
    BY <2>1, <2>2
<1>6. c * Stride <= MaxPayload
  <2>1. c \in Int /\ h \in Int /\ Stride \in Nat \ {0} /\ Height \in Nat
    BY <1>1, InteractAssumption
  <2>2. c * Stride <= h * Stride <=> c <= h
    BY <2>1, LessRows, Zenon
  <2>3. c * Stride \in Int /\ h * Stride \in Int
    BY <2>1
  <2> QED
    BY <1>1, <1>5, <2>2, <2>3, InteractAssumption
<1>7. nWritten + Size = (w + c) * Stride
  <2>1. w * Stride + c * Stride = (w + c) * Stride
    BY InteractAssumption
  <2> QED
    BY <1>5, <2>1
<1>8. w \in Nat /\ w + c \in Nat
  BY InteractAssumption
<1>9. nWritten \div Stride = w /\ (nWritten + Size) \div Stride = w + c
  BY <1>7, <1>8, RowsOfBytes, InteractAssumption
<1>10. c = 0 <=> w = Height
  BY <1>5
<1> QED
  BY <1>5, <1>6, <1>7, <1>9, <1>10

----------------------------------------------------------------------------
(* What arrives.                                                           *)

LEMMA Unmoved ==
  ASSUME UNCHANGED <<out, shown>>, NEW r, NEW v, Arrives(r, v)
  PROVE  Arrives(r, v)'
  BY DEF Arrives

LEMMA Added ==
  ASSUME Typed, NEW p, out' = Append(out, p), shown' = shown, NEW r, NEW v \in 0 .. MaxUpdates
  PROVE  /\ ~Covers(p, r) /\ Arrives(r, v) => Arrives(r, v)'
         /\ Brings(p, r, v) => Arrives(r, v)'
<1>1. PICK n \in Nat : n = Len(out) /\ DOMAIN out = 1 .. n
  BY DEF Typed
<1>2. /\ DOMAIN out' = 1 .. n + 1 /\ out'[n + 1] = p
      /\ \A k \in 1 .. n : out'[k] = out[k]
  BY <1>1 DEF Typed
<1>3. \A k \in 1 .. n + 1 : k \in 1 .. n \/ k = n + 1
  BY <1>1
<1>4. ASSUME ~Covers(p, r), Arrives(r, v) PROVE Arrives(r, v)'
  <2>1. CASE shown[r] = v /\ \A k \in 1 .. n : ~Covers(out[k], r)
    <3>1. \A k \in 1 .. n + 1 : ~Covers(out'[k], r)
      BY <1>2, <1>3, <1>4, <2>1
    <3> QED
      BY <1>2, <2>1, <3>1 DEF Arrives
  <2>2. CASE \E k \in 1 .. n : Brings(out[k], r, v) /\ \A l \in 1 .. n : l > k => ~Covers(out[l], r)
    <3>1. PICK k \in 1 .. n : Brings(out[k], r, v) /\ \A l \in 1 .. n : l > k => ~Covers(out[l], r)
      BY <2>2
    <3>2. k \in 1 .. n + 1 /\ Brings(out'[k], r, v)
      BY <1>1, <1>2, <3>1
    <3>3. \A l \in 1 .. n + 1 : l > k => ~Covers(out'[l], r)
      BY <1>2, <1>3, <1>4, <3>1
    <3> QED
      BY <1>2, <3>2, <3>3 DEF Arrives
  <2> QED
    BY <1>1, <1>4, <2>1, <2>2 DEF Arrives
<1>5. ASSUME Brings(p, r, v) PROVE Arrives(r, v)'
  <2>1. n + 1 \in 1 .. n + 1 /\ \A l \in 1 .. n + 1 : ~(l > n + 1)
    BY <1>1
  <2> QED
    BY <1>2, <1>5, <2>1 DEF Arrives
<1> QED
  BY <1>4, <1>5

LEMMA Taken ==
  ASSUME Typed, out # <<>>, out' = Tail(out), NEW r, NEW v \in 0 .. MaxUpdates,
         Brings(Head(out), r, v) => shown'[r] = v,
         ~Covers(Head(out), r) => shown'[r] = shown[r],
         Arrives(r, v)
  PROVE  Arrives(r, v)'
<1>1. PICK n \in Nat : n = Len(out) /\ DOMAIN out = 1 .. n /\ n >= 1
  <2>1. Len(out) \in Nat /\ Len(out) # 0 /\ DOMAIN out = 1 .. Len(out)
    BY EmptySeq, LenProperties DEF Typed
  <2>2. Len(out) >= 1
    BY <2>1
  <2> QED
    BY <2>1, <2>2, Zenon
<1>2. /\ DOMAIN out' = 1 .. n - 1 /\ Head(out) = out[1]
      /\ \A k \in 1 .. n - 1 : out'[k] = out[k + 1]
  <2>1. /\ Tail(out) \in Seq(Piece) /\ Len(Tail(out)) = n - 1 /\ Head(out) = out[1]
        /\ \A k \in 1 .. n - 1 : Tail(out)[k] = out[k + 1]
    BY <1>1, HeadTailProperties DEF Typed
  <2>2. DOMAIN Tail(out) = 1 .. n - 1
    BY <2>1
  <2> QED
    BY <2>1, <2>2, Zenon
<1>3. /\ 1 \in 1 .. n
      /\ \A k \in 1 .. n - 1 : k + 1 \in 1 .. n /\ k + 1 > 1
      /\ \A k, l \in 1 .. n - 1 : l > k => l + 1 > k + 1
  BY <1>1
<1>4. ASSUME \A k \in 1 .. n - 1 : ~Covers(out[k + 1], r), shown'[r] = v PROVE Arrives(r, v)'
  BY <1>2, <1>4 DEF Arrives
<1>5. CASE shown[r] = v /\ \A k \in 1 .. n : ~Covers(out[k], r)
  BY <1>2, <1>3, <1>4, <1>5
<1>6. CASE \E k \in 1 .. n : Brings(out[k], r, v) /\ \A l \in 1 .. n : l > k => ~Covers(out[l], r)
  <2>1. PICK k \in 1 .. n : Brings(out[k], r, v) /\ \A l \in 1 .. n : l > k => ~Covers(out[l], r)
    BY <1>6
  <2>2. CASE k = 1
    BY <1>2, <1>3, <1>4, <2>1, <2>2
  <2>3. CASE k # 1
    <3>1. PICK j \in 1 .. n - 1 : k = j + 1
      <4>1. k - 1 \in 1 .. n - 1 /\ k = (k - 1) + 1
        BY <1>1, <2>3
      <4> QED
        BY <4>1
    <3>2. Brings(out'[j], r, v)
      BY <1>2, <2>1, <3>1
    <3>3. \A l \in 1 .. n - 1 : l > j => ~Covers(out'[l], r)
      BY <1>2, <1>3, <2>1, <3>1
    <3> QED
      BY <1>2, <3>2, <3>3 DEF Arrives
  <2> QED
    BY <2>2, <2>3
<1> QED
  BY <1>1, <1>5, <1>6 DEF Arrives

----------------------------------------------------------------------------
(* Steps.                                                                  *)

LEMMA AuthorKeeps ==
  ASSUME InteractInv, Author
  PROVE  InteractInv'
<1>1. UNCHANGED <<threadVars, mainVars, wireVars, serverVars>>
  BY DEF Author, BeginUpdate, Draw, Publish, Quit
<1>2. UNCHANGED <<pc, image, nCopied, nWritten, part, seed, main, cancelled, out, shown, replies>>
  BY <1>1 DEF threadVars, mainVars, wireVars, serverVars
<1>3. WholeRows' /\ Cancelling'
  BY <1>2 DEF InteractInv, WholeRows, Cancelling
<1>4. Sent'
  BY <1>2, Unmoved DEF InteractInv, Sent
<1>5. raster' \in Image /\ undrawn' \subseteq Rows /\ ready' \in BOOLEAN /\ Seeds'
  <2>1. CASE BeginUpdate
    BY <1>2, <2>1, InteractAssumption DEF BeginUpdate, InteractInv, Typed, Seeds
  <2>2. CASE Draw
    <3>1. updates \in 0 .. MaxUpdates
      BY <2>2, InteractAssumption DEF Draw, InteractInv, Seeds
    <3>2. raster' \in Image
      BY <2>2, <3>1 DEF Draw, InteractInv, Typed, Image
    <3> QED
      BY <1>2, <2>2, <3>2 DEF Draw, InteractInv, Typed, Seeds
  <2>3. CASE Publish
    BY <1>2, <2>3 DEF Publish, InteractInv, Typed, Seeds
  <2>4. CASE Quit
    <3>1. ready' \in BOOLEAN /\ UNCHANGED <<raster, undrawn>>
      BY <2>4 DEF Quit
    <3>2. undrawn' = {} /\ updates' = updates + 1 /\ syncSeed' = updates + 1
      BY <2>4 DEF Quit
    <3>3. Seeds'
      BY <1>2, <3>2 DEF InteractInv, Seeds
    <3> QED
      BY <3>1, <3>3 DEF InteractInv, Typed
  <2> QED
    BY <2>1, <2>2, <2>3, <2>4 DEF Author
<1>6. Typed'
  BY <1>2, <1>5 DEF InteractInv, Typed
<1>7. Current'
  <2>1. CASE BeginUpdate \/ Quit
    <3>1. seed' # updates'
      BY <1>2, <2>1 DEF BeginUpdate, Quit, InteractInv, Seeds
    <3> QED
      BY <3>1 DEF Current
  <2>2. CASE Draw
    <3>1. seed' # updates'
      BY <1>2, <2>2 DEF Draw, InteractInv, Seeds
    <3> QED
      BY <3>1 DEF Current
  <2>3. CASE Publish
    BY <1>2, <2>3 DEF Publish, InteractInv, Current
  <2> QED
    BY <2>1, <2>2, <2>3 DEF Author
<1> QED
  BY <1>3, <1>4, <1>5, <1>6, <1>7 DEF InteractInv

\* What the threads do apart from the image and the wire.
LEMMA QuietKeeps ==
  ASSUME InteractInv,
         CheckStatus \/ ImageWritten \/ Shutdown \/ TestCancel \/ Poll
  PROVE  InteractInv'
<1>1. UNCHANGED <<authorVars, seed, image, nCopied, nWritten, part, main, cancelled, out, shown, replies>>
  BY DEF CheckStatus, ImageWritten, Shutdown, TestCancel, Poll, vars, threadVars, mainVars, wireVars, serverVars
<1>2. UNCHANGED <<raster, undrawn, updates, syncSeed, ready, seed, image, nCopied, nWritten, part,
                  main, cancelled, out, shown, replies>>
  BY <1>1 DEF authorVars
<1>3. /\ pc' \in {"status", "wait", "copy", "write", "shutdown", "ended"}
      /\ pc' = "copy" => pc = "copy"
      /\ pc' = "write" => pc = "write"
  BY DEF CheckStatus, ImageWritten, Shutdown, TestCancel, Poll, vars, threadVars, InteractInv, Typed
<1>4. Typed' /\ WholeRows' /\ Seeds' /\ Cancelling'
  BY <1>2, <1>3 DEF InteractInv, Typed, WholeRows, Seeds, Cancelling
<1>5. Current'
  <2>1. ~ (pc = "copy" /\ pc' # "copy")
    BY DEF CheckStatus, ImageWritten, Shutdown, TestCancel, Poll, vars, threadVars
  <2> QED
    BY <1>2, <2>1 DEF InteractInv, Current
<1>6. Sent'
  <2> SUFFICES ASSUME pc' \in {"status", "wait", "shutdown", "write"}, main \in {"ask", "loop"},
                      1 \notin Range(replies), NEW r \in Rows,
                      pc' = "write" => r * Stride <= nWritten
               PROVE  Arrives(r, image[r])'
    BY <1>2 DEF Sent
  <2>1. pc \in {"status", "wait", "shutdown", "write"} /\ (pc = "write" => r * Stride <= nWritten)
    <3>1. CASE ImageWritten
      <4>1. PICK w \in 0 .. Height : nWritten = w * Stride
        BY DEF InteractInv, WholeRows
      <4>2. w = Height
        <5>1. PICK c \in 0 .. Height - w : Size = c * Stride /\ (c = 0 <=> w = Height)
          BY <4>1, SizeIs
        <5>2. 0 * Stride = c * Stride
          BY <3>1, <5>1, InteractAssumption DEF ImageWritten
        <5>3. c = 0
          BY <5>2, LessRows, InteractAssumption
        <5> QED
          BY <5>1, <5>3
      <4>3. r * Stride <= Height * Stride
        <5>1. r \in Int /\ Height \in Int /\ Stride \in Nat \ {0} /\ r <= Height
          BY InteractAssumption DEF Rows
        <5> QED
          BY <5>1, LessRows
      <4> QED
        BY <3>1, <4>1, <4>2, <4>3 DEF ImageWritten
    <3>2. CASE TestCancel
      BY <3>2 DEF TestCancel, InteractInv, Cancelling
    <3>3. CASE CheckStatus \/ Shutdown \/ Poll
      BY <3>3 DEF CheckStatus, Shutdown, Poll, vars, threadVars
    <3> QED
      BY <3>1, <3>2, <3>3
  <2>2. Arrives(r, image[r])
    BY <2>1 DEF InteractInv, Sent
  <2> QED
    BY <1>2, <2>2, Unmoved
<1> QED
  BY <1>4, <1>5, <1>6 DEF InteractInv

LEMMA CopyKeeps ==
  ASSUME InteractInv, SeedChanged \/ CopyRow \/ Copied
  PROVE  InteractInv'
<1>1. UNCHANGED <<authorVars, main, cancelled, out, shown, replies>>
  BY DEF SeedChanged, CopyRow, Copied, threadVars, mainVars, wireVars, serverVars
<1>2. UNCHANGED <<raster, undrawn, updates, syncSeed, ready, main, cancelled, out, shown, replies>>
  BY <1>1 DEF authorVars
<1>4. WholeRows'
  <2>1. CASE Copied
    <3>1. 0 \in 0 .. Height /\ 0 = 0 * Stride
      BY InteractAssumption
    <3> QED
      BY <2>1, <3>1 DEF Copied, WholeRows
  <2>2. CASE SeedChanged \/ CopyRow
    BY <2>2 DEF SeedChanged, CopyRow, InteractInv, WholeRows
  <2> QED
    BY <2>1, <2>2
<1>5. Seeds'
  BY <1>2 DEF SeedChanged, CopyRow, Copied, InteractInv, Seeds
<1>6. /\ image' \in Image /\ nCopied' \in 0 .. Height /\ part' \in 0 .. Pieces - 1
      /\ pc' \in {"copy", "write"}
  <2>1. CASE SeedChanged
    BY <2>1, InteractAssumption DEF SeedChanged, InteractInv, Typed
  <2>2. CASE CopyRow
    <3>1. nCopied + 1 \in Rows
      BY <2>2, InteractAssumption DEF CopyRow, InteractInv, Typed, Rows
    <3>2. image' \in Image
      BY <2>2, <3>1 DEF CopyRow, InteractInv, Typed, Image
    <3> QED
      BY <2>2, <3>1, <3>2 DEF CopyRow, InteractInv, Typed, Rows
  <2>3. CASE Copied
    BY <2>3, InteractAssumption DEF Copied, InteractInv, Typed
  <2> QED
    BY <2>1, <2>2, <2>3
<1>3. Cancelling'
  BY <1>2, <1>6 DEF InteractInv, Cancelling
<1>7. Typed'
  BY <1>2, <1>6 DEF InteractInv, Typed
<1>8. Current'
  <2>1. CASE SeedChanged
    <3>1. \A r \in Rows : ~(r <= nCopied')
      BY <2>1, InteractAssumption DEF SeedChanged, Rows
    <3> QED
      BY <2>1, <3>1 DEF SeedChanged, Current
  <2>2. CASE CopyRow
    <3>1. nCopied + 1 \in Rows /\ nCopied' = nCopied + 1 /\ nCopied \in Nat
      BY <2>2, InteractAssumption DEF CopyRow, InteractInv, Typed, Rows
    <3>2. /\ image'[nCopied + 1] = raster[nCopied + 1]
          /\ \A r \in Rows : r # nCopied + 1 => image'[r] = image[r]
      BY <2>2, <3>1 DEF CopyRow, InteractInv, Typed, Image
    <3>3. \A r \in Rows : r <= nCopied + 1 => r <= nCopied \/ r = nCopied + 1
      BY <3>1 DEF Rows
    <3> QED
      BY <1>2, <2>2, <3>1, <3>2, <3>3 DEF CopyRow, InteractInv, Current
  <2>3. CASE Copied
    <3>1. \A r \in Rows : r <= nCopied
      BY <2>3, InteractAssumption DEF Copied, Rows
    <3> QED
      BY <1>2, <2>3, <3>1 DEF Copied, InteractInv, Current
  <2> QED
    BY <2>1, <2>2, <2>3
<1>9. Sent'
  <2>1. CASE SeedChanged \/ CopyRow
    BY <2>1 DEF SeedChanged, CopyRow, Sent
  <2>2. CASE Copied
    <3>1. ASSUME NEW r \in Rows PROVE ~(r * Stride <= nWritten')
      <4>1. r \in Int /\ 0 < r /\ Stride \in Nat \ {0} /\ 0 * Stride = 0 /\ r * Stride \in Int
        BY InteractAssumption DEF Rows
      <4>2. 0 < r * Stride
        BY <4>1, LessRows
      <4> QED
        BY <2>2, <4>1, <4>2 DEF Copied
    <3> QED
      BY <2>2, <3>1 DEF Copied, Sent
  <2> QED
    BY <2>1, <2>2
<1> QED
  BY <1>3, <1>4, <1>5, <1>7, <1>8, <1>9 DEF InteractInv

LEMMA RowSequence ==
  ASSUME NEW S, NEW n \in Nat, NEW f \in [1 .. n -> S]
  PROVE  f \in Seq(S) /\ Len(f) = n
  OBVIOUS

\* A piece of a chunk: the rows it brings are the image's.
LEMMA ChunkIs ==
  ASSUME Typed, NEW w \in 0 .. Height, nWritten = w * Stride, NEW k \in Nat
  PROVE  \E c \in 0 .. Height - w :
           /\ Size = c * Stride /\ nWritten + Size = (w + c) * Stride
           /\ Chunk(k) \in Piece /\ Len(Chunk(k).data) * Stride <= MaxPayload
           /\ \A r \in Rows :
                /\ r <= w => ~Covers(Chunk(k), r)
                /\ w < r /\ r <= w + c /\ k = Pieces => Brings(Chunk(k), r, image[r])
                /\ \A v : Brings(Chunk(k), r, v) => v = image[r]
<1>1. PICK c \in 0 .. Height - w :
        /\ Size = c * Stride /\ c * Stride <= MaxPayload
        /\ nWritten + Size = (w + c) * Stride
        /\ nWritten \div Stride = w /\ (nWritten + Size) \div Stride = w + c
  BY SizeIs
<1> DEFINE rows == SubSeq(image, w + 1, w + c)
<1>2. \A j \in 1 .. c : w + j \in Rows
  BY <1>1, InteractAssumption DEF Rows
<1>3. image \in Seq(0 .. MaxUpdates) /\ Len(image) = Height
  <2>1. image \in [1 .. Height -> 0 .. MaxUpdates] /\ Height \in Nat
    BY InteractAssumption DEF Typed, Image, Rows
  <2> QED
    BY <2>1, RowSequence
<1>4. /\ rows \in Seq(0 .. MaxUpdates) /\ Len(rows) = c
      /\ \A j \in 1 .. c : rows[j] = image[w + j]
  <2>1. w + 1 \in Nat /\ w + c \in Nat /\ w + c <= Height /\ 1 <= w + 1 /\ Height \in Nat
    BY InteractAssumption
  <2>2. w + 1 <= w + c + 1 /\ (w + c) - (w + 1) + 1 = c
    BY <2>1
  <2>3. rows = [j \in 1 .. c |-> image[w + j]]
    BY <2>1, <2>2
  <2>4. \A j \in 1 .. c : image[w + j] \in 0 .. MaxUpdates
    BY <1>2 DEF Typed, Image
  <2>5. [j \in 1 .. c |-> image[w + j]] \in Seq(0 .. MaxUpdates) /\ Len([j \in 1 .. c |-> image[w + j]]) = c
    BY <2>4, InteractAssumption
  <2> QED
    BY <2>3, <2>5
<1>5. DOMAIN rows = 1 .. c
  BY <1>4
<1> HIDE DEF rows
<1>6. Chunk(k) = [id |-> 255, part |-> k, offset |-> nWritten, data |-> rows]
  BY <1>1 DEF Chunk, rows
<1>7. nWritten \in Nat
  BY InteractAssumption
<1>8. Chunk(k) \in Piece
  BY <1>4, <1>6, <1>7 DEF Piece
<1>9. \A r, v : Brings(Chunk(k), r, v) <=> k = Pieces /\ r - w \in 1 .. c /\ rows[r - w] = v
  BY <1>1, <1>5, <1>6 DEF Brings
<1>10. ASSUME NEW r \in Rows
       PROVE  /\ r <= w => ~Covers(Chunk(k), r)
              /\ w < r /\ r <= w + c /\ k = Pieces => Brings(Chunk(k), r, image[r])
              /\ \A v : Brings(Chunk(k), r, v) => v = image[r]
  <2>1. r \in Int /\ w \in Int /\ c \in Int
    BY InteractAssumption DEF Rows
  <2>2. ASSUME r - w \in 1 .. c PROVE rows[r - w] = image[r]
    <3>1. w + (r - w) = r
      BY <2>1
    <3> QED
      BY <1>4, <2>2, <3>1
  <2>3. r <= w => ~(r - w \in 1 .. c)
    BY <2>1
  <2>4. w < r /\ r <= w + c => r - w \in 1 .. c
    BY <2>1
  <2>5. r <= w => ~Covers(Chunk(k), r)
    BY <1>9, <2>3 DEF Covers
  <2>6. w < r /\ r <= w + c /\ k = Pieces => Brings(Chunk(k), r, image[r])
    BY <1>9, <2>2, <2>4
  <2>7. \A v : Brings(Chunk(k), r, v) => v = image[r]
    BY <1>9, <2>2
  <2> QED
    BY <2>5, <2>6, <2>7
<1>11. Len(Chunk(k).data) * Stride <= MaxPayload
  BY <1>1, <1>4, <1>6
<1> QED
  BY <1>1, <1>8, <1>10, <1>11

\* A piece is added at the far end of the pipe.
LEMMA PieceAdded ==
  ASSUME Typed, NEW p \in Piece, Len(p.data) * Stride <= MaxPayload, Write(p)
  PROVE  /\ out' \in Seq(Piece) /\ Len(out') <= PipeCap
         /\ \A k \in 1 .. Len(out') : Len(out'[k].data) * Stride <= MaxPayload
<1>1. out' = Append(out, p) /\ Len(out) < PipeCap /\ out \in Seq(Piece) /\ Len(out) \in Nat
  BY DEF Write, Typed
<1>2. PICK n \in Nat : n = Len(out)
  BY <1>1
<1>3. /\ out' \in Seq(Piece) /\ Len(out') = n + 1 /\ out'[n + 1] = p
      /\ \A k \in 1 .. n : out'[k] = out[k]
  BY <1>1, <1>2
<1>4. n + 1 <= PipeCap
  BY <1>1, <1>2, InteractAssumption
<1>5. \A k \in 1 .. n : Len(out[k].data) * Stride <= MaxPayload
  BY <1>2 DEF Typed
<1>6. \A k \in 1 .. n + 1 : k \in 1 .. n \/ k = n + 1
  BY <1>2
<1> QED
  BY <1>3, <1>4, <1>5, <1>6

LEMMA WriteKeeps ==
  ASSUME InteractInv, WriteChunk
  PROVE  InteractInv'
<1>1. UNCHANGED <<raster, undrawn, updates, syncSeed, ready, seed, image, nCopied,
                  main, cancelled, shown, replies>>
  BY DEF WriteChunk, authorVars, mainVars, serverVars
<1>3. /\ Typed /\ part + 1 \in 1 .. Pieces /\ part + 1 \in Nat
      /\ pc \in {"write", "sending"} /\ pc' = "write"
      /\ pc = "sending" => main \notin {"ask", "loop"}
  BY InteractAssumption DEF WriteChunk, AtWrite, InteractInv, Typed, Cancelling
<1>2. Seeds' /\ Current' /\ Cancelling'
  BY <1>1, <1>3 DEF InteractInv, Seeds, Current, Cancelling
<1>4. PICK w \in 0 .. Height : nWritten = w * Stride
  BY DEF InteractInv, WholeRows
<1> DEFINE p == Chunk(part + 1)
<1>5. PICK c \in 0 .. Height - w :
        /\ Size = c * Stride /\ nWritten + Size = (w + c) * Stride
        /\ p \in Piece /\ Len(p.data) * Stride <= MaxPayload
        /\ \A r \in Rows :
             /\ r <= w => ~Covers(p, r)
             /\ w < r /\ r <= w + c /\ part + 1 = Pieces => Brings(p, r, image[r])
             /\ \A v : Brings(p, r, v) => v = image[r]
  BY <1>3, <1>4, ChunkIs
<1>6. Write(p)
  BY DEF WriteChunk
<1> HIDE DEF p
<1>7. /\ out' \in Seq(Piece) /\ Len(out') <= PipeCap
      /\ \A k \in 1 .. Len(out') : Len(out'[k].data) * Stride <= MaxPayload
  BY <1>3, <1>5, <1>6, PieceAdded
<1>8. part' \in 0 .. Pieces - 1
  BY <1>3, InteractAssumption DEF WriteChunk
<1>9. Typed'
  BY <1>1, <1>3, <1>7, <1>8 DEF Typed
<1>10. \/ nWritten' = nWritten
       \/ part + 1 = Pieces /\ nWritten' = (w + c) * Stride
  BY <1>3, <1>5, InteractAssumption DEF WriteChunk
<1>11. WholeRows'
  <2>1. w + c \in 0 .. Height
    BY InteractAssumption
  <2> QED
    BY <1>4, <1>10, <2>1 DEF WholeRows
<1>12. Sent'
  <2> SUFFICES ASSUME main \in {"ask", "loop"}, 1 \notin Range(replies),
                      NEW r \in Rows, r * Stride <= nWritten'
               PROVE  Arrives(r, image[r])'
    BY <1>1, <1>3 DEF Sent
  <2>1. r \in Int /\ w \in Int /\ w + c \in Int /\ Stride \in Nat \ {0} /\ image[r] \in 0 .. MaxUpdates
    BY <1>3, InteractAssumption DEF Rows, Typed, Image
  <2>2. out' = Append(out, p)
    BY <1>6 DEF Write
  <2>3. CASE r <= w
    <3>1. r * Stride <= nWritten
      BY <1>4, <2>1, <2>3, LessRows
    <3>2. Arrives(r, image[r])
      BY <1>3, <3>1 DEF InteractInv, Sent
    <3> QED
      BY <1>1, <1>3, <1>5, <2>1, <2>2, <2>3, <3>2, Added
  <2>4. CASE ~(r <= w)
    <3>1. ~(r * Stride <= nWritten)
      BY <1>4, <2>1, <2>4, LessRows
    <3>2. part + 1 = Pieces /\ nWritten' = (w + c) * Stride
      BY <1>10, <3>1
    <3>3. r <= w + c
      BY <2>1, <3>2, LessRows
    <3>4. Brings(p, r, image[r])
      BY <1>5, <2>1, <2>4, <3>2, <3>3
    <3> QED
      BY <1>1, <1>3, <2>1, <2>2, <3>4, Added
  <2> QED
    BY <2>3, <2>4
<1> QED
  BY <1>2, <1>9, <1>11, <1>12 DEF InteractInv

\* The ways out of main's loop.
LEMMA LeaveKeeps ==
  ASSUME InteractInv, HandleEndOfInput \/ CancelThread \/ Join \/ WriteFails
  PROVE  InteractInv'
<1>1. /\ UNCHANGED <<raster, undrawn, updates, syncSeed, ready, seed, image, nCopied, nWritten, part,
                     shown, out, replies>>
      /\ main' \in {"cancel", "join", "exited", "died"}
  BY DEF HandleEndOfInput, CancelThread, Join, WriteFails, authorVars, threadVars, wireVars, serverVars
<1>2. /\ cancelled' \in BOOLEAN
      /\ pc' = pc \/ (pc = "write" /\ pc' = "sending")
      /\ pc' = "sending" => cancelled'
  BY DEF HandleEndOfInput, CancelThread, Join, WriteFails, threadVars, InteractInv, Typed, Cancelling
<1>3. Typed'
  BY <1>1, <1>2 DEF InteractInv, Typed
<1>4. WholeRows' /\ Seeds' /\ Current'
  BY <1>1, <1>2 DEF InteractInv, WholeRows, Seeds, Current
<1>5. Cancelling' /\ Sent'
  BY <1>1, <1>2 DEF Cancelling, Sent
<1> QED
  BY <1>3, <1>4, <1>5 DEF InteractInv

LEMMA MainKeeps ==
  ASSUME InteractInv, Main
  PROVE  InteractInv'
<1> SUFFICES ASSUME Ask \/ HandleResult PROVE InteractInv'
  BY LeaveKeeps DEF Main
<1>1. UNCHANGED <<authorVars, threadVars, shown>>
  BY DEF Ask, HandleResult, serverVars
<1>2. UNCHANGED <<raster, undrawn, updates, syncSeed, ready, pc, seed, image, nCopied, nWritten, part, shown>>
  BY <1>1 DEF authorVars, threadVars
<1>3. WholeRows' /\ Seeds' /\ Current'
  BY <1>2 DEF InteractInv, WholeRows, Seeds, Current
<1>4. CASE Ask
  <2>1. UNCHANGED <<cancelled, replies>> /\ main = "ask" /\ main' \in {"loop", "died"}
    BY <1>4 DEF Ask, serverVars
  <2>2. Cancelling'
    BY <1>2, <2>1 DEF InteractInv, Cancelling
  <2> DEFINE p == [id |-> 1, part |-> 1, offset |-> 0, data |-> <<>>]
  <2>3. p \in Piece /\ Len(p.data) * Stride <= MaxPayload /\ \A r : ~Covers(p, r)
    BY InteractAssumption DEF Piece, Covers, Brings
  <2>4. Write(p) \/ out' = out
    BY <1>4 DEF Ask
  <2> HIDE DEF p
  <2>5. /\ out' \in Seq(Piece) /\ Len(out') <= PipeCap
        /\ \A k \in 1 .. Len(out') : Len(out'[k].data) * Stride <= MaxPayload
    BY <2>3, <2>4, PieceAdded DEF InteractInv, Typed
  <2>6. Typed'
    BY <1>2, <2>1, <2>5 DEF InteractInv, Typed
  <2>7. \A r \in Rows : image[r] \in 0 .. MaxUpdates
    BY DEF InteractInv, Typed, Image
  <2>8. ASSUME NEW r \in Rows, Arrives(r, image[r]) PROVE Arrives(r, image[r])'
    <3>1. CASE Write(p)
      BY <1>2, <2>3, <2>7, <2>8, <3>1, Added DEF Write, InteractInv
    <3>2. CASE out' = out
      BY <1>2, <2>8, <3>2, Unmoved
    <3> QED
      BY <2>4, <3>1, <3>2
  <2>9. Sent'
    BY <1>2, <2>1, <2>8 DEF InteractInv, Sent
  <2> QED
    BY <1>3, <2>2, <2>6, <2>9 DEF InteractInv
<1>5. CASE HandleResult
  <2>1. UNCHANGED <<cancelled, out>> /\ main = "loop" /\ main' \in {"loop", "cancel"}
    BY <1>5 DEF HandleResult, wireVars
  <2>2. Cancelling'
    BY <1>2, <2>1 DEF InteractInv, Cancelling
  <2>3. PICK n \in Nat : n = Len(replies) /\ DOMAIN replies = 1 .. n
    BY DEF InteractInv, Typed
  <2>4. replies # <<>> /\ replies' = Tail(replies) /\ replies \in Seq({0, 1})
    BY <1>5 DEF HandleResult, InteractInv, Typed
  <2>5. /\ Tail(replies) \in Seq({0, 1}) /\ Len(Tail(replies)) = n - 1 /\ Head(replies) = replies[1]
        /\ \A k \in 1 .. n - 1 : Tail(replies)[k] = replies[k + 1]
    BY <2>3, <2>4, HeadTailProperties
  <2>6. n - 1 <= ReplyCap
    BY <2>3, InteractAssumption DEF InteractInv, Typed
  <2>7. Typed'
    BY <1>2, <2>1, <2>4, <2>5, <2>6 DEF InteractInv, Typed
  <2>8. ASSUME main' = "loop", 1 \notin Range(replies') PROVE 1 \notin Range(replies)
    <3>1. replies[1] = 0
      BY <1>5, <2>5, <2>8 DEF HandleResult
    <3>2. DOMAIN Tail(replies) = 1 .. n - 1
      BY <2>5
    <3>3. ASSUME NEW k \in 1 .. n, k # 1 PROVE replies[k] # 1
      <4>1. PICK j \in 1 .. n - 1 : k = j + 1
        <5>1. k - 1 \in 1 .. n - 1 /\ k = (k - 1) + 1
          BY <3>3
        <5> QED
          BY <5>1
      <4>2. Tail(replies)[j] # 1
        BY <2>4, <2>8, <3>2 DEF Range
      <4> QED
        BY <2>5, <4>1, <4>2
    <3> QED
      BY <2>3, <3>1, <3>3 DEF Range
  <2>9. Sent'
    BY <1>2, <2>1, <2>8, Unmoved DEF InteractInv, Sent
  <2> QED
    BY <1>3, <2>2, <2>7, <2>9 DEF InteractInv
<1> QED
  BY <1>4, <1>5

LEMMA ServerKeeps ==
  ASSUME InteractInv, Server
  PROVE  InteractInv'
<1>1. UNCHANGED <<authorVars, threadVars, mainVars>>
  BY DEF Server, ReceivePiece, ServeWrite, ServeRead, ServeJunk, ServerExits
<1>2. UNCHANGED <<raster, undrawn, updates, syncSeed, ready, pc, seed, image, nCopied, nWritten, part,
                  main, cancelled>>
  BY <1>1 DEF authorVars, threadVars, mainVars
<1>3. WholeRows' /\ Seeds' /\ Current' /\ Cancelling'
  BY <1>2 DEF InteractInv, WholeRows, Seeds, Current, Cancelling
<1>4. CASE ServerExits
  <2>1. UNCHANGED <<out, shown, replies>>
    BY <1>4 DEF ServerExits, wireVars
  <2>2. Typed' /\ Sent'
    BY <1>2, <2>1, Unmoved DEF InteractInv, Typed, Sent
  <2> QED
    BY <1>3, <2>2 DEF InteractInv
<1>5. CASE ReceivePiece \/ ServeWrite \/ ServeRead \/ ServeJunk
  <2>1. Typed /\ out # <<>> /\ out' = Tail(out)
    BY <1>5 DEF ReceivePiece, ServeWrite, ServeRead, ServeJunk, Replying, InteractInv
  <2>2. PICK n \in Nat : n = Len(out)
    BY <2>1 DEF Typed
  <2>3. /\ out' \in Seq(Piece) /\ Len(out') = n - 1
        /\ \A k \in 1 .. n - 1 : out'[k] = out[k + 1]
        /\ Head(out) \in Piece
    <3>1. out \in Seq(Piece)
      BY <2>1 DEF Typed
    <3> QED
      BY <2>1, <2>2, <3>1, HeadTailProperties
  <2>4. n - 1 <= PipeCap
    BY <2>1, <2>2, InteractAssumption DEF Typed
  <2>5. \A k \in 1 .. n - 1 : k + 1 \in 1 .. n
    BY <2>2
  <2>6. \A k \in 1 .. n - 1 : Len(out'[k].data) * Stride <= MaxPayload
    BY <2>1, <2>2, <2>3, <2>5 DEF Typed
  <2>7. /\ replies' \in Seq({0, 1}) /\ Len(replies') <= ReplyCap
        /\ 1 \notin Range(replies') =>
             /\ 1 \notin Range(replies)
             /\ \A r \in Rows :
                  /\ \A v : Brings(Head(out), r, v) => shown'[r] = v
                  /\ ~Covers(Head(out), r) => shown'[r] = shown[r]
        /\ shown' \in Image
    <3>1. CASE ReceivePiece \/ ServeRead \/ ServeJunk
      <4>1. UNCHANGED <<shown, replies>>
        BY <3>1 DEF ReceivePiece, ServeRead, ServeJunk, serverVars
      <4>2. Head(out).id # 255 \/ Head(out).part # Pieces
        BY <2>3, <3>1, InteractAssumption DEF ReceivePiece, ServeRead, ServeJunk, Piece
      <4>3. \A r, v : ~Brings(Head(out), r, v)
        BY <4>2 DEF Brings
      <4> QED
        BY <2>1, <4>1, <4>3 DEF Typed
    <3>2. CASE ServeWrite
      <4> DEFINE p == Head(out)
      <4>1. /\ p.id = 255 /\ p.part = Pieces
            /\ \/ shown' = Apply(shown, p) /\ replies' = Append(replies, 0)
               \/ replies' = Append(replies, 1) /\ UNCHANGED shown
            /\ Len(replies) < ReplyCap
        BY <3>2 DEF ServeWrite
      <4> HIDE DEF p
      <4>2. PICK m \in Nat : m = Len(replies) /\ DOMAIN replies = 1 .. m
        BY <2>1 DEF Typed
      <4>3. PICK x \in {0, 1} : /\ replies' = Append(replies, x)
                                /\ x = 0 => shown' = Apply(shown, p)
                                /\ x = 1 => shown' = shown
        BY <4>1
      <4>4. replies \in Seq({0, 1})
        BY <2>1 DEF Typed
      <4>5. /\ replies' \in Seq({0, 1}) /\ Len(replies') = m + 1 /\ DOMAIN replies' = 1 .. m + 1
            /\ replies'[m + 1] = x /\ \A k \in 1 .. m : replies'[k] = replies[k]
        BY <4>2, <4>3, <4>4
      <4>6. m + 1 <= ReplyCap
        BY <4>1, <4>2, InteractAssumption
      <4>7. ASSUME 1 \notin Range(replies') PROVE x = 0 /\ 1 \notin Range(replies)
        <5>1. m + 1 \in 1 .. m + 1 /\ \A k \in 1 .. m : k \in 1 .. m + 1
          BY <4>2
        <5> QED
          BY <4>2, <4>5, <4>7, <5>1 DEF Range
      <4>8. \A k \in DOMAIN p.data : p.data[k] \in 0 .. MaxUpdates
        <5>1. p.data \in Seq(0 .. MaxUpdates)
          BY <2>3 DEF Piece, p
        <5>2. DOMAIN p.data = 1 .. Len(p.data)
          BY <5>1
        <5> QED
          BY <5>1, <5>2, ElementOfSeq
      <4>9. Apply(shown, p) \in Image
        <5>1. \A r \in Rows : shown[r] \in 0 .. MaxUpdates
          BY <2>1 DEF Typed, Image
        <5>2. \A r \in Rows : (LET k == r - p.offset \div Stride IN
                              IF k \in DOMAIN p.data THEN p.data[k] ELSE shown[r]) \in 0 .. MaxUpdates
          BY <4>8, <5>1
        <5> QED
          BY <5>2 DEF Apply, Image
      <4>10. ASSUME NEW r \in Rows
             PROVE  /\ \A v : Brings(p, r, v) => Apply(shown, p)[r] = v
                    /\ ~Covers(p, r) => Apply(shown, p)[r] = shown[r]
        <5>1. Apply(shown, p)[r] = LET k == r - p.offset \div Stride IN
                                   IF k \in DOMAIN p.data THEN p.data[k] ELSE shown[r]
          BY DEF Apply
        <5>2. \A v : Brings(p, r, v) => Apply(shown, p)[r] = v
          BY <5>1 DEF Brings
        <5>3. ~Covers(p, r) => Apply(shown, p)[r] = shown[r]
          BY <4>1, <4>8, <5>1 DEF Covers, Brings
        <5> QED
          BY <5>2, <5>3
      <4>11. shown' \in Image
        BY <2>1, <4>3, <4>9 DEF Typed
      <4> QED
        BY <4>3, <4>5, <4>6, <4>7, <4>10, <4>11 DEF p
    <3> QED
      BY <1>5, <3>1, <3>2
  <2>8. Typed'
    BY <1>2, <2>1, <2>3, <2>4, <2>6, <2>7 DEF Typed
  <2>9. Sent'
    <3> SUFFICES ASSUME pc \in {"status", "wait", "shutdown", "write"}, main \in {"ask", "loop"},
                        1 \notin Range(replies'), NEW r \in Rows,
                        pc = "write" => r * Stride <= nWritten
                 PROVE  Arrives(r, image[r])'
      BY <1>2 DEF Sent
    <3>1. image[r] \in 0 .. MaxUpdates
      BY <2>1 DEF Typed, Image
    <3>2. Arrives(r, image[r])
      BY <2>7 DEF InteractInv, Sent
    <3> QED
      BY <1>2, <2>1, <2>7, <3>1, <3>2, Taken
  <2> QED
    BY <1>3, <2>8, <2>9 DEF InteractInv
<1> QED
  BY <1>4, <1>5 DEF Server

LEMMA InvHolds == Spec => []InteractInv
<1>1. ASSUME Init PROVE InteractInv
  <2>1. Typed
    <3>1. Blank \in Image
      BY InteractAssumption DEF Blank, Image
    <3>2. /\ out \in Seq(Piece) /\ Len(out) = 0 /\ replies \in Seq({0, 1}) /\ Len(replies) = 0
      BY <1>1 DEF Init
    <3> QED
      <4>1. /\ raster \in Image /\ image \in Image /\ shown \in Image
            /\ undrawn \subseteq Rows /\ ready \in BOOLEAN /\ cancelled \in BOOLEAN
            /\ pc = "status" /\ main = "ask"
        BY <1>1, <3>1 DEF Init
      <4>2. part \in 0 .. Pieces - 1 /\ nCopied \in 0 .. Height
        BY <1>1, InteractAssumption DEF Init
      <4>3. Len(out) <= PipeCap /\ Len(replies) <= ReplyCap
        BY <3>2, InteractAssumption
      <4>4. \A k \in 1 .. Len(out) : Len(out[k].data) * Stride <= MaxPayload
        BY <3>2
      <4> QED
        BY <3>2, <4>1, <4>2, <4>3, <4>4 DEF Typed
  <2>2. WholeRows
    <3>1. 0 \in 0 .. Height /\ 0 = 0 * Stride
      BY InteractAssumption
    <3> QED
      BY <1>1, <3>1 DEF Init, WholeRows
  <2>3. Seeds /\ Current /\ Cancelling
    BY <1>1 DEF Init, Seeds, Current, Cancelling
  <2>4. Sent
    BY <1>1 DEF Init, Sent, Arrives
  <2> QED
    BY <2>1, <2>2, <2>3, <2>4 DEF InteractInv
<1>2. ASSUME InteractInv, [Next]_vars PROVE InteractInv'
  <2>1. CASE Thread
    BY <1>2, <2>1, QuietKeeps, CopyKeeps, WriteKeeps, LeaveKeeps DEF Thread
  <2>2. CASE Poll
    BY <1>2, <2>2, QuietKeeps
  <2>3. CASE UNCHANGED vars
    <3>1. UNCHANGED <<raster, undrawn, updates, syncSeed, ready, pc, seed, image, nCopied, nWritten, part,
                      main, cancelled, out, shown, replies>>
      BY <2>3 DEF vars, authorVars, threadVars, mainVars, wireVars, serverVars
    <3>2. Typed' /\ WholeRows' /\ Seeds' /\ Current' /\ Cancelling'
      BY <1>2, <3>1 DEF InteractInv, Typed, WholeRows, Seeds, Current, Cancelling
    <3>3. Sent'
      BY <1>2, <3>1, Unmoved DEF InteractInv, Sent
    <3> QED
      BY <3>2, <3>3 DEF InteractInv
  <2> QED
    BY <1>2, <2>1, <2>2, <2>3, AuthorKeeps, MainKeeps, ServerKeeps DEF Next, Ended
<1> QED
  BY <1>1, <1>2, PTL DEF Spec

----------------------------------------------------------------------------

\* The chunks of an image end where the image does, and none is larger than a
\* frame's length field can say, for images and frames of any size.
THEOREM InteractTypes == Spec => []TypeOK
<1>1. InteractInv => TypeOK
  <2> SUFFICES ASSUME InteractInv PROVE TypeOK
    OBVIOUS
  <2>1. nWritten \in 0 .. ImageSize
    <3>1. PICK w \in 0 .. Height : nWritten = w * Stride
      BY DEF InteractInv, WholeRows
    <3>2. w \in Int /\ Height \in Int /\ Stride \in Nat \ {0} /\ w <= Height /\ 0 <= w
      BY InteractAssumption
    <3>3. w * Stride <= Height * Stride /\ 0 * Stride <= w * Stride
      BY <3>2, LessRows
    <3> QED
      BY <3>1, <3>2, <3>3 DEF ImageSize
  <2>2. DOMAIN out = 1 .. Len(out)
    BY DEF InteractInv, Typed
  <2> QED
    BY <2>1, <2>2 DEF InteractInv, Typed, TypeOK, Image
<1> QED
  BY <1>1, InvHolds, PTL

\* write_image sends every row of the image it was given, each once, and the
\* image it is given is the raster as the author left it, unless it has begun to
\* draw again: in which case its seed will change.
THEOREM ImageArrives == Spec => []ImageComplete
<1>1. InteractInv => ImageComplete
  <2> SUFFICES ASSUME InteractInv PROVE ImageComplete
    OBVIOUS
  <2>1. ASSUME pc \in {"status", "wait", "shutdown"}, main \in {"ask", "loop"}, 1 \notin Range(replies)
        PROVE  \A r \in Rows : Arrives(r, image[r])
    BY <2>1 DEF InteractInv, Sent
  <2>2. ASSUME seed = updates, pc # "copy" PROVE image = raster
    <3>1. image \in Image /\ raster \in Image /\ \A r \in Rows : image[r] = raster[r]
      BY <2>2 DEF InteractInv, Typed, Current
    <3> QED
      BY <3>1 DEF Image
  <2> QED
    BY <2>1, <2>2 DEF ImageComplete
<1> QED
  BY <1>1, InvHolds, PTL
=============================================================================
