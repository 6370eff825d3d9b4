------------------------------ MODULE Interact ------------------------------
(***************************************************************************)
(* interact's two threads once the window is open.  The update thread      *)
(* relays a raster, which another program (the author) draws in shared     *)
(* memory, to the server: it waits for the seed to change, copies the      *)
(* image and sends it in chunks, without waiting for results.  The main    *)
(* thread asks for the event stream and reads what the server sends.  Both *)
(* write to protocol_out, each through a send_queue of its own.            *)
(***************************************************************************)
EXTENDS Integers, Sequences, FiniteSets, Functions

CONSTANTS
  Height,      \* rows of the raster
  Stride,      \* bytes of a row
  MaxPayload,  \* most bytes of a frame's payload         (65535 in the code)
  Pieces,      \* calls of write() that sending one chunk takes
  MaxUpdates,  \* updates the author makes                         (a bound)
  PipeCap,     \* pieces the pipe to the server holds
  ReplyCap     \* results the pipe to interact holds

ASSUME InteractAssumption ==
  /\ Height \in Nat \ {0} /\ Stride \in Nat \ {0}
  /\ MaxPayload \in Nat /\ MaxPayload >= Stride
  /\ Pieces \in Nat \ {0} /\ MaxUpdates \in Nat
  /\ PipeCap \in Nat \ {0} /\ ReplyCap \in Nat \ {0}

VARIABLES
  raster,     \* the author's image, for each row the update that drew it
  undrawn,    \* rows the author has yet to draw in this update
  updates,    \* updates the author has begun
  syncSeed,   \* sync->seed
  ready,      \* whether sync->status is Sync_ready
  pc,         \* where the update thread is; "sending": cancelled, too late for write_all
  seed,       \* update_loop's seed
  image,      \* update_loop's copy of the raster
  nCopied,    \* rows memcpy has copied
  nWritten,   \* write_image's n_written
  part,       \* pieces of the current chunk already written
  main,       \* where the main thread is
  cancelled,  \* whether the update thread has been told to cancel
  out,        \* pieces on their way to the server
  shut,       \* whether protocol_out has been shut down
  server,     \* running, closed, or broken by a frame it cannot read
  expects,    \* pieces the server has of a chunk
  shown,      \* the server's image
  replies     \* results on their way to interact

authorVars == <<raster, undrawn, updates, syncSeed, ready>>
threadVars == <<pc, seed, image, nCopied, nWritten, part>>
mainVars   == <<main, cancelled>>
wireVars   == <<out, shut>>
serverVars == <<server, expects, shown, replies>>
vars == <<authorVars, threadVars, mainVars, wireVars, serverVars>>

Rows  == 1 .. Height
Blank == [r \in Rows |-> 0]

ChunkHeight_Bug == Height    \* the whole image at once

\* raster_update_start's arithmetic, in bytes.
ChunkHeight == IF Height < MaxPayload \div Stride THEN Height ELSE MaxPayload \div Stride
ChunkSize   == ChunkHeight * Stride
ImageSize   == Height * Stride

Init ==
  /\ raster = Blank /\ undrawn = {} /\ updates = 0 /\ syncSeed = 0 /\ ready = TRUE
  /\ pc = "status" /\ seed = 0 /\ image = Blank
  /\ nCopied = 0 /\ nWritten = 0 /\ part = 0
  /\ main = "ask" /\ cancelled = FALSE
  /\ out = <<>> /\ shut = FALSE
  /\ server = "running" /\ expects = 0 /\ shown = Blank /\ replies = <<>>

----------------------------------------------------------------------------
(* The author: draws, then changes the seed; when it ends, it changes both  *)
(* the status and the seed.                                                *)

BeginUpdate ==
  /\ ready /\ undrawn = {} /\ updates = syncSeed /\ updates < MaxUpdates
  /\ updates' = updates + 1
  /\ undrawn' = Rows
  /\ UNCHANGED <<raster, syncSeed, ready, threadVars, mainVars, wireVars, serverVars>>

Draw ==
  /\ \E r \in undrawn :
       /\ raster' = [raster EXCEPT ![r] = updates]
       /\ undrawn' = undrawn \ {r}
  /\ UNCHANGED <<updates, syncSeed, ready, threadVars, mainVars, wireVars, serverVars>>

Publish ==
  /\ undrawn = {} /\ updates > syncSeed
  /\ syncSeed' = updates
  /\ UNCHANGED <<raster, undrawn, updates, ready, threadVars, mainVars, wireVars, serverVars>>

Quit ==
  /\ ready /\ undrawn = {} /\ updates = syncSeed
  /\ ready' = FALSE
  /\ updates' = updates + 1 /\ syncSeed' = updates + 1
  /\ UNCHANGED <<raster, undrawn, threadVars, mainVars, wireVars, serverVars>>

----------------------------------------------------------------------------
(* The update thread: update_loop and write_image.                         *)

CheckStatus_Bug ==    \* does not look at the status
  /\ pc = "status"
  /\ pc' = "wait"
  /\ UNCHANGED <<authorVars, seed, image, nCopied, nWritten, part, mainVars, wireVars, serverVars>>

CheckStatus ==
  /\ pc = "status"
  /\ pc' = IF ready THEN "wait" ELSE "shutdown"
  /\ UNCHANGED <<authorVars, seed, image, nCopied, nWritten, part, mainVars, wireVars, serverVars>>

\* The inner loop goes round.
Poll == pc = "wait" /\ seed = syncSeed /\ UNCHANGED vars

\* The inner loop ends, and the new seed is read before the image is.
SeedChanged ==
  /\ pc = "wait" /\ seed # syncSeed
  /\ seed' = syncSeed
  /\ pc' = "copy" /\ nCopied' = 0
  /\ UNCHANGED <<authorVars, image, nWritten, part, mainVars, wireVars, serverVars>>

\* memcpy, while the author may be drawing.
CopyRow ==
  /\ pc = "copy" /\ nCopied < Height
  /\ image' = [image EXCEPT ![nCopied + 1] = raster[nCopied + 1]]
  /\ nCopied' = nCopied + 1
  /\ UNCHANGED <<authorVars, pc, seed, nWritten, part, mainVars, wireVars, serverVars>>

Copied_Bug ==    \* reads the seed again, after the image
  /\ pc = "copy" /\ nCopied = Height
  /\ seed' = syncSeed
  /\ pc' = "write" /\ nWritten' = 0 /\ part' = 0
  /\ UNCHANGED <<authorVars, image, nCopied, mainVars, wireVars, serverVars>>

Copied ==
  /\ pc = "copy" /\ nCopied = Height
  /\ pc' = "write" /\ nWritten' = 0 /\ part' = 0
  /\ UNCHANGED <<authorVars, seed, image, nCopied, mainVars, wireVars, serverVars>>

Size_Bug ==    \* the last chunk is dropped unless it is a whole one
  IF nWritten + ChunkSize <= ImageSize THEN ChunkSize ELSE 0

\* How much write_image sends next: whole chunks while n_written is below
\* image_size - chunk_size, then the remainder, if there is any.
Size == IF nWritten < ImageSize - ChunkSize THEN ChunkSize ELSE ImageSize - nWritten

Chunk(k) == [id |-> 255, part |-> k, offset |-> nWritten,
             data |-> SubSeq(image, nWritten \div Stride + 1, (nWritten + Size) \div Stride)]

\* Whether what is written to protocol_out can still be read.
Connected == ~shut /\ server = "running"

\* A call of write() by write_all, whose data the pipe has room for.
Write(piece) == Connected /\ Len(out) < PipeCap /\ out' = Append(out, piece)

\* write_all is about to write: testcancel has let it pass, or is about to.
AtWrite == Size > 0 /\ (pc = "sending" \/ (pc = "write" /\ ~cancelled))

WriteChunk ==
  /\ AtWrite
  /\ Write(Chunk(part + 1))
  /\ pc' = "write"
  /\ IF part + 1 < Pieces THEN part' = part + 1 /\ UNCHANGED nWritten
                          ELSE part' = 0 /\ nWritten' = nWritten + Size
  /\ UNCHANGED <<authorVars, seed, image, nCopied, mainVars, shut, serverVars>>

\* Nobody is there to read: write() raises SIGPIPE, or else write_in_full throws
\* failed_write, which nothing catches.  Either ends the process.
WriteFails ==
  /\ AtWrite /\ ~Connected
  /\ main' = "died"
  /\ UNCHANGED <<authorVars, threadVars, cancelled, wireVars, serverVars>>

ImageWritten ==
  /\ pc = "write" /\ Size = 0
  /\ pc' = "status"
  /\ UNCHANGED <<authorVars, seed, image, nCopied, nWritten, part, mainVars, wireVars, serverVars>>

\* The author has quit.
Shutdown ==
  /\ pc = "shutdown"
  /\ shut' = TRUE
  /\ pc' = "ended"
  /\ UNCHANGED <<authorVars, seed, image, nCopied, nWritten, part, mainVars, out, serverVars>>

TestCancel_Bug ==    \* only where it writes
  /\ cancelled
  /\ pc = "write" /\ Size > 0
  /\ pc' = "ended"
  /\ UNCHANGED <<authorVars, seed, image, nCopied, nWritten, part, mainVars, wireVars, serverVars>>

\* testcancel, in the inner loop and in write_all.
TestCancel ==
  /\ cancelled
  /\ \/ pc = "wait" /\ seed = syncSeed
     \/ pc = "write" /\ Size > 0
  /\ pc' = "ended"
  /\ UNCHANGED <<authorVars, seed, image, nCopied, nWritten, part, mainVars, wireVars, serverVars>>

----------------------------------------------------------------------------
(* The main thread, from the creation of the update thread on.             *)

\* send_read_request, in one call of write(); if the update thread has shut
\* down protocol_out by then, write() fails and interact dies as above.
Ask ==
  /\ main = "ask"
  /\ \/ /\ Write([id |-> 1, part |-> 1, offset |-> 0, data |-> <<>>])
        /\ main' = "loop"
     \/ ~Connected /\ main' = "died" /\ UNCHANGED out
  /\ UNCHANGED <<authorVars, threadVars, cancelled, shut, serverVars>>

\* An update that succeeds does not end the event loop, one that fails does.
HandleResult ==
  /\ main = "loop" /\ replies # <<>>
  /\ replies' = Tail(replies)
  /\ main' = IF Head(replies) = 0 THEN "loop" ELSE "cancel"
  /\ UNCHANGED <<authorVars, threadVars, cancelled, wireVars, server, expects, shown>>

HandleEndOfInput ==
  /\ main = "loop" /\ replies = <<>> /\ server # "running"
  /\ main' = "cancel"
  /\ UNCHANGED <<authorVars, threadVars, cancelled, wireVars, serverVars>>

\* cancel( NULL ) sends no signal: the update thread notices at its next
\* testcancel, and one that has just passed it in write_all writes once more.
CancelThread ==
  /\ main = "cancel"
  /\ cancelled' = TRUE
  /\ main' = "join"
  /\ \/ UNCHANGED pc
     \/ pc = "write" /\ Size > 0 /\ pc' = "sending"
  /\ UNCHANGED <<authorVars, seed, image, nCopied, nWritten, part, wireVars, serverVars>>

Join ==
  /\ main = "join" /\ pc = "ended"
  /\ main' = "exited"
  /\ UNCHANGED <<authorVars, threadVars, cancelled, wireVars, serverVars>>

----------------------------------------------------------------------------
(* The server: writes are served one by one, in order, on its main thread.  *)

Apply(img, c) ==
  [r \in Rows |-> LET k == r - c.offset \div Stride IN
                  IF k \in DOMAIN c.data THEN c.data[k] ELSE img[r]]

Replying == server = "running" /\ out # <<>> /\ out' = Tail(out)

ReceivePiece ==
  /\ Replying
  /\ LET p == Head(out) IN
     /\ p.id = 255 /\ p.part = expects + 1 /\ p.part < Pieces
     /\ expects' = p.part
  /\ UNCHANGED <<authorVars, threadVars, mainVars, shut, server, shown, replies>>

ServeWrite ==
  /\ Replying /\ Len(replies) < ReplyCap
  /\ LET p == Head(out) IN
     /\ p.id = 255 /\ p.part = expects + 1 /\ p.part = Pieces
     /\ expects' = 0
     /\ \/ shown' = Apply(shown, p) /\ replies' = Append(replies, 0)
        \/ replies' = Append(replies, 1) /\ UNCHANGED shown
  /\ UNCHANGED <<authorVars, threadVars, mainVars, shut, server>>

\* The read request starts a task, whose data is left out.
ServeRead ==
  /\ Replying
  /\ Head(out).id = 1 /\ expects = 0
  /\ UNCHANGED <<authorVars, threadVars, mainVars, shut, serverVars>>

\* What it reads is not the frame that was begun.
ServeJunk ==
  /\ Replying
  /\ Head(out).id = 1 /\ expects > 0
  /\ server' = "broken"
  /\ UNCHANGED <<authorVars, threadVars, mainVars, shut, expects, shown, replies>>

ServerExits ==
  /\ server = "running" /\ out = <<>> /\ shut
  /\ server' = "closed"
  /\ UNCHANGED <<authorVars, threadVars, mainVars, wireVars, expects, shown, replies>>

----------------------------------------------------------------------------

Author == BeginUpdate \/ Draw \/ Publish \/ Quit
Thread == CheckStatus \/ Poll \/ SeedChanged \/ CopyRow \/ Copied \/ WriteChunk \/ WriteFails
          \/ ImageWritten \/ Shutdown \/ TestCancel
Main   == Ask \/ HandleResult \/ HandleEndOfInput \/ CancelThread \/ Join
Server == ReceivePiece \/ ServeWrite \/ ServeRead \/ ServeJunk \/ ServerExits

\* interact has ended.
Ended == main \in {"exited", "died"} /\ UNCHANGED vars

\* The process ends with its main thread.
Next ==
  \/ main \notin {"exited", "died"} /\ (Thread \/ Main)
  \/ Author \/ Server \/ Ended

Spec == Init /\ [][Next]_vars

\* Threads and server are scheduled; the author finishes the updates it begins
\* but need not begin one, nor quit.
FairSpec ==
  /\ Spec
  /\ WF_vars(Thread /\ main \notin {"exited", "died"})
  /\ WF_vars(Main)
  /\ WF_vars(Server)
  /\ WF_vars(Draw \/ Publish)

----------------------------------------------------------------------------

\* Every variable has its type; in particular the chunks of an image end where
\* the image does, and none is larger than a frame's length field can say.
TypeOK ==
  /\ \A k \in DOMAIN out : Len(out[k].data) * Stride <= MaxPayload
  /\ raster \in [Rows -> 0 .. MaxUpdates]
  /\ image \in [Rows -> 0 .. MaxUpdates] /\ shown \in [Rows -> 0 .. MaxUpdates]
  /\ undrawn \subseteq Rows
  /\ pc \in {"status", "wait", "copy", "write", "sending", "shutdown", "ended"}
  /\ main \in {"ask", "loop", "cancel", "join", "exited", "died"}
  /\ nWritten \in 0 .. ImageSize /\ part \in 0 .. Pieces - 1 /\ nCopied \in 0 .. Height
  /\ Len(out) <= PipeCap /\ Len(replies) <= ReplyCap

\* A chunk is applied when its last piece arrives.
Brings(p, r, value) ==
  LET k == r - p.offset \div Stride IN
  p.id = 255 /\ p.part = Pieces /\ k \in DOMAIN p.data /\ p.data[k] = value

Covers(p, r) == \E value \in 0 .. MaxUpdates : Brings(p, r, value)

\* What row r of the server's image is, once all that is on its way has arrived:
\* what the last chunk that covers it brings, if there is one.
Arrives(r, value) ==
  \/ shown[r] = value /\ \A k \in DOMAIN out : ~Covers(out[k], r)
  \/ \E k \in DOMAIN out :
       Brings(out[k], r, value) /\ \A l \in DOMAIN out : l > k => ~Covers(out[l], r)

\* The chunks of write_image cover the image: whenever it is not sending one,
\* what the server shows or is about to receive is the whole image last copied,
\* unless an update was refused.  And that image is the raster, once the seed of
\* the author's last update has been seen: what the author draws while the image
\* is copied is not missed, since the seed is read first.
ImageComplete ==
  /\ pc \in {"status", "wait", "shutdown"} /\ main \in {"ask", "loop"} /\ 1 \notin Range(replies)
       => \A r \in Rows : Arrives(r, image[r])
  /\ seed = updates /\ pc # "copy" => image = raster

\* "A single message frame must be sent unbroken by other data"
\* (NOTES/protocol.md): nothing comes between the pieces of a chunk.
FramesUnbroken == server # "broken"

\* The author's last image is shown in the end, although images are drawn while
\* they are copied and updates are missed: unless the author quits, or an
\* update is refused, or interact dies first.
LastImageShown ==
  <>[](syncSeed = updates /\ ready /\ main = "loop") => <>[](shown = raster)

\* Once the author has quit, interact ends: the update thread shuts down
\* protocol_out, which ends the session and the event loop.
QuitEnds == ~ready ~> main \in {"exited", "died"}

\* The join of the cancelled update thread returns, unless the thread's write to
\* a server that is gone ends the process first: neither a seed that does not
\* change nor a full pipe keeps the thread from its next testcancel for ever.
JoinReturns == main = "join" ~> main \in {"exited", "died"}
=============================================================================
