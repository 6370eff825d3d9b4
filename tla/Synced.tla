------------------------------- MODULE Synced -------------------------------
(***************************************************************************)
(* The synced calls, each of which sends a request and runs an event loop  *)
(* until its result has come, and the programs that make them one after    *)
(* the other: fset, about-forge, forge-test, display, button-demo, and     *)
(* interact up to the point where Interact takes over.  display goes on to *)
(* show a raster that another program draws in shared memory, button-demo  *)
(* to read clicks in a frame handler of its own.                           *)
(***************************************************************************)
EXTENDS Connection

CONSTANTS
  ChunkRows,     \* rows that fit in a frame
  MaxUpdates     \* updates of the raster                          (a bound)

\* The programs choose at most two descriptors, from 3.
ASSUME SyncedAssumption ==
  ChunkRows \in 1 .. Height /\ MaxUpdates \in Nat /\ MaxFd >= 4

VARIABLES
  script,      \* the calls the program makes
  step,        \* how many of them it has finished
  nextFd,      \* next_fd, or the descriptor that follows the last one chosen
  clicked,     \* button-demo: whether the button was clicked before
  raster,      \* display: for each row, the update that drew it
  undrawn,     \* rows the raster's author has yet to draw in this update
  updates,     \* updates the author has begun
  syncSeed,    \* sync->seed
  ready,       \* whether sync->status is Sync_ready
  seed         \* update_loop's seed

callVars   == <<script, step, nextFd, clicked, seed>>
authorVars == <<raster, undrawn, updates, syncSeed, ready>>
scriptVars == <<callVars, authorVars>>

----------------------------------------------------------------------------
(* The scripts.                                                            *)

Opens(names) == [k \in DOMAIN names |-> Call("open", names[k])]
Puts(names)  == [k \in DOMAIN names |-> Call("put", names[k])]
Links(names) == [k \in DOMAIN names |-> Call("link", names[k])]

\* A call in a try block that catches everything: "This existence of this
\* property is platform-dependent."
IsOptional(call) == call.file = "compositing"

\* A PWRITE of rows first .. last.
Chunk(first, last) == [op |-> "pwrite", file |-> "v/data", rows |-> first .. last]

\* The times the loop of write_image goes round: while more than a chunk is left.
FullChunks == Cardinality({k \in 0 .. Height : k * ChunkRows < Height - ChunkRows})

WriteImage_Bug ==    \* the remainder is forgotten
  [k \in 1 .. FullChunks |-> Chunk((k - 1) * ChunkRows, k * ChunkRows - 1)]

\* write_image: the full chunks, then what remains.
WriteImage ==
  [k \in 1 .. FullChunks |-> Chunk((k - 1) * ChunkRows, k * ChunkRows - 1)]
  \o IF FullChunks * ChunkRows < Height THEN <<Chunk(FullChunks * ChunkRows, Height - 1)>> ELSE <<>>

AboutForge ==
  Opens(<<"lock">>) \o Puts(<<"procid", ".~title", "size">>)
  \o Links(<<"view", "v/icon/view", "v/main/view">>)
  \o Puts(<<"v/icon/v/width", "v/icon/v/height", "v/icon/v/.margin-top",
            "v/icon/v/.margin-left", "v/icon/v/.margin-right", "v/main/v/.margin-top",
            "v/main/v/.margin-right", "v/main/v/.margin-left">>)
  \o Links(<<"v/icon/v/view", "v/main/v/view">>)
  \o Puts(<<"v/icon/v/v/data", "v/main/v/v/text", "v/icon/v/v/disabling",
            "v/main/v/v/disabling", "vis">>)
  \o Opens(<<"window">>) \o Puts(<<"w/text-font", "w/vis">>)

ForgeTest ==
  Opens(<<"lock", "window">>) \o Puts(<<"w/.~title">>) \o Links(<<"view", "v/view">>)
  \o Puts(<<"v/padding", "v/v/text">>)

ButtonDemo ==
  Opens(<<"lock">>) \o Puts(<<".~title">>) \o Links(<<"view", "v/view">>)
  \o Puts(<<"v/height", "v/padding", "v/v/title">>) \o Opens(<<"window">>)

\* What follows depends on the raster's depth, its pixel format and the title.
PutsOrNone(names) == {Puts(names), <<>>}

Display(format, named) ==
  Opens(<<"lock">>) \o Links(<<"view">>) \o format
  \o Puts(<<"compositing", "procid", ".~size", "v/.~size">>) \o named
  \o WriteImage \o Opens(<<"window">>)

Format(alpha, little) == alpha \o little \o Puts(<<"v/.~depth", "v/.~grayscale", "v/.~stride">>)

Formats ==
  {Format(alpha, little) : alpha  \in PutsOrNone(<<"v/.~alpha-last">>),
                           little \in PutsOrNone(<<"v/.~little-endian">>)}

Displays ==
  {Display(format, named) : format \in {<<>>} \cup Formats, named \in PutsOrNone(<<".~title">>)}

Interact(format, named) ==
  Opens(<<"lock">>) \o Links(<<"view", "v/events/view", "v/raster/view">>) \o format
  \o Puts(<<"compositing", "procid", ".~size", "r/.~size">>) \o named \o Opens(<<"window">>)

Interacts ==
  {Interact(format, named) :
     format \in PutsOrNone(<<"r/.~alpha-last", "r/.~little-endian", "r/.~depth", "r/.~grayscale",
                             "r/.~stride">>),
     named  \in PutsOrNone(<<".~title">>)}

\* A program of another repository that makes the calls no client here makes.
Library == <<Call("list", "d"), Call("open", "f"), Call("read", "f"), Call("close", "f"), Call("read", "f")>>

\* The update loop that follows is the same for all kinds of raster: watch has one
\* bit per pixel and no title.
Scripts ==
  [fset |-> {Puts(<<"f">>)}, library |-> {Library}, aboutForge |-> {AboutForge},
   forgeTest |-> {ForgeTest}, buttonDemo |-> {ButtonDemo}, interact |-> Interacts,
   display |-> Displays, watch |-> {Display(<<>>, <<>>)}]

InitScript ==
  /\ pc = "next"
  /\ script \in Scripts[program] /\ step = 0
  /\ nextFd = 3 /\ clicked = FALSE /\ seed = 0
  /\ raster = [r \in Rows |-> 0] /\ undrawn = {} /\ updates = 0 /\ syncSeed = 0 /\ ready = TRUE

----------------------------------------------------------------------------
(* A synced call.                                                          *)

\* The call's descriptor: next_fd++, or the one to close.
Descriptor(call) == IF call.op = "close" THEN nextFd - 1 ELSE nextFd

MakeCall_Bug ==    \* next_fd is not advanced
  /\ pc = "next" /\ step < Len(script)
  /\ LET call  == script[step + 1]
         image == [r \in call.rows |-> raster[r]]
     IN  Send(<<Frame("request", 0, call, Descriptor(call), image)>>) \/ SendFails
  /\ rcvd' = <<>> /\ taken' = <<>> /\ result' = -1
  /\ pc' = "read"
  /\ UNCHANGED <<program, exit, shut, script, step, nextFd, clicked, seed>>

\* The request is sent, the image straight from the raster (what is drawn while
\* a chunk is written is left for the next update), and wait_for_result makes a
\* new receiver.
MakeCall ==
  /\ pc = "next" /\ step < Len(script)
  /\ LET call  == script[step + 1]
         image == [r \in call.rows |-> raster[r]]
     IN  \/ /\ Send(<<Frame("request", 0, call, Descriptor(call), image)>>) \/ SendFails
            /\ nextFd' = IF call.op = "open" THEN nextFd + 1 ELSE nextFd
            /\ rcvd' = <<>> /\ taken' = <<>> /\ result' = -1
            /\ pc' = "read"
            /\ UNCHANGED <<program, exit, shut>>
         \/ Killed /\ UNCHANGED nextFd
  /\ UNCHANGED <<script, step, clicked, seed>>

Waiting(types) == pc = "read" /\ rcvd # <<>> /\ Head(rcvd).type \in types

\* The call collects data, which it acknowledges first, or names.
TakeItem ==
  /\ Waiting({"read", "list"})
  /\ \/ /\ IF Head(rcvd).type = "read" THEN Send(<<Signal("ack", 0)>>) \/ SendFails
                                       ELSE UNCHANGED toServer
        /\ rcvd' = Tail(rcvd)
        /\ taken' = Append(taken, Head(rcvd).value)
        /\ UNCHANGED <<program, pc, exit, result, shut>>
     \/ Head(rcvd).type = "read" /\ Killed
  /\ UNCHANGED callVars

TakeResult_Bug ==    \* goes on when a call is refused
  /\ Waiting({"result"})
  /\ result' = Head(rcvd).value
  /\ rcvd' = Tail(rcvd)
  /\ step' = step + 1
  /\ pc' = "next"
  /\ UNCHANGED <<program, exit, shut, taken, toServer, script, nextFd, clicked, seed>>

\* The call returns, or throws path_error, which ends every program that makes a
\* call it needs; fset reports it and succeeds.
TakeResult ==
  /\ Waiting({"result"})
  /\ result' = Head(rcvd).value
  /\ rcvd' = Tail(rcvd)
  /\ step' = step + 1
  /\ IF result' = Ok \/ IsOptional(script[step + 1])
       THEN pc' = "next" /\ UNCHANGED <<exit, shut>>
       ELSE Exit(IF program = "fset" THEN "success" ELSE "failure")
  /\ UNCHANGED <<program, taken, toServer, script, nextFd, clicked, seed>>

\* connection_error is not caught, except where everything is.
LoseConnection ==
  /\ pc = "read" /\ \E looped \in {0, -1} : AtEnd(looped)
  /\ IF IsOptional(script[step + 1])
       THEN step' = step + 1 /\ pc' = "next" /\ UNCHANGED <<exit, shut>>
       ELSE Exit("abort") /\ UNCHANGED step
  /\ UNCHANGED <<program, result, taken, rcvd, toServer, script, nextFd, clicked, seed>>

----------------------------------------------------------------------------
(* What comes after the script.                                            *)

AtScriptEnd == pc = "next" /\ step = Len(script)

Return ==
  /\ AtScriptEnd /\ program \in {"fset", "library"}
  /\ Exit("success")
  /\ UNCHANGED <<program, result, taken, rcvd, toServer, callVars>>

\* interact starts its threads, display --watch its update loop, the others
\* wait for the server to close the connection.
Proceed ==
  /\ AtScriptEnd
  /\ program \in {"aboutForge", "forgeTest", "display", "interact", "watch"}
  /\ pc' = CASE program = "interact" -> "threads" [] program = "watch" -> "status" [] OTHER -> "block"
  /\ UNCHANGED <<program, exit, result, taken, rcvd, shut, toServer, callVars>>

\* read() of one byte returns at the end of the input.
Unblock ==
  /\ pc = "block" /\ ended
  /\ Exit("success")
  /\ UNCHANGED <<program, result, taken, rcvd, toServer, callVars>>

CheckStatus ==
  /\ pc = "status"
  /\ IF ready THEN pc' = "wait" /\ UNCHANGED <<exit, shut>> ELSE Exit("success")
  /\ UNCHANGED <<program, result, taken, rcvd, toServer, callVars>>

SeedChanged_Bug ==    \* takes the first image for the first update's
  /\ pc = "wait" /\ seed # syncSeed
  /\ seed' = syncSeed
  /\ script' = IF seed = 0 THEN script ELSE script \o WriteImage
  /\ pc' = "next"
  /\ UNCHANGED <<program, exit, result, taken, rcvd, shut, toServer, step, nextFd, clicked>>

\* The inner loop of update_loop ends, and the image is written again.
SeedChanged ==
  /\ pc = "wait" /\ seed # syncSeed
  /\ seed' = syncSeed
  /\ script' = script \o WriteImage
  /\ pc' = "next"
  /\ UNCHANGED <<program, exit, result, taken, rcvd, shut, toServer, step, nextFd, clicked>>

\* The inner loop goes round.
Poll == pc = "wait" /\ seed = syncSeed /\ UNCHANGED <<clientVars, toServer, callVars>>

----------------------------------------------------------------------------
(* button-demo: read_clicks and its frame handler.                         *)

ReadClicks ==
  /\ AtScriptEnd /\ program = "buttonDemo"
  /\ \/ /\ Send(<<Frame("request", 0, Call("read", "clicked"), 0, <<>>)>>) \/ SendFails
        /\ rcvd' = <<>> /\ pc' = "clicks"
        /\ UNCHANGED <<program, exit, result, taken, shut>>
     \/ Killed
  /\ UNCHANGED callVars

Clicks(type) == pc = "clicks" /\ rcvd # <<>> /\ Head(rcvd).type = type

\* The first click changes the title, every other one cancels the read.  The
\* data is not acknowledged.
HandleClick ==
  /\ Clicks("read")
  /\ \/ /\ \/ SendFails
           \/ Send(IF clicked THEN <<Signal("cancel", Head(rcvd).id)>>
                   ELSE <<Frame("request", 1, Call("put", "v/v/title"), 0, <<>>)>>)
        /\ clicked' = TRUE
        /\ rcvd' = Tail(rcvd)
        /\ UNCHANGED <<program, pc, exit, result, taken, shut>>
     \/ Killed /\ UNCHANGED clicked
  /\ UNCHANGED <<script, step, nextFd, seed>>

\* "Don't exit the event loop when updates succeed."
HandleClickResult ==
  /\ Clicks("result")
  /\ result' = Head(rcvd).value
  /\ rcvd' = Tail(rcvd)
  /\ IF Head(rcvd).id # 0 /\ result' = Ok
       THEN UNCHANGED <<pc, exit, shut>>
       ELSE Exit(IF result' \in {Ok, Canceled} THEN "success" ELSE "failure")
  /\ UNCHANGED <<program, taken, toServer, callVars>>

\* What the handler makes of a frame that was broken off: anything.
HandleJunk ==
  /\ Clicks("junk")
  /\ Exit("confused")
  /\ UNCHANGED <<program, result, taken, rcvd, toServer, callVars>>

LoseClicks ==
  /\ pc = "clicks" /\ \E looped \in {0, -1} : AtEnd(looped)
  /\ Exit("failure")
  /\ UNCHANGED <<program, result, taken, rcvd, toServer, callVars>>

----------------------------------------------------------------------------
(* The raster's author: draws, then changes the seed; ends by changing both *)
(* the status and the seed.                                                *)

BeginUpdate ==
  /\ program = "watch" /\ ready /\ undrawn = {} /\ updates = syncSeed /\ updates < MaxUpdates
  /\ updates' = updates + 1 /\ undrawn' = Rows
  /\ UNCHANGED <<raster, syncSeed, ready>>

Draw ==
  /\ \E r \in undrawn : raster' = [raster EXCEPT ![r] = updates] /\ undrawn' = undrawn \ {r}
  /\ UNCHANGED <<updates, syncSeed, ready>>

Publish ==
  /\ undrawn = {} /\ updates > syncSeed
  /\ syncSeed' = updates
  /\ UNCHANGED <<raster, undrawn, updates, ready>>

Quit ==
  /\ program = "watch" /\ ready /\ undrawn = {} /\ updates = syncSeed
  /\ ready' = FALSE /\ updates' = updates + 1 /\ syncSeed' = updates + 1
  /\ UNCHANGED <<raster, undrawn>>

Author == BeginUpdate \/ Draw \/ Publish \/ Quit

ScriptStep ==
  \/ MakeCall \/ TakeItem \/ TakeResult \/ LoseConnection
  \/ Return \/ Proceed \/ Unblock \/ CheckStatus \/ SeedChanged \/ Poll
  \/ ReadClicks \/ HandleClick \/ HandleClickResult \/ HandleJunk \/ LoseClicks
=============================================================================
