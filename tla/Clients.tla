------------------------------ MODULE Clients ------------------------------
(***************************************************************************)
(* The clients that are not modelled one by one elsewhere (fls, fget and   *)
(* interact's threads have modules of their own): a connection with one of *)
(* the programs of Tools or Synced at its end.                             *)
(***************************************************************************)
EXTENDS Tools, Synced

CONSTANT Programs    \* the programs to choose from

ASSUME ClientsAssumption == Programs \subseteq ToolSet \cup DOMAIN Scripts

vars == <<connVars, toolVars, scriptVars>>

IsTool == program \in ToolSet

Init ==
  /\ program \in Programs
  /\ InitConnection
  /\ IF IsTool
       THEN InitTool /\ script = <<>> /\ step = 0 /\ nextFd = 3 /\ clicked = FALSE /\ seed = 0
            /\ raster = [r \in Rows |-> 0] /\ undrawn = {} /\ updates = 0 /\ syncSeed = 0 /\ ready = TRUE
       ELSE InitScript /\ count = 0 /\ pings = 0 /\ pongs = 0

\* What the program does leaves the other end of the connection alone.
Others == UNCHANGED <<toClient, lost, window, sessionVars>>

Program ==
  \/ IsTool  /\ ToolStep  /\ Others /\ UNCHANGED scriptVars
  \/ ~IsTool /\ ScriptStep /\ Others /\ UNCHANGED <<toolVars, authorVars>>
  \/ Receive /\ UNCHANGED <<toolVars, scriptVars>>

PingerThread == IsTool /\ Pinger /\ Others /\ UNCHANGED scriptVars

Session == SessionStep /\ UNCHANGED <<toolVars, scriptVars>>

StreamError == (\E i \in Ids : StreamFails(i)) /\ UNCHANGED <<toolVars, scriptVars>>

Drawing == Author /\ UNCHANGED <<connVars, toolVars, callVars>>

Loss == Cut /\ UNCHANGED <<toolVars, scriptVars>>

\* The program has ended, or waits for what may never come.
Rest == pc \in {"exited", "threads", "block", "clicks"} /\ UNCHANGED vars

Next == Program \/ PingerThread \/ Session \/ StreamError \/ Drawing \/ Loss \/ Rest

Spec == Init /\ [][Next]_vars

\* Threads run, and the network delivers.  The author may stop at any time, no
\* stream need fail, and the connection need not be lost.
FairSpec == Spec /\ WF_vars(Program) /\ WF_vars(PingerThread) /\ WF_vars(Session)

----------------------------------------------------------------------------

\* The calls of the programs: those of scripts and of tools, and those that
\* button-demo makes when its button is clicked.
CallsOf(scripts) == UNION {{s[k] : k \in DOMAIN s} : s \in scripts}

Made == CallsOf({WriteImage} \cup UNION {Scripts[p] : p \in DOMAIN Scripts})

AllCalls ==
  Made \cup {Call(Asks[p], "file") : p \in Printers}
       \cup {Call("read", "clicked"), Call("put", "v/v/title")}

\* What each variable holds.  A task of the session has no more data
\* unacknowledged than --window allows (data_flow.cc), whatever passes on the
\* way; next_fd gives descriptors of the session's table; and fping prints no
\* more pongs than it sends pings.
TypeOK ==
  /\ program \in Programs
  /\ pc \in {"start", "read", "next", "block", "threads", "status", "wait", "clicks", "exited"}
  /\ exit \in {"none", "success", "failure", "abort", "killed", "confused"}
  /\ result \in {-1, Ok, Refused, Canceled}
  /\ box \in [Ids -> AllCalls \cup {Free, Done}]
  /\ left \in [Ids -> 0 .. MaxItems] /\ given \in 0 .. MaxItems
  /\ files \in [Fds -> {call.file : call \in AllCalls} \cup {NoFile}]
  /\ shown \in [Rows -> -1 .. MaxUpdates]
  /\ \A k \in DOMAIN served : served[k].call.rows \subseteq Rows
  /\ window # 0 => inFlight \in 0 .. window
  /\ step \in 0 .. Len(script) /\ pings \in 0 .. count /\ pongs \in 0 .. count

\* While the session lasts it keeps every file open that a program has opened
\* and not closed, whatever descriptors (next_fd) the program chose for them: a
\* window stays open although its descriptor is never used again.
OpenFilesHeld ==
  ~ended =>
    \A k \in DOMAIN served : served[k].ok /\ served[k].call.op = "open" =>
      \/ \E fd \in Fds : files[fd] = served[k].call.file
      \/ \E j \in k + 1 .. Len(served) :
           served[j] = [call |-> Call("close", served[k].call.file), ok |-> TRUE]

\* display opens the window when every row of the image is there, however the
\* chunks of write_image (display.cc) divide it.
WindowShowsImage ==
  \A k \in DOMAIN served :
    program \in {"display", "watch"} /\ served[k] = [call |-> Call("open", "window"), ok |-> TRUE]
      => \A r \in Rows : shown[r] # -1

\* A call returns with the whole answer and with nothing else on its way: the
\* receiver of wait_for_result (synced.cc) is thrown away with what it has read.
\* The same goes for what fcat, fdir and fstat have printed at the result.
AnswerWhole ==
  /\ pc = "next" => rcvd = <<>> /\ toClient = <<>>
  /\ (pc = "next" \/ (program \in Printers /\ shut /\ ~lost)) /\ result = Ok
       => taken = [k \in 1 .. given |-> k]

Refusals == {k \in DOMAIN served : ~served[k].ok /\ ~IsOptional(served[k].call)}

\* What a program's exit status says, unless the connection is lost: success,
\* that every call was served and none that matters refused, and every ping
\* answered; failure, that one was refused.  fset succeeds whatever happens.
\* Only button-demo, which goes on sending cancels, may end in another way.
ExitMeansAnswered ==
  ~lost =>
    /\ exit = "success" /\ program # "fset" =>
         /\ Refusals = {} /\ pongs = count
         /\ Len(served) >= IF program \in Printers THEN 1 ELSE Len(script)
    /\ exit = "failure" => Refusals # {}
    /\ exit \in {"abort", "killed", "confused"} => program = "buttonDemo"

\* The calls of a script, without the requests that button-demo makes later.
InScript ==
  CASE IsTool                                                -> <<>>
    [] program = "buttonDemo" /\ Len(script) < Len(served) -> SubSeq(served, 1, Len(script))
    [] OTHER                                                 -> served

Over == ended \/ exit # "none"

C == INSTANCE Calls WITH served <- InScript, over <- Over

\* The programs' calls are served one at a time, each after the one before has
\* returned, and none after one that was refused (synced.cc throws path_error).
CallsInOrder == C!CSpec

\* Where a program may stay: at its end, or where it waits for the server to
\* quit, for the raster's author or for clicks.
AtRest ==
  \/ pc = "exited" /\ ended
  \/ pc \in {"block", "threads", "wait"}
  \/ pc = "clicks" /\ given < 2


\* What the raster's author publishes last is what the window shows in the end,
\* although update_loop (display.cc) sends the image straight from the raster
\* while it is drawn.
LastImageShown ==
  <>[](program = "watch" /\ ready /\ updates = syncSeed /\ ~ended /\ exit = "none") => <>[](shown = raster)
=============================================================================
