----------------------------- MODULE Connection -----------------------------
(***************************************************************************)
(* One client program, its connection, and what the session at the other   *)
(* end does with its frames.  The threads behind the session's answers are *)
(* in Session, the bytes of the frames in Wire; here the session handles a *)
(* request in one step and its answer is a sequence of whole frames.       *)
(*                                                                         *)
(* A request travels as one frame: the program sends the frames of a       *)
(* request together, and the session acts on the last of them.  The        *)
(* modules that extend this one add the programs.                          *)
(***************************************************************************)
EXTENDS Integers, Sequences, FiniteSets

CONSTANTS
  MaxItems,    \* most frames an answer has before its result      (a bound)
  MaxFd,       \* the file descriptors a program chooses are 0 .. MaxFd
  Height,      \* rows of the image that display shows
  Windows,     \* values of --window, in data frames; 0 is no control
  Cuts         \* whether the connection may be lost

ASSUME ConnectionAssumption ==
  /\ MaxItems \in Nat \ {0} /\ MaxFd \in Nat /\ Height \in Nat \ {0}
  /\ Windows \subseteq Nat /\ Windows # {}
  /\ Cuts \in BOOLEAN

Ids  == {0, 1}    \* the request ids that the programs use
Fds  == 0 .. MaxFd
Rows == 0 .. Height - 1

VARIABLES
  program,    \* the program the client runs
  pc,         \* where its main thread is
  exit,       \* how it has ended, or "none"
  result,     \* the result it was given last
  taken,      \* items of the current answer it was given
  rcvd,       \* frames its receiver has read and its handler has not seen
  shut,       \* whether it has shut down its sending side
  toServer,   \* frames on their way to the session
  toClient,   \* frames on their way to the program
  lost,       \* whether the connection has been lost
  window,     \* --window
  ended,      \* whether the session has ended
  inFlight,   \* data frames sent and not acknowledged
  box,        \* its_requests: the call a task works on, or has answered
  left,       \* data frames that a task will yet read and send
  given,      \* items in the session's last answer
  files,      \* the session's open files
  shown,      \* the image file: for each row, the update it is of
  served      \* the calls the session has answered, and whether it agreed

clientVars  == <<program, pc, exit, result, taken, rcvd, shut>>
answerVars  == <<given, files, shown, served>>
sessionVars == <<ended, inFlight, box, left, answerVars>>
connVars    == <<clientVars, toServer, toClient, lost, window, sessionVars>>

\* A call names a file and, for display's image, the rows it writes.
Call(op, file) == [op |-> op, file |-> file, rows |-> {}]

NoFile == "no file"
Free   == Call("free", NoFile)    \* a box with no request
Done   == Call("done", NoFile)    \* a box whose task has answered

\* A frame to the session: a request with its id, its call, the descriptor it
\* names and the contents of the rows it writes, or a frame of another type.
Frame(type, id, call, fd, image) ==
  [type |-> type, id |-> id, call |-> call, fd |-> fd, image |-> image]

Signal(type, id)        == Frame(type, id, Free, 0, <<>>)
Answer(type, id, value) == [type |-> type, id |-> id, value |-> value]

Ok       == 0
Refused  == 1    \* any errno
Canceled == 2    \* ECANCELED

InitConnection ==
  /\ exit = "none" /\ result = Ok /\ taken = <<>> /\ rcvd = <<>> /\ shut = FALSE
  /\ toServer = <<>> /\ toClient = <<>> /\ lost = FALSE /\ window \in Windows
  /\ ended = FALSE /\ inFlight = 0
  /\ box = [i \in Ids |-> Free] /\ left = [i \in Ids |-> 0]
  /\ given = 0 /\ files = [fd \in Fds |-> NoFile]
  /\ shown = [r \in Rows |-> -1] /\ served = <<>>

----------------------------------------------------------------------------
(* The program's side: how it sends, reads and ends.                       *)

Send(frames) == ~ended /\ toServer' = toServer \o frames

\* When a process ends, its side of the connection is closed.
Exit(status) == pc' = "exited" /\ exit' = status /\ shut' = TRUE

\* What a program sends to a session that has ended goes nowhere, or it is
\* killed: by SIGPIPE, or by failed_write, which no program catches.
SendFails == ended /\ toServer' = toServer

Killed ==
  /\ ended
  /\ Exit("killed")
  /\ UNCHANGED <<program, result, taken, rcvd, toServer>>

\* One read() of run_event_loop returns any number of the frames that have come.
Receive ==
  /\ pc \in {"read", "clicks"}
  /\ rcvd = <<>>
  /\ \E n \in 1 .. Len(toClient) :
       /\ rcvd' = SubSeq(toClient, 1, n)
       /\ toClient' = SubSeq(toClient, n + 1, Len(toClient))
  /\ UNCHANGED <<program, pc, exit, result, taken, shut, toServer, lost, window, sessionVars>>

\* Nothing is left to read: read() returns 0 or, of a lost connection, -1.
AtEnd(looped) ==
  /\ pc \in {"read", "clicks"}
  /\ rcvd = <<>> /\ toClient = <<>> /\ ended
  /\ looped \in {0} \cup (IF lost THEN {-1} ELSE {})

----------------------------------------------------------------------------
(* The session's side: frame_handler, and the task that reads a file.      *)

\* check_tasks empties the boxes of the tasks that have answered.
Checked == [i \in Ids |-> IF box[i] = Done THEN Free ELSE box[i]]

Streams == {"clicked"}    \* files that block rather than end

Reply(answers) == toClient' = toClient \o answers

Respond(id, value) == Reply(<<Answer("result", id, value)>>)

Record(call, ok) == served' = Append(served, [call |-> call, ok |-> ok])

\* The session ends: its requests and its open files are destroyed.
EndSession ==
  /\ ended' = TRUE /\ toServer' = <<>>
  /\ box' = [i \in Ids |-> Free] /\ left' = [i \in Ids |-> 0]
  /\ files' = [fd \in Fds |-> NoFile]
  /\ UNCHANGED <<clientVars, window, inFlight, given, shown, served>>

\* stat and list: the attributes that a file has (at least its mode), or the
\* names in a directory, and the result.
ServeLook(f) ==
  /\ f.call.op \in {"stat", "list"}
  /\ \E n \in 0 .. MaxItems :
       /\ f.call.op = "stat" => n > 0
       /\ given' = n
       /\ Reply([k \in 1 .. n |-> Answer(f.call.op, f.id, k)] \o <<Answer("result", f.id, Ok)>>)
  /\ Record(f.call, TRUE)
  /\ UNCHANGED <<files, shown>>

\* put, pwrite, open, close and link change something and send no data.  close
\* of a descriptor that is not open is refused.
ServeChange(f) ==
  /\ f.call.op \in {"put", "pwrite", "open", "close", "link"}
  /\ f.call.op = "close" => files[f.fd] # NoFile
  /\ files' = CASE f.call.op = "open"  -> [files EXCEPT ![f.fd] = f.call.file]
                [] f.call.op = "close" -> [files EXCEPT ![f.fd] = NoFile]
                [] OTHER               -> files
  /\ shown' = [r \in Rows |-> IF r \in f.call.rows THEN f.image[r] ELSE shown[r]]
  /\ given' = 0
  /\ Respond(f.id, Ok)
  /\ Record(f.call, TRUE)

\* The file system refuses what it is asked, or --rw was not given.
ServeRefusal(f) ==
  /\ f.call.op # "read"
  /\ given' = 0
  /\ Respond(f.id, Refused)
  /\ Record(f.call, FALSE)
  /\ UNCHANGED <<files, shown>>

ServeRequest(f) ==
  /\ f.type = "request" /\ Checked[f.id] = Free
  /\ ServeLook(f) \/ ServeChange(f) \/ ServeRefusal(f)
  /\ box' = Checked
  /\ UNCHANGED <<inFlight, left>>

\* A read goes on in a task of its own.
ServeRead(f) ==
  /\ f.type = "request" /\ Checked[f.id] = Free
  /\ f.call.op = "read"
  /\ box' = [Checked EXCEPT ![f.id] = f.call]
  /\ \E n \in 0 .. MaxItems : left' = [left EXCEPT ![f.id] = n]
  /\ given' = 0
  /\ UNCHANGED <<toClient, inFlight, files, shown, served>>

ServePing(f) ==
  /\ f.type = "ping"
  /\ Reply(<<Answer("pong", 0, 0)>>)
  /\ box' = Checked
  /\ UNCHANGED <<inFlight, left, answerVars>>

ServeAck(f) ==
  /\ f.type = "ack"
  /\ inFlight' = IF window = 0 THEN inFlight ELSE inFlight - 1
  /\ box' = Checked
  /\ UNCHANGED <<toClient, left, answerVars>>

\* The task is joined before the answer is sent.  What it was writing may have
\* stopped anywhere (Session), and then the program cannot read what follows.
ServeCancel(f) ==
  /\ f.type = "cancel" /\ Checked[f.id] # Free
  /\ \/ Respond(f.id, Canceled)
     \/ left[f.id] > 0 /\ Reply(<<Answer("junk", 0, 0)>>)
  /\ box' = [Checked EXCEPT ![f.id] = Free]
  /\ left' = [left EXCEPT ![f.id] = 0]
  /\ UNCHANGED <<inFlight, answerVars>>

Serve ==
  /\ ~ended /\ toServer # <<>>
  /\ LET f == Head(toServer)
     IN  ServeRequest(f) \/ ServeRead(f) \/ ServePing(f) \/ ServeAck(f) \/ ServeCancel(f)
  /\ toServer' = Tail(toServer)
  /\ UNCHANGED <<clientVars, lost, window, ended>>

\* frame_handler returns EEXIST for a request whose id is taken, and ESRCH for
\* any other frame whose request does not exist.
ServeBadFrame ==
  /\ ~ended /\ toServer # <<>>
  /\ LET f == Head(toServer)
     IN  /\ f.type \in {"request", "cancel"}
         /\ (f.type = "request") = (Checked[f.id] # Free)
  /\ EndSession
  /\ UNCHANGED <<toClient, lost>>

ServeEnd ==
  /\ ~ended /\ toServer = <<>> /\ shut
  /\ EndSession
  /\ UNCHANGED <<toClient, lost>>

TaskData_Bug(i) ==    \* sends first, then waits for the window
  /\ box[i].op = "read" /\ left[i] > 0
  /\ left' = [left EXCEPT ![i] = @ - 1]
  /\ inFlight' = IF window = 0 THEN inFlight ELSE inFlight + 1
  /\ given' = given + 1
  /\ Reply(<<Answer("read", i, given + 1)>>)
  /\ UNCHANGED <<clientVars, toServer, lost, window, ended, box, files, shown, served>>

\* The task sends what it has read once the window is open.
TaskData(i) ==
  /\ box[i].op = "read" /\ left[i] > 0
  /\ window # 0 => inFlight < window
  /\ left' = [left EXCEPT ![i] = @ - 1]
  /\ inFlight' = IF window = 0 THEN inFlight ELSE inFlight + 1
  /\ given' = given + 1
  /\ Reply(<<Answer("read", i, given + 1)>>)
  /\ UNCHANGED <<clientVars, toServer, lost, window, ended, box, files, shown, served>>

TaskResult_Bug(i) ==    \* does not read on after the first data
  /\ box[i].op = "read" /\ box[i].file \notin Streams
  /\ left[i] = 0 \/ given > 0
  /\ \E ok \in BOOLEAN : Respond(i, IF ok THEN Ok ELSE Refused) /\ Record(box[i], ok)
  /\ box' = [box EXCEPT ![i] = Done]
  /\ given' = given + left[i]
  /\ left' = [left EXCEPT ![i] = 0]
  /\ UNCHANGED <<clientVars, toServer, lost, window, ended, inFlight, files, shown>>

\* The task finds the file at its end, which a stream does not have, or opening
\* or reading it has failed.
TaskResult(i) ==
  /\ box[i].op = "read" /\ box[i].file \notin Streams
  /\ left[i] = 0
  /\ \E ok \in BOOLEAN : Respond(i, IF ok THEN Ok ELSE Refused) /\ Record(box[i], ok)
  /\ box' = [box EXCEPT ![i] = Done]
  /\ UNCHANGED <<clientVars, toServer, lost, window, ended, inFlight, left, given, files, shown>>

\* A stream cannot be opened or read; it need not happen.
StreamFails(i) ==
  /\ box[i].op = "read" /\ box[i].file \in Streams
  /\ left[i] = 0
  /\ Respond(i, Refused) /\ Record(box[i], FALSE)
  /\ box' = [box EXCEPT ![i] = Done]
  /\ UNCHANGED <<clientVars, toServer, lost, window, ended, inFlight, left, given, files, shown>>

\* The connection is lost, and with it any of the frames under way.
Cut ==
  /\ Cuts /\ ~ended
  /\ lost' = TRUE
  /\ \E n \in 0 .. Len(toClient) : toClient' = SubSeq(toClient, 1, n)
  /\ EndSession

SessionStep ==
  \/ Serve \/ ServeBadFrame \/ ServeEnd
  \/ \E i \in Ids : TaskData(i) \/ TaskResult(i)
=============================================================================
