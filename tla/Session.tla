------------------------------ MODULE Session ------------------------------
(***************************************************************************)
(* One freemountd session: the main thread, which runs the event loop and  *)
(* frame_handler, the task threads that serve read requests, and the       *)
(* client at the other end of the two pipes.  The threads share the table  *)
(* of requests, one send_queue with its send_lock, and the window of data  *)
(* in flight.                                                              *)
(*                                                                         *)
(* Frames towards the server are whole: data_receiver hands them over one  *)
(* by one, and the ones that only fill in a request's arguments are left   *)
(* out.  Towards the client the model keeps the pieces a write() may stop  *)
(* between: a data frame has a head and a body, any other frame is one     *)
(* piece.                                                                  *)
(***************************************************************************)
EXTENDS Integers, Sequences, FiniteSets

CONSTANTS
  NIds,        \* request ids are 0 .. NIds-1   (256 in the code)
  MaxChunks,   \* most data frames one read sends                 (a bound)
  Window,      \* --window: data frames in flight; 0 is no control
  QueueCap,    \* pieces the send_queue's buffer holds
  PipeCap,     \* pieces the pipe to the client holds
  InCap,       \* frames the pipe to the server holds
  Kinds,       \* kinds of request the client makes
  Cancels,     \* ids of the requests the client may cancel
  Pings,       \* whether the client pings
  Acks,        \* whether the client acknowledges the data it reads
  HalfCloses,  \* whether the client may shut down its sending side early
  Vanishes     \* whether the client may vanish without closing

AllKinds == {"sync", "read", "tail"}

ASSUME SessionAssumption ==
  /\ NIds \in Nat \ {0}
  /\ MaxChunks \in Nat
  /\ Window \in Nat
  /\ QueueCap \in Nat \ {0}
  /\ PipeCap \in Nat \ {0}
  /\ InCap \in Nat /\ InCap >= 2
  /\ Kinds \subseteq AllKinds
  /\ Cancels \subseteq 0 .. NIds - 1
  /\ Pings \in BOOLEAN /\ Acks \in BOOLEAN
  /\ HalfCloses \in BOOLEAN /\ Vanishes \in BOOLEAN

Ids     == 0 .. NIds - 1
Main    == -1
Nobody  == -2
Threads == Ids \cup {Main}

None   == -1   \* rx: the client is between frames
Broken == -2   \* rx: the client has read something that is not a frame
Gone   == -3   \* rx: the client has vanished

VARIABLES
  client,     \* the client's view of each id: free, open or cancelling
  rx,         \* the data frame the client has the head of
  pinging,    \* whether the client awaits a pong
  ackDue,     \* whether the client's handler is about to send an ack
  inbox,      \* frames on their way to the server
  eof,        \* whether the client has shut down its sending side, or is gone
  pc,         \* where each thread is; "none": r->task is NULL
  job,        \* what each thread takes send_lock for
  frame,      \* main thread: the frame being handled
  idx,        \* main thread: index of its loop over the requests
  status,     \* main thread: what ended the event loop
  box,        \* its_requests: the kind of each request, or "none"
  cancelled,  \* whether each task thread has been told to cancel
  left,       \* data frames the file being read has yet to give
  lock,       \* the holder of send_lock
  todo,       \* what the holder has yet to add to the queue or to flush
  queue,      \* the send_queue's buffer
  sent,       \* pieces of it that write_all has written in this flush
  pipe,       \* pieces on their way to the client
  inFlight    \* n_data_bytes_in_flight, in data frames

cvars == <<client, rx, pinging, ackDue>>
ivars == <<inbox, eof>>
mvars == <<frame, idx, status>>
tvars == <<box, cancelled, left>>
ovars == <<lock, todo, queue, sent, pipe>>
vars  == <<cvars, ivars, pc, job, mvars, tvars, ovars, inFlight>>

InFrame(type, id, kind) == [type |-> type, id |-> id, kind |-> kind]
Piece(kind, id)         == [kind |-> kind, id |-> id]

InFrames == [type : {"request", "submit", "cancel", "ack", "ping"},
             id : Ids, kind : AllKinds \cup {"none"}]
Pieces   == [kind : {"meta", "head", "body", "result", "pong"}, id : Ids]

\* What a critical section under send_lock does, in order: add a piece to the
\* queue, write a body too large for the queue ("bulk"), or flush.
Steps == Pieces \cup [kind : {"bulk", "flush"}, id : Ids]

Jobs    == {"none", "size", "data", "slurp", "sync", "result", "pong"}
MainPcs == {"idle", "check", "handle", "acquire", "output", "join", "teardown", "exited"}
TaskPcs == {"none", "begin", "read", "window", "acquire", "output", "write",
            "test", "mutex", "mark", "done", "dead"}

Ended == {"done", "dead"}    \* pcs of a thread that join() returns for

Init ==
  /\ client = [i \in Ids |-> "free"]
  /\ rx = None /\ pinging = FALSE /\ ackDue = FALSE
  /\ inbox = <<>> /\ eof = FALSE
  /\ pc = [t \in Threads |-> IF t = Main THEN "idle" ELSE "none"]
  /\ job = [t \in Threads |-> "none"]
  /\ frame = InFrame("ping", 0, "none") /\ idx = 0 /\ status = "none"
  /\ box = [i \in Ids |-> "none"]
  /\ cancelled = [i \in Ids |-> FALSE]
  /\ left = [i \in Ids |-> 0]
  /\ lock = Nobody /\ todo = <<>> /\ queue = <<>> /\ sent = 0 /\ pipe = <<>>
  /\ inFlight = 0

Goto(t, p) == pc' = [pc EXCEPT ![t] = p]

WantLock(t, j) == Goto(t, "acquire") /\ job' = [job EXCEPT ![t] = j]

----------------------------------------------------------------------------
(* The shared output: send_lock, the send_queue and write_in_full.         *)

Flush         == Piece("flush", 0)
Data(i, body) == <<Piece("head", i), Piece(body, i), Flush>>

Script_Bug(j, i) ==    \* send_response without its flush
  CASE j = "size"   -> {<<Piece("meta", i)>>}
    [] j = "data"   -> {Data(i, "body"), Data(i, "bulk")}
    [] j = "slurp"  -> {<<Piece("meta", i)>> \o Data(i, b) : b \in {"body", "bulk"}}
    [] j = "sync"   -> {<<>>, <<Piece("meta", i)>>}
    [] j = "result" -> {<<Piece("result", i)>>}
    [] j = "pong"   -> {<<Piece("pong", 0), Flush>>}
    [] OTHER        -> {}

\* What each job queues, i being the request's id.  A body goes through the
\* queue or past it, a size or a directory entry is left in the queue.
Script(j, i) ==
  CASE j = "size"   -> {<<Piece("meta", i)>>}
    [] j = "data"   -> {Data(i, "body"), Data(i, "bulk")}
    [] j = "slurp"  -> {<<Piece("meta", i)>> \o Data(i, b) : b \in {"body", "bulk"}}
    [] j = "sync"   -> {<<>>, <<Piece("meta", i)>>}
    [] j = "result" -> {<<Piece("result", i), Flush>>}
    [] j = "pong"   -> {<<Piece("pong", 0), Flush>>}
    [] OTHER        -> {}

IdOf(t) == IF t = Main THEN frame.id ELSE t

Acquire(t) ==
  /\ pc[t] = "acquire"
  /\ lock = Nobody
  /\ lock' = t
  /\ todo' \in Script(job[t], IdOf(t))
  /\ Goto(t, "output")
  /\ UNCHANGED <<cvars, ivars, job, mvars, tvars, queue, sent, pipe, inFlight>>

\* Mutants of definitions below are named ..._Bug.

Add_Bug ==    \* without the test for room
  /\ Head(todo) \in Pieces
  /\ queue' = Append(queue, Head(todo))
  /\ todo' = Tail(todo)
  /\ UNCHANGED <<sent, pipe>>

\* send_queue::add, for a piece that fits in the buffer.
Add ==
  /\ Head(todo) \in Pieces
  /\ Len(queue) < QueueCap
  /\ queue' = Append(queue, Head(todo))
  /\ todo' = Tail(todo)
  /\ UNCHANGED <<sent, pipe>>

\* send_queue::add flushes first when what it is given does not fit.
AddFlushes ==
  /\ \/ Head(todo) \in Pieces /\ Len(queue) = QueueCap
     \/ Head(todo).kind = "bulk" /\ queue # <<>>
  /\ todo' = <<Flush>> \o todo
  /\ UNCHANGED <<queue, sent, pipe>>

FlushNothing ==
  /\ Head(todo).kind = "flush" /\ queue = <<>>
  /\ todo' = Tail(todo)
  /\ UNCHANGED <<queue, sent, pipe>>

AtWrite_Bug ==    \* a body too large for the queue overtakes it
  /\ todo # <<>>
  /\ \/ Head(todo).kind = "flush" /\ queue # <<>>
     \/ Head(todo).kind = "bulk"

\* Where write_all is about to write, and first calls testcancel.
AtWrite ==
  /\ todo # <<>>
  /\ \/ Head(todo).kind = "flush" /\ queue # <<>>
     \/ Head(todo).kind = "bulk" /\ queue = <<>>

IsCancelled(t) == t \in Ids /\ cancelled[t]

WriteQueued_Bug ==    \* flush without clear()
  /\ Head(todo).kind = "flush"
  /\ pipe' = Append(pipe, queue[sent + 1])
  /\ UNCHANGED queue
  /\ IF sent + 1 = Len(queue)
       THEN sent' = 0 /\ todo' = Tail(todo)
       ELSE sent' = sent + 1 /\ UNCHANGED todo

\* One round of write_all's loop.  The buffer is cleared by flush() after the
\* last one.
WriteQueued ==
  /\ Head(todo).kind = "flush"
  /\ pipe' = Append(pipe, queue[sent + 1])
  /\ IF sent + 1 = Len(queue)
       THEN queue' = <<>> /\ sent' = 0 /\ todo' = Tail(todo)
       ELSE sent' = sent + 1 /\ UNCHANGED <<queue, todo>>

WriteBulk ==
  /\ Head(todo).kind = "bulk"
  /\ pipe' = Append(pipe, Piece("body", Head(todo).id))
  /\ todo' = Tail(todo)
  /\ UNCHANGED <<queue, sent>>

\* write(), for a client that is there.
WriteOnce == AtWrite /\ rx # Gone /\ Len(pipe) < PipeCap /\ (WriteQueued \/ WriteBulk)

\* testcancel and write() are one step as long as the thread is not cancelled.
Write(t) == ~IsCancelled(t) /\ WriteOnce

Output(t) ==
  /\ pc[t] = "output"
  /\ todo # <<>>
  /\ Add \/ AddFlushes \/ FlushNothing \/ Write(t)
  /\ UNCHANGED <<cvars, ivars, pc, job, mvars, tvars, lock, inFlight>>

\* A task that was cancelled after testcancel writes once more, as soon as the
\* pipe has room, and only then goes round to the next testcancel.
LateWrite(i) ==
  /\ pc[i] = "write"
  /\ WriteOnce
  /\ Goto(i, "output")
  /\ UNCHANGED <<cvars, ivars, job, mvars, tvars, lock, inFlight>>

\* A write to a client that is gone raises SIGPIPE, which nothing handles, or
\* else failed_write, which neither request_task::start nor main catches: the
\* process ends, and all its threads with it.
WriteFails(t) ==
  /\ pc[t] = "write" \/ (pc[t] = "output" /\ ~IsCancelled(t))
  /\ AtWrite /\ rx = Gone
  /\ status' = "EPIPE"
  /\ pc' = [u \in Threads |-> IF u = Main THEN "exited"
                             ELSE IF pc[u] = "none" THEN "none" ELSE "dead"]
  /\ lock' = Nobody /\ todo' = <<>> /\ queue' = <<>> /\ sent' = 0
  /\ UNCHANGED <<cvars, ivars, job, frame, idx, tvars, pipe, inFlight>>

Unlock ==
  /\ todo = <<>>
  /\ lock' = Nobody
  /\ UNCHANGED <<todo, queue, sent, pipe>>

----------------------------------------------------------------------------
(* A task: request_task::start running read() or read_slurp().             *)

\* The outcomes of resolving and opening the path: an error, a file whose
\* size is announced, a file without one, or (ENOENT) a generated file.
TaskOpen(i) ==
  /\ pc[i] = "begin"
  /\ \/ Goto(i, "test") /\ UNCHANGED <<job, left>>
     \/ WantLock(i, "size") /\ left' \in {[left EXCEPT ![i] = n] : n \in 0 .. MaxChunks}
     \/ /\ Goto(i, "read") /\ UNCHANGED job
        /\ left' \in {[left EXCEPT ![i] = n] : n \in 0 .. MaxChunks}
     \/ Goto(i, "window") /\ job' = [job EXCEPT ![i] = "slurp"] /\ UNCHANGED left
  /\ UNCHANGED <<cvars, ivars, mvars, box, cancelled, ovars, inFlight>>

\* read() of the file gives data, or reports its end or an error.  A file
\* like a terminal blocks when it has no more: only an interrupt ends that.
TaskRead(i) ==
  /\ pc[i] = "read"
  /\ \/ /\ left[i] > 0
        /\ left' = [left EXCEPT ![i] = @ - 1]
        /\ job' = [job EXCEPT ![i] = "data"]
        /\ Goto(i, "window")
     \/ /\ left[i] = 0 /\ box[i] # "tail"
        /\ Goto(i, "test")
        /\ UNCHANGED <<left, job>>
  /\ UNCHANGED <<cvars, ivars, mvars, box, cancelled, ovars, inFlight>>

TaskWindow_Bug(i) ==    \* waits while inFlight > Window
  /\ pc[i] = "window"
  /\ IF Window = 0 THEN UNCHANGED inFlight
                   ELSE inFlight <= Window /\ inFlight' = inFlight + 1
  /\ Goto(i, "acquire")
  /\ UNCHANGED <<cvars, ivars, job, mvars, tvars, ovars>>

\* data_transmitting: with a window, wait until it is open.
TaskWindow(i) ==
  /\ pc[i] = "window"
  /\ IF Window = 0 THEN UNCHANGED inFlight
                   ELSE inFlight < Window /\ inFlight' = inFlight + 1
  /\ Goto(i, "acquire")
  /\ UNCHANGED <<cvars, ivars, job, mvars, tvars, ovars>>

\* testcancel, once the file has been read.
TaskTest(i) ==
  /\ pc[i] = "test"
  /\ Goto(i, IF cancelled[i] THEN "dead" ELSE "mutex")
  /\ UNCHANGED <<cvars, ivars, job, mvars, tvars, ovars, inFlight>>

\* The task takes its_mutex, then goes on to send_response.
TaskMutex(i) ==
  /\ pc[i] = "mutex"
  /\ WantLock(i, "result")
  /\ UNCHANGED <<cvars, ivars, mvars, tvars, ovars, inFlight>>

HoldsMutex_Bug(i) == pc[i] = "mark"    \* sends the response, then locks

HoldsMutex(i) == \/ pc[i] \in {"acquire", "output", "write"} /\ job[i] = "result"
                 \/ pc[i] = "mark"

TaskReleases_Bug(i) ==    \* read()'s first send_lock lasts to the end of the function
  /\ pc[i] = "output"
  /\ IF job[i] = "size" THEN todo = <<>> /\ UNCHANGED <<lock, todo, queue, sent, pipe>>
                        ELSE Unlock
  /\ Goto(i, CASE job[i] = "slurp"  -> "test"
               [] job[i] = "result" -> "mark"
               [] OTHER             -> "read")
  /\ UNCHANGED <<cvars, ivars, job, mvars, tvars, inFlight>>

TaskReleases(i) ==
  /\ pc[i] = "output"
  /\ Unlock
  /\ Goto(i, CASE job[i] = "slurp"  -> "test"
               [] job[i] = "result" -> "mark"
               [] OTHER             -> "read")
  /\ UNCHANGED <<cvars, ivars, job, mvars, tvars, inFlight>>

\* its_status = 0, and its_mutex is released.
TaskMark(i) ==
  /\ pc[i] = "mark"
  /\ Goto(i, "done")
  /\ UNCHANGED <<cvars, ivars, job, mvars, tvars, ovars, inFlight>>

\* testcancel in write_all throws: the locks are released on the way out, the
\* queue's buffer stays as it is.
UnwindWrite(i) ==
  /\ pc[i] = "output"
  /\ AtWrite /\ cancelled[i]
  /\ lock' = Nobody /\ todo' = <<>> /\ sent' = 0
  /\ Goto(i, "dead")
  /\ UNCHANGED <<cvars, ivars, job, mvars, tvars, queue, pipe, inFlight>>

TaskStep(i) ==
  \/ TaskOpen(i) \/ TaskRead(i) \/ TaskTest(i) \/ TaskMutex(i)
  \/ Output(i) \/ WriteFails(i) \/ TaskReleases(i) \/ TaskMark(i)
  \/ LateWrite(i) \/ UnwindWrite(i)

Task(i) == TaskStep(i) \/ TaskWindow(i) \/ Acquire(i)

----------------------------------------------------------------------------
(* The main thread: run_event_loop, frame_handler and the session's end.   *)

TakeFrame ==
  /\ pc[Main] = "idle"
  /\ inbox # <<>>
  /\ frame' = Head(inbox)
  /\ inbox' = Tail(inbox)
  /\ idx' = 0
  /\ Goto(Main, "check")
  /\ UNCHANGED <<cvars, eof, job, status, tvars, ovars, inFlight>>

\* set_request( i, NULL ), with no task or with one that join() returns for.
Clear(i) == box' = [box EXCEPT ![i] = "none"] /\ cancelled' = [cancelled EXCEPT ![i] = FALSE]

\* One round of check_tasks: done() waits for its_mutex, a task that is done
\* is joined and its request destroyed.
CheckTask ==
  /\ pc[Main] = "check"
  /\ ~HoldsMutex(idx)
  /\ LET next == IF idx = NIds - 1 THEN "handle" ELSE "check" IN
     IF pc[idx] = "done"
       THEN Clear(idx) /\ pc' = [pc EXCEPT ![idx] = "none", ![Main] = next]
       ELSE Goto(Main, next) /\ UNCHANGED <<box, cancelled>>
  /\ idx' = IF idx = NIds - 1 THEN 0 ELSE idx + 1
  /\ UNCHANGED <<cvars, ivars, job, frame, status, left, ovars, inFlight>>

\* The event loop ends with a status, and main destroys the session.
EndWith(s) == status' = s /\ idx' = NIds - 1 /\ Goto(Main, "teardown")

HandlePing ==
  /\ frame.type = "ping"
  /\ WantLock(Main, "pong")
  /\ UNCHANGED <<mvars, tvars, inFlight>>

HandleAck_Bug ==    \* with a window, the data is never given back
  /\ frame.type = "ack"
  /\ Goto(Main, "idle")
  /\ UNCHANGED <<job, mvars, tvars, inFlight>>

\* data_acknowledged
HandleAck ==
  /\ frame.type = "ack"
  /\ inFlight' = IF Window = 0 THEN inFlight ELSE inFlight - 1
  /\ Goto(Main, "idle")
  /\ UNCHANGED <<job, mvars, tvars>>

HandleRequest ==
  /\ frame.type = "request"
  /\ IF box[frame.id] # "none"
       THEN EndWith("EEXIST") /\ UNCHANGED box
       ELSE /\ box' = [box EXCEPT ![frame.id] = frame.kind]
            /\ Goto(Main, "idle")
            /\ UNCHANGED <<idx, status>>
  /\ UNCHANGED <<job, frame, cancelled, left, inFlight>>

HandleMissing ==
  /\ frame.type \in {"submit", "cancel"}
  /\ box[frame.id] = "none"
  /\ EndWith("ESRCH")
  /\ UNCHANGED <<job, frame, tvars, inFlight>>

\* start_read: begin_task creates the thread.
SubmitRead ==
  /\ frame.type = "submit" /\ box[frame.id] \in {"read", "tail"}
  /\ pc' = [pc EXCEPT ![frame.id] = "begin", ![Main] = "idle"]
  /\ UNCHANGED <<job, mvars, tvars, inFlight>>

\* stat, list, open, close, write or link: the handler queues what it has, if
\* it has anything, then the request is destroyed and answered.
SubmitSync ==
  /\ frame.type = "submit" /\ box[frame.id] = "sync"
  /\ \/ WantLock(Main, "sync") /\ UNCHANGED <<box, cancelled>>
     \/ WantLock(Main, "result") /\ Clear(frame.id)
  /\ UNCHANGED <<mvars, left, inFlight>>

\* Where a task may be once main has cancelled it.  testcancel will tell it so;
\* and the one SIGUSR1 that it gets, whose handler does nothing (freemountd.cc),
\* ends a read() that blocks (EINTR), and makes a write() that blocks go round
\* to testcancel.  A signal that comes just before either call is lost.  It ends
\* no wait for a lock, nor the loop in data_transmitting.
Interrupted(i) ==
  CASE pc[i] = "read" /\ box[i] = "tail" /\ left[i] = 0 -> {"read", "test"}
    [] pc[i] = "output" /\ lock = i /\ AtWrite           -> {"output", "write"}
    [] OTHER                                            -> {pc[i]}

HandleCancel_Bug ==    \* empties the box before it destroys the request
  /\ frame.type = "cancel" /\ box[frame.id] # "none"
  /\ box' = [box EXCEPT ![frame.id] = "none"]
  /\ IF pc[frame.id] = "none"
       THEN cancelled' = [cancelled EXCEPT ![frame.id] = FALSE] /\ WantLock(Main, "result")
       ELSE /\ cancelled' = [cancelled EXCEPT ![frame.id] = TRUE]
            /\ Goto(Main, "join")
            /\ UNCHANGED job
  /\ UNCHANGED <<mvars, left, inFlight>>

\* The request is destroyed, and with it its task: cancel, then join.
HandleCancel ==
  /\ frame.type = "cancel" /\ box[frame.id] # "none"
  /\ IF pc[frame.id] = "none"
       THEN Clear(frame.id) /\ WantLock(Main, "result")
       ELSE /\ cancelled' = [cancelled EXCEPT ![frame.id] = TRUE]
            /\ \E p \in Interrupted(frame.id) : pc' = [pc EXCEPT ![frame.id] = p, ![Main] = "join"]
            /\ UNCHANGED <<box, job>>
  /\ UNCHANGED <<mvars, left, inFlight>>

Handle ==
  /\ pc[Main] = "handle"
  /\ \/ HandlePing \/ HandleAck \/ HandleRequest \/ HandleMissing
     \/ SubmitRead \/ SubmitSync \/ HandleCancel
  /\ UNCHANGED <<cvars, ivars, ovars>>

Join ==
  /\ pc[Main] = "join"
  /\ pc[frame.id] \in Ended
  /\ Clear(frame.id)
  /\ pc' = [pc EXCEPT ![frame.id] = "none", ![Main] = "acquire"]
  /\ job' = [job EXCEPT ![Main] = "result"]
  /\ UNCHANGED <<cvars, ivars, mvars, left, ovars, inFlight>>

\* After a handler that queued something, the request is destroyed before the
\* response is sent.
MainReleases ==
  /\ pc[Main] = "output"
  /\ Unlock
  /\ IF job[Main] = "sync"
       THEN Clear(frame.id) /\ WantLock(Main, "result")
       ELSE Goto(Main, "idle") /\ UNCHANGED <<job, box, cancelled>>
  /\ UNCHANGED <<cvars, ivars, mvars, left, inFlight>>

\* read() reports the end of the input, or an error: what a client that is gone
\* had sent may be lost.
EndOfInput ==
  /\ pc[Main] = "idle"
  /\ \/ inbox = <<>> /\ eof /\ EndWith("eof")
     \/ rx = Gone /\ EndWith("ECONNRESET")
  /\ UNCHANGED <<cvars, ivars, job, frame, tvars, ovars, inFlight>>

TearDownCancel_Bug ==    \* misses a thread that reads
  /\ pc[Main] = "teardown"
  /\ pc[idx] \notin {"none", "read"} /\ ~cancelled[idx]
  /\ cancelled' = [cancelled EXCEPT ![idx] = TRUE]
  /\ \E p \in Interrupted(idx) : Goto(idx, p)
  /\ UNCHANGED <<cvars, ivars, job, mvars, box, left, ovars, inFlight>>

\* ~session destroys its_requests, the last one first.
TearDownCancel ==
  /\ pc[Main] = "teardown"
  /\ pc[idx] # "none" /\ ~cancelled[idx]
  /\ cancelled' = [cancelled EXCEPT ![idx] = TRUE]
  /\ \E p \in Interrupted(idx) : Goto(idx, p)
  /\ UNCHANGED <<cvars, ivars, job, mvars, box, left, ovars, inFlight>>

TearDownClear ==
  /\ pc[Main] = "teardown"
  /\ pc[idx] # "none" => cancelled[idx] /\ pc[idx] \in Ended
  /\ Clear(idx)
  /\ pc' = [pc EXCEPT ![idx] = "none", ![Main] = IF idx = 0 THEN "exited" ELSE @]
  /\ idx' = IF idx = 0 THEN 0 ELSE idx - 1
  /\ UNCHANGED <<cvars, ivars, job, frame, status, left, ovars, inFlight>>

MainStep ==
  \/ TakeFrame \/ CheckTask \/ Handle \/ Join
  \/ Output(Main) \/ WriteFails(Main) \/ MainReleases
  \/ EndOfInput \/ TearDownCancel \/ TearDownClear

MainThread == MainStep \/ Acquire(Main)

----------------------------------------------------------------------------
(* The client: it keeps to the protocol, reuses an id as soon as its result *)
(* has come, and is one thread that handles a frame before it reads on.     *)

\* Once the server has exited, what the client sends goes nowhere.
Sending == ~eof /\ ~ackDue /\ rx # Broken /\ pc[Main] # "exited"

Ask(i, kind) ==
  /\ Sending
  /\ client[i] = "free"
  /\ Len(inbox) + 2 <= InCap
  /\ client' = [client EXCEPT ![i] = "open"]
  /\ inbox' = inbox \o <<InFrame("request", i, kind), InFrame("submit", i, "none")>>
  /\ UNCHANGED <<rx, pinging, ackDue, eof>>

Cancel(i) ==
  /\ i \in Cancels
  /\ Sending
  /\ client[i] = "open"
  /\ Len(inbox) < InCap
  /\ client' = [client EXCEPT ![i] = "cancelling"]
  /\ inbox' = Append(inbox, InFrame("cancel", i, "none"))
  /\ UNCHANGED <<rx, pinging, ackDue, eof>>

Ping ==
  /\ Pings /\ ~pinging
  /\ Sending
  /\ Len(inbox) < InCap
  /\ inbox' = Append(inbox, InFrame("ping", 0, "none"))
  /\ pinging' = TRUE
  /\ UNCHANGED <<client, rx, ackDue, eof>>

SendAck ==
  /\ ackDue
  /\ eof \/ Len(inbox) < InCap
  /\ ackDue' = FALSE
  /\ inbox' = IF eof THEN inbox ELSE Append(inbox, InFrame("ack", 0, "none"))
  /\ UNCHANGED <<client, rx, pinging, eof>>

Close ==
  /\ ~eof /\ ~ackDue
  /\ HalfCloses \/ rx = Broken \/ \A i \in Ids : client[i] = "free"
  /\ eof' = TRUE
  /\ UNCHANGED <<cvars, inbox>>

ReceiveBody(p) ==
  /\ p.kind = "body" /\ rx = p.id
  /\ rx' = None
  /\ ackDue' = Acks
  /\ UNCHANGED <<client, pinging>>

ReceiveFrame(p) ==
  /\ p.kind # "body" /\ rx = None
  /\ rx' = IF p.kind = "head" THEN p.id ELSE None
  /\ client' = IF p.kind = "result" THEN [client EXCEPT ![p.id] = "free"] ELSE client
  /\ pinging' = (pinging /\ p.kind # "pong")
  /\ UNCHANGED ackDue

\* What does not continue the stream of frames makes the client give up.
ReceiveJunk(p) ==
  /\ IF p.kind = "body" THEN rx # p.id ELSE rx # None
  /\ rx' = Broken
  /\ UNCHANGED <<client, pinging, ackDue>>

Receive ==
  /\ pipe # <<>> /\ ~ackDue /\ rx # Gone
  /\ pipe' = Tail(pipe)
  /\ ReceiveBody(Head(pipe)) \/ ReceiveFrame(Head(pipe)) \/ ReceiveJunk(Head(pipe))
  /\ UNCHANGED <<ivars, pc, job, mvars, tvars, lock, todo, queue, sent, inFlight>>

Request ==
  /\ \/ \E i \in Ids : (\E kind \in Kinds : Ask(i, kind)) \/ Cancel(i)
     \/ Ping \/ Close
  /\ UNCHANGED <<pc, job, mvars, tvars, ovars, inFlight>>

Acknowledge == SendAck /\ UNCHANGED <<pc, job, mvars, tvars, ovars, inFlight>>

\* The client is killed, or the connection is lost: it sends and reads no more.
Vanish ==
  /\ Vanishes /\ rx # Gone
  /\ rx' = Gone /\ eof' = TRUE /\ ackDue' = FALSE /\ pipe' = <<>>
  /\ UNCHANGED <<client, pinging, inbox, pc, job, mvars, tvars,
                 lock, todo, queue, sent, inFlight>>

\* The session is over.
Exited == pc[Main] = "exited" /\ UNCHANGED vars

Next ==
  \/ MainThread \/ (\E i \in Ids : Task(i))
  \/ Request \/ Acknowledge \/ Receive \/ Vanish \/ Exited

Spec == Init /\ [][Next]_vars

\* The scheduler runs every thread, and a thread that keeps asking for a mutex
\* or for room in the window is granted it in the end: most steps of a thread
\* stay enabled until it takes them, the others need strong fairness.  The
\* client reads what it is sent and acknowledges it, but need not ask, cancel,
\* ping or close.
Fairness ==
  /\ SF_vars(MainThread)
  /\ \A i \in Ids : SF_vars(Task(i))
  /\ WF_vars(Receive \/ Acknowledge)

FairSpec == Spec /\ Fairness
----------------------------------------------------------------------------
(* Properties.                                                             *)

ClientTypeOK ==
  /\ client \in [Ids -> {"free", "open", "cancelling"}]
  /\ rx \in Ids \cup {None, Broken, Gone}
  /\ pinging \in BOOLEAN /\ ackDue \in BOOLEAN

InputTypeOK ==
  /\ inbox \in Seq(InFrames) /\ Len(inbox) <= InCap
  /\ eof \in BOOLEAN

ThreadTypeOK ==
  /\ pc \in [Threads -> MainPcs \cup TaskPcs]
  /\ pc[Main] \in MainPcs /\ \A i \in Ids : pc[i] \in TaskPcs
  /\ job \in [Threads -> Jobs]
  /\ frame \in InFrames
  /\ idx \in Ids
  /\ status \in {"none", "eof", "EEXIST", "ESRCH", "EPIPE", "ECONNRESET"}

TableTypeOK ==
  /\ box \in [Ids -> AllKinds \cup {"none"}]
  /\ cancelled \in [Ids -> BOOLEAN]
  /\ left \in [Ids -> 0 .. MaxChunks]

OutputTypeOK ==
  /\ lock \in Threads \cup {Nobody}
  /\ todo \in Seq(Steps)
  /\ queue \in Seq(Pieces) /\ Len(queue) <= QueueCap
  /\ pipe \in Seq(Pieces) /\ Len(pipe) <= PipeCap
  /\ sent \in Nat /\ (sent = 0 \/ sent < Len(queue))

\* Every variable has its type; in particular the mark of the send_queue's
\* buffer never passes its capacity (send_queue::add), and write_all never
\* points past the mark.
TypeOK ==
  ClientTypeOK /\ InputTypeOK /\ ThreadTypeOK /\ TableTypeOK /\ OutputTypeOK /\ inFlight \in Int

\* A task thread works on the request in its box, which request_task::start
\* looks up and read() goes on using: while the thread may still run, its box
\* is occupied.  It holds because request_box::acquire destroys the request,
\* which joins the thread, before it changes the pointer.
BoxOutlivesTask ==
  \A i \in Ids : pc[i] \notin {"none", "done", "dead"} => box[i] \in {"read", "tail"}

\* "A single message frame must be sent unbroken by other data"
\* (NOTES/protocol.md): on the wire a data frame's body follows its head and
\* nothing comes between them.
FramesUnbroken ==
  /\ rx # Broken
  /\ \A k \in 1 .. Len(pipe) :
       LET open == IF k = 1 THEN rx
                   ELSE IF pipe[k-1].kind = "head" THEN pipe[k-1].id ELSE None
       IN  IF pipe[k].kind = "body" THEN open = pipe[k].id ELSE open = None

\* A client that waits for a request's result before it uses the id again, and
\* cancels nothing, never makes frame_handler end the session: by the time its
\* next frame is handled, check_tasks has emptied the box of a task that has
\* answered, and no box is emptied earlier.
SessionSurvives == rx # Gone => status \in {"none", "eof"}

\* The pieces a client has yet to read: on the wire, then in the queue.
Unread == pipe \o SubSeq(queue, sent + 1, Len(queue))

\* How many elements of a sequence are in S.
Count(s, S) == Cardinality({k \in 1 .. Len(s) : s[k] \in S})

Of(kinds, ids) == [kind : kinds, id : ids]

Phase ==
  [i \in Ids |-> IF client[i] = "free" THEN "free"
                 ELSE IF Count(Unread, Of({"result"}, {i})) = 0 THEN "waiting" ELSE "answered"]

Coming == [i \in Ids |-> Count(Unread, Of({"body"}, {i}))]

R == INSTANCE Requests WITH phase <- Phase, coming <- Coming

\* "Either way, an end-of-message or error frame indicates that processing of
\* the request is complete and the sender is free to reuse the ID for another
\* request" (NOTES/protocol.md): the threads that share the queue answer each
\* request once, after its data, and leave nothing of it on its way when the id
\* is used again, as the abstract specification promises.
KeepsPromise == R!RSpec

\* Data counted by data_transmitting and not by data_acknowledged is exactly
\* what is in a task's hands, in the queue, on the wire, read but not
\* acknowledged, or acknowledged by a frame that is not handled yet: the window
\* loses no credit, and never more than Window frames are out.
WindowConserved ==
  Window # 0 =>
    LET holding == {i \in Ids : pc[i] = "acquire" /\ job[i] \in {"data", "slurp"}}
        acks    == {InFrame("ack", 0, "none")}
    IN  /\ inFlight = Cardinality(holding)
                      + Count(todo, Of({"body", "bulk"}, Ids)) + Count(Unread, Of({"body"}, Ids))
                      + (IF ackDue THEN 1 ELSE 0) + Count(inbox, acks)
                      + (IF pc[Main] \in {"check", "handle"} /\ frame \in acks THEN 1 ELSE 0)
        /\ inFlight <= Window

\* What is left in the queue for a later flush is never a result, data or a
\* pong: nobody waits for a frame that nothing will flush.
NothingStranded == lock = Nobody => \A k \in 1 .. Len(queue) : queue[k].kind = "meta"

\* Every request is answered, and the client gets the answer.
EveryRequestAnswered == \A i \in Ids : client[i] # "free" ~> client[i] = "free"

\* A cancelled task that no signal will move: it waits for the window, which
\* only the acks that main handles would open, or it blocks in read() and its
\* signal came before the call.
Deaf(i) ==
  /\ cancelled[i]
  /\ \/ pc[i] = "window" /\ Window # 0 /\ inFlight >= Window
     \/ pc[i] = "read" /\ box[i] = "tail" /\ left[i] = 0

\* Main joins a deaf task: the session makes no more progress.
Hung == \/ pc[Main] = "join" /\ Deaf(frame.id)
        \/ pc[Main] = "teardown" /\ Deaf(idx)

\* The main thread's join of a cancelled task returns, wherever the signal found
\* the task, unless the task is deaf: then the session hangs, but only then.
JoinReturns == pc[Main] = "join" ~> pc[Main] # "join" \/ Hung

\* Once the client has shut down its side or is gone, the session ends, every
\* task thread joined or the process dead of a write, unless it hangs in the
\* join of a deaf task.
ServerExits == eof ~> pc[Main] = "exited" \/ Hung
============================================================================
