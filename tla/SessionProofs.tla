--------------------------- MODULE SessionProofs ---------------------------
(***************************************************************************)
(* Theorems of Session, for every number of ids, window and capacity.      *)
(* First its types, and the boxes of its tasks; then what its threads put  *)
(* on the wire, and in which order: frames stay unbroken, nothing is       *)
(* stranded in the queue, a client that keeps to the protocol is never     *)
(* dropped, and each of its requests is answered once, after its data.     *)
(***************************************************************************)
EXTENDS Session, FiniteSetTheorems, SequenceTheorems, TLAPS

USE DEF Ids, Main, Nobody, Threads, None, Broken, Gone

\* Every job queues a sequence of steps of the model.
LEMMA ScriptType ==
  ASSUME NEW j, NEW i \in Ids
  PROVE  Script(j, i) \subseteq Seq(Steps)
<1> DEFINE S == {<<Piece("meta", i)>>, Data(i, "body"), Data(i, "bulk"), <<>>,
                 <<Piece("meta", i)>> \o Data(i, "body"), <<Piece("meta", i)>> \o Data(i, "bulk"),
                 <<Piece("result", i), Flush>>, <<Piece("pong", 0), Flush>>}
<1>0. 0 \in Ids
  BY SessionAssumption
<1>1. /\ Piece("meta", i) \in Steps /\ Piece("head", i) \in Steps
      /\ Piece("body", i) \in Steps /\ Piece("bulk", i) \in Steps
      /\ Piece("result", i) \in Steps /\ Piece("pong", 0) \in Steps
      /\ Flush \in Steps
  BY <1>0 DEF Steps, Pieces, Piece, Flush
<1>2. /\ Data(i, "body") \in Seq(Steps) /\ Data(i, "bulk") \in Seq(Steps)
      /\ <<Piece("meta", i)>> \in Seq(Steps)
  BY <1>1 DEF Data
<1>3. S \subseteq Seq(Steps)
  BY <1>1, <1>2
<1>4. Script(j, i) \subseteq S
  BY DEF Script
<1> QED
  BY <1>3, <1>4

LEMMA InitType == Init => TypeOK
<1> SUFFICES ASSUME Init PROVE TypeOK
  OBVIOUS
<1>0. /\ 0 \in Ids /\ NIds \in Nat
      /\ MaxChunks \in Nat /\ QueueCap \in Nat /\ PipeCap \in Nat /\ InCap \in Nat
  BY SessionAssumption
<1>1. ClientTypeOK
  BY DEF Init, ClientTypeOK
<1>2. InputTypeOK
  <2>1. inbox = <<>> /\ eof \in BOOLEAN
    BY DEF Init
  <2> QED
    BY <1>0, <2>1 DEF InputTypeOK
<1>3. ThreadTypeOK
  <2>1. pc \in [Threads -> MainPcs \cup TaskPcs]
    BY DEF Init, MainPcs, TaskPcs
  <2>2. pc[Main] \in MainPcs /\ \A i \in Ids : pc[i] \in TaskPcs
    BY <1>0 DEF Init, MainPcs, TaskPcs
  <2>3. job \in [Threads -> Jobs]
    BY DEF Init, Jobs
  <2>4. frame \in InFrames /\ idx \in Ids
    BY <1>0 DEF Init, InFrame, InFrames
  <2> QED
    BY <2>1, <2>2, <2>3, <2>4 DEF Init, ThreadTypeOK
<1>4. TableTypeOK
  BY <1>0 DEF Init, TableTypeOK
<1>5. OutputTypeOK
  BY <1>0 DEF Init, OutputTypeOK
<1> QED
  BY <1>1, <1>2, <1>3, <1>4, <1>5 DEF TypeOK, Init

----------------------------------------------------------------------------
(* A step keeps each part of TypeOK.                                       *)

\* A signal leaves a thread where it was, or moves it to one of three places.
LEMMA InterruptedType ==
  ASSUME TypeOK, NEW i \in Ids, NEW p \in Interrupted(i)
  PROVE  /\ p \in TaskPcs
         /\ p = pc[i] \/ (pc[i] \in {"read", "output"} /\ p \in {"test", "write"})
<1>1. pc[i] \in TaskPcs
  BY DEF TypeOK, ThreadTypeOK
<1>2. CASE pc[i] = "read" /\ box[i] = "tail" /\ left[i] = 0
  BY <1>2 DEF Interrupted, TaskPcs
<1>3. CASE ~(pc[i] = "read" /\ box[i] = "tail" /\ left[i] = 0) /\ pc[i] = "output" /\ lock = i /\ AtWrite
  BY <1>3 DEF Interrupted, TaskPcs
<1>4. CASE /\ ~(pc[i] = "read" /\ box[i] = "tail" /\ left[i] = 0)
           /\ ~(pc[i] = "output" /\ lock = i /\ AtWrite)
  BY <1>1, <1>4 DEF Interrupted
<1> QED
  BY <1>2, <1>3, <1>4

\* Moving one thread.
LEMMA GotoType ==
  ASSUME ThreadTypeOK, NEW t \in Threads, NEW p, Goto(t, p),
         p \in IF t = Main THEN MainPcs ELSE TaskPcs
  PROVE  /\ pc' \in [Threads -> MainPcs \cup TaskPcs]
         /\ pc'[Main] \in MainPcs /\ \A i \in Ids : pc'[i] \in TaskPcs
<1>0. \A i \in Ids : i # Main
  BY SessionAssumption
<1> QED
  BY <1>0 DEF ThreadTypeOK, Goto

LEMMA StutterType == TypeOK /\ UNCHANGED vars => TypeOK'
BY DEF vars, cvars, ivars, mvars, tvars, ovars, TypeOK, ClientTypeOK, InputTypeOK,
       ThreadTypeOK, TableTypeOK, OutputTypeOK

LEMMA AcquireType ==
  ASSUME TypeOK, NEW t \in Threads, Acquire(t)
  PROVE  TypeOK'
<1>1. UNCHANGED <<cvars, ivars, job, mvars, tvars, queue, sent, pipe, inFlight>>
  BY DEF Acquire
<1>2. ClientTypeOK' /\ InputTypeOK' /\ TableTypeOK'
  BY <1>1 DEF TypeOK, ClientTypeOK, InputTypeOK, TableTypeOK, cvars, ivars, tvars
<1>3. ThreadTypeOK'
  <2>1. Goto(t, "output") /\ "output" \in IF t = Main THEN MainPcs ELSE TaskPcs
    BY DEF Acquire, MainPcs, TaskPcs
  <2> QED
    BY <1>1, <2>1, GotoType DEF TypeOK, ThreadTypeOK, mvars
<1>4. OutputTypeOK'
  <2>1. IdOf(t) \in Ids
    BY DEF IdOf, TypeOK, ThreadTypeOK, InFrames
  <2>2. todo' \in Seq(Steps)
    BY <2>1, ScriptType DEF Acquire
  <2>3. lock' \in Threads \cup {Nobody}
    BY DEF Acquire
  <2> QED
    BY <1>1, <2>2, <2>3 DEF TypeOK, OutputTypeOK
<1> QED
  BY <1>1, <1>2, <1>3, <1>4 DEF TypeOK

\* One write() keeps the queue's mark and the position in it.
LEMMA WriteOnceType ==
  ASSUME TypeOK, WriteOnce, lock' \in Threads \cup {Nobody}
  PROVE  OutputTypeOK'
<1>1. /\ todo # <<>>
      /\ Head(todo) \in Steps /\ Tail(todo) \in Seq(Steps)
      /\ QueueCap \in Nat /\ PipeCap \in Nat
  BY SessionAssumption DEF WriteOnce, AtWrite, TypeOK, OutputTypeOK
<1>2. CASE WriteQueued
  <2>1. queue # <<>>
    BY <1>2 DEF WriteOnce, AtWrite, WriteQueued
  <2>2. sent + 1 \in 1 .. Len(queue) /\ queue[sent + 1] \in Pieces
    BY <2>1 DEF TypeOK, OutputTypeOK
  <2>3. pipe' \in Seq(Pieces) /\ Len(pipe') <= PipeCap
    BY <1>1, <1>2, <2>2 DEF WriteOnce, WriteQueued, TypeOK, OutputTypeOK
  <2>4. todo' \in Seq(Steps)
    BY <1>1, <1>2 DEF WriteQueued, TypeOK, OutputTypeOK
  <2>5. /\ queue' \in Seq(Pieces) /\ Len(queue') <= QueueCap
        /\ sent' \in Nat /\ (sent' = 0 \/ sent' < Len(queue'))
    <3>1. CASE sent + 1 = Len(queue)
      BY <1>1, <1>2, <3>1 DEF WriteQueued
    <3>2. CASE sent + 1 # Len(queue)
      BY <1>1, <1>2, <2>2, <3>2 DEF WriteQueued, TypeOK, OutputTypeOK
    <3> QED
      BY <3>1, <3>2
  <2> QED
    BY <2>3, <2>4, <2>5 DEF OutputTypeOK
<1>3. CASE WriteBulk
  <2>1. Piece("body", Head(todo).id) \in Pieces
    BY <1>1 DEF Steps, Pieces, Piece
  <2>2. pipe' \in Seq(Pieces) /\ Len(pipe') <= PipeCap
    BY <1>1, <1>3, <2>1 DEF WriteOnce, WriteBulk, TypeOK, OutputTypeOK
  <2> QED
    BY <1>1, <1>3, <2>2 DEF WriteBulk, TypeOK, OutputTypeOK
<1> QED
  BY <1>2, <1>3 DEF WriteOnce

LEMMA OutputType ==
  ASSUME TypeOK, NEW t \in Threads, Output(t)
  PROVE  TypeOK'
<1>1. UNCHANGED <<cvars, ivars, pc, job, mvars, tvars, lock, inFlight>> /\ todo # <<>>
  BY DEF Output
<1>2. ClientTypeOK' /\ InputTypeOK' /\ ThreadTypeOK' /\ TableTypeOK'
  BY <1>1 DEF TypeOK, ClientTypeOK, InputTypeOK, ThreadTypeOK, TableTypeOK, cvars, ivars, mvars, tvars
<1> SUFFICES OutputTypeOK'
  BY <1>1, <1>2 DEF TypeOK
<1>3. /\ Head(todo) \in Steps /\ Tail(todo) \in Seq(Steps)
      /\ Flush \in Steps /\ Pieces \subseteq Steps
      /\ QueueCap \in Nat
  BY <1>1, SessionAssumption DEF TypeOK, OutputTypeOK, Steps, Flush, Piece
<1>4. CASE Add
  BY <1>1, <1>3, <1>4 DEF Add, TypeOK, OutputTypeOK
<1>5. CASE AddFlushes
  <2>1. todo' \in Seq(Steps)
    BY <1>3, <1>5 DEF AddFlushes, TypeOK, OutputTypeOK
  <2> QED
    BY <1>1, <1>5, <2>1 DEF AddFlushes, TypeOK, OutputTypeOK
<1>6. CASE FlushNothing
  BY <1>1, <1>3, <1>6 DEF FlushNothing, TypeOK, OutputTypeOK
<1>7. CASE Write(t)
  BY <1>1, <1>7, WriteOnceType DEF Write, TypeOK, OutputTypeOK
<1> QED
  BY <1>4, <1>5, <1>6, <1>7 DEF Output

LEMMA WriteFailsType ==
  ASSUME TypeOK, NEW t \in Threads, WriteFails(t)
  PROVE  TypeOK'
<1>0. Main \in Threads /\ \A i \in Ids : i # Main
  BY SessionAssumption
<1>1. ClientTypeOK' /\ InputTypeOK' /\ TableTypeOK'
  BY DEF WriteFails, TypeOK, ClientTypeOK, InputTypeOK, TableTypeOK, cvars, ivars, tvars
<1>2. /\ pc' \in [Threads -> MainPcs \cup TaskPcs]
      /\ pc'[Main] \in MainPcs /\ \A i \in Ids : pc'[i] \in TaskPcs
  BY <1>0 DEF WriteFails, MainPcs, TaskPcs
<1>3. ThreadTypeOK'
  BY <1>2 DEF WriteFails, TypeOK, ThreadTypeOK
<1>4. OutputTypeOK'
  BY SessionAssumption DEF WriteFails, TypeOK, OutputTypeOK
<1> QED
  BY <1>1, <1>3, <1>4 DEF WriteFails, TypeOK

LEMMA UnlockType ==
  ASSUME OutputTypeOK, Unlock
  PROVE  OutputTypeOK'
BY DEF Unlock, OutputTypeOK

LEMMA TaskType ==
  ASSUME TypeOK, NEW i \in Ids, Task(i)
  PROVE  TypeOK'
<1> DEFINE Parts == ClientTypeOK' /\ InputTypeOK' /\ TableTypeOK' /\ OutputTypeOK' /\ inFlight' \in Int
<1>0. i \in Threads /\ i # Main /\ MaxChunks \in Nat
  BY SessionAssumption
<1>1. ASSUME NEW p \in TaskPcs, Goto(i, p), job' \in [Threads -> Jobs], UNCHANGED mvars, Parts
      PROVE  TypeOK'
  BY <1>0, <1>1, GotoType DEF TypeOK, ThreadTypeOK, mvars
<1>2. ASSUME UNCHANGED cvars, UNCHANGED ivars
      PROVE  ClientTypeOK' /\ InputTypeOK'
  BY <1>2 DEF TypeOK, ClientTypeOK, InputTypeOK, cvars, ivars
<1>3. ASSUME UNCHANGED tvars PROVE TableTypeOK'
  BY <1>3 DEF TypeOK, TableTypeOK, tvars
<1>4. ASSUME UNCHANGED ovars PROVE OutputTypeOK'
  BY <1>4 DEF TypeOK, OutputTypeOK, ovars
<1>5. ASSUME NEW j \in Jobs, job' = [job EXCEPT ![i] = j] \/ UNCHANGED job
      PROVE  job' \in [Threads -> Jobs]
  BY <1>5 DEF TypeOK, ThreadTypeOK
<1>6. \A p \in {"none", "begin", "read", "window", "acquire", "output",
                "write", "test", "mutex", "mark", "done", "dead"} : p \in TaskPcs
  BY DEF TaskPcs
<1>7. inFlight \in Int /\ {"size", "data", "slurp", "result"} \subseteq Jobs
  BY DEF TypeOK, Jobs
<1>10. CASE TaskOpen(i)
  <2>1. TableTypeOK'
    BY <1>0, <1>10 DEF TaskOpen, TypeOK, TableTypeOK
  <2>2. job' \in [Threads -> Jobs]
    BY <1>5, <1>7, <1>10 DEF TaskOpen, WantLock
  <2>3. \E p \in TaskPcs : Goto(i, p)
    BY <1>6, <1>10 DEF TaskOpen, WantLock
  <2> QED
    BY <1>1, <1>2, <1>4, <1>7, <1>10, <2>1, <2>2, <2>3 DEF TaskOpen
<1>11. CASE TaskRead(i)
  <2>1. TableTypeOK'
    BY <1>0, <1>11 DEF TaskRead, TypeOK, TableTypeOK
  <2>2. job' \in [Threads -> Jobs]
    BY <1>5, <1>7, <1>11 DEF TaskRead
  <2>3. \E p \in TaskPcs : Goto(i, p)
    BY <1>6, <1>11 DEF TaskRead
  <2> QED
    BY <1>1, <1>2, <1>4, <1>7, <1>11, <2>1, <2>2, <2>3 DEF TaskRead
<1>12. CASE TaskWindow(i)
  <2>1. inFlight' \in Int
    BY <1>7, <1>12 DEF TaskWindow
  <2> QED
    BY <1>1, <1>2, <1>3, <1>4, <1>5, <1>6, <1>7, <1>12, <2>1 DEF TaskWindow
<1>13. CASE TaskTest(i)
  BY <1>1, <1>2, <1>3, <1>4, <1>5, <1>6, <1>7, <1>13 DEF TaskTest
<1>14. CASE TaskMutex(i)
  BY <1>1, <1>2, <1>3, <1>4, <1>5, <1>6, <1>7, <1>14 DEF TaskMutex, WantLock
<1>15. CASE TaskReleases(i)
  <2>1. OutputTypeOK'
    BY <1>15, UnlockType DEF TaskReleases, TypeOK
  <2> QED
    BY <1>1, <1>2, <1>3, <1>5, <1>6, <1>7, <1>15, <2>1 DEF TaskReleases
<1>16. CASE TaskMark(i)
  BY <1>1, <1>2, <1>3, <1>4, <1>5, <1>6, <1>7, <1>16 DEF TaskMark
<1>17. CASE UnwindWrite(i)
  <2>1. OutputTypeOK'
    BY <1>17 DEF UnwindWrite, TypeOK, OutputTypeOK
  <2> QED
    BY <1>1, <1>2, <1>3, <1>5, <1>6, <1>7, <1>17, <2>1 DEF UnwindWrite
<1>18. CASE LateWrite(i)
  <2>1. OutputTypeOK'
    BY <1>18, WriteOnceType DEF LateWrite, TypeOK, OutputTypeOK
  <2> QED
    BY <1>1, <1>2, <1>3, <1>5, <1>6, <1>7, <1>18, <2>1 DEF LateWrite
<1> QED
  BY <1>0, <1>10, <1>11, <1>12, <1>13, <1>14, <1>15, <1>16, <1>17, <1>18,
     AcquireType, OutputType, WriteFailsType DEF Task, TaskStep

LEMMA ClearType ==
  ASSUME TableTypeOK, NEW i \in Ids, Clear(i)
  PROVE  box' \in [Ids -> AllKinds \cup {"none"}] /\ cancelled' \in [Ids -> BOOLEAN]
BY DEF TableTypeOK, Clear

LEMMA MainType ==
  ASSUME TypeOK, MainThread
  PROVE  TypeOK'
<1>0. /\ Main \in Threads /\ Main \notin Ids /\ \A i \in Ids : i # Main
      /\ NIds \in Nat \ {0} /\ 0 \in Ids /\ NIds - 1 \in Ids
  BY SessionAssumption
<1>1. frame.id \in Ids /\ frame.kind \in AllKinds \cup {"none"} /\ frame \in InFrames /\ idx \in Ids
  BY DEF TypeOK, ThreadTypeOK, InFrames
<1>2. ASSUME UNCHANGED cvars PROVE ClientTypeOK'
  BY <1>2 DEF TypeOK, ClientTypeOK, cvars
<1>3. ASSUME UNCHANGED ivars PROVE InputTypeOK'
  BY <1>3 DEF TypeOK, InputTypeOK, ivars
<1>4. ASSUME UNCHANGED tvars PROVE TableTypeOK'
  BY <1>4 DEF TypeOK, TableTypeOK, tvars
<1>5. ASSUME UNCHANGED ovars PROVE OutputTypeOK'
  BY <1>5 DEF TypeOK, OutputTypeOK, ovars
<1>6. ASSUME NEW j \in Jobs, job' = [job EXCEPT ![Main] = j] \/ UNCHANGED job
      PROVE  job' \in [Threads -> Jobs]
  BY <1>0, <1>6 DEF TypeOK, ThreadTypeOK
<1>7. /\ {"idle", "check", "handle", "acquire", "output", "join", "teardown", "exited"} \subseteq MainPcs
      /\ {"none", "begin"} \subseteq TaskPcs
      /\ {"none", "sync", "result", "pong"} \subseteq Jobs
  BY DEF MainPcs, TaskPcs, Jobs
<1>8. ASSUME NEW p \in MainPcs, Goto(Main, p)
      PROVE  /\ pc' \in [Threads -> MainPcs \cup TaskPcs]
             /\ pc'[Main] \in MainPcs /\ \A i \in Ids : pc'[i] \in TaskPcs
  BY <1>0, <1>8, GotoType DEF TypeOK
<1>9. ASSUME NEW i \in Ids, NEW q \in TaskPcs, NEW p \in MainPcs,
             pc' = [pc EXCEPT ![i] = q, ![Main] = p]
      PROVE  /\ pc' \in [Threads -> MainPcs \cup TaskPcs]
             /\ pc'[Main] \in MainPcs /\ \A k \in Ids : pc'[k] \in TaskPcs
  BY <1>0, <1>9 DEF TypeOK, ThreadTypeOK
<1>10. ASSUME NEW s \in {"eof", "EEXIST", "ESRCH", "ECONNRESET"}, EndWith(s), UNCHANGED <<job, frame>>
       PROVE  ThreadTypeOK'
  <2>1. Goto(Main, "teardown") /\ idx' \in Ids /\ status' \in {"eof", "EEXIST", "ESRCH", "ECONNRESET"}
    BY <1>0, <1>10 DEF EndWith
  <2> QED
    BY <1>7, <1>8, <1>10, <2>1 DEF TypeOK, ThreadTypeOK
<1>11. ASSUME NEW j \in Jobs, WantLock(Main, j), UNCHANGED mvars
       PROVE  ThreadTypeOK'
  <2>1. Goto(Main, "acquire") /\ job' \in [Threads -> Jobs]
    BY <1>6, <1>11 DEF WantLock
  <2> QED
    BY <1>7, <1>8, <1>11, <2>1 DEF TypeOK, ThreadTypeOK, mvars
<1>12. ASSUME NEW p \in MainPcs, Goto(Main, p), UNCHANGED mvars, UNCHANGED job
       PROVE  ThreadTypeOK'
  BY <1>8, <1>12 DEF TypeOK, ThreadTypeOK, mvars
<1>20. CASE TakeFrame
  <2>1. frame' \in InFrames /\ inbox' \in Seq(InFrames) /\ Len(inbox') <= InCap
    BY <1>20, SessionAssumption DEF TakeFrame, TypeOK, InputTypeOK
  <2>2. ThreadTypeOK'
    BY <1>0, <1>7, <1>8, <1>20, <2>1 DEF TakeFrame, TypeOK, ThreadTypeOK
  <2>3. InputTypeOK'
    BY <1>20, <2>1 DEF TakeFrame, TypeOK, InputTypeOK
  <2> QED
    BY <1>2, <1>4, <1>5, <1>20, <2>2, <2>3 DEF TakeFrame, TypeOK
<1>21. CASE CheckTask
  <2>1. idx' \in Ids
    BY <1>0, <1>1, <1>21 DEF CheckTask
  <2>2. /\ pc' \in [Threads -> MainPcs \cup TaskPcs]
        /\ pc'[Main] \in MainPcs /\ \A k \in Ids : pc'[k] \in TaskPcs
    BY <1>1, <1>7, <1>8, <1>9, <1>21 DEF CheckTask
  <2>3. ThreadTypeOK'
    BY <1>21, <2>1, <2>2 DEF CheckTask, TypeOK, ThreadTypeOK
  <2>4. TableTypeOK'
    BY <1>1, <1>21, ClearType DEF CheckTask, TypeOK, TableTypeOK
  <2> QED
    BY <1>2, <1>3, <1>5, <1>21, <2>3, <2>4 DEF CheckTask, TypeOK
<1>22. CASE Handle
  <2> SUFFICES ThreadTypeOK' /\ TableTypeOK' /\ inFlight' \in Int
    BY <1>2, <1>3, <1>5, <1>22 DEF Handle, TypeOK
  <2>0. inFlight \in Int
    BY DEF TypeOK
  <2>1. CASE HandlePing
    BY <1>4, <1>7, <1>11, <2>0, <2>1 DEF HandlePing
  <2>2. CASE HandleAck
    BY <1>4, <1>7, <1>12, <2>0, <2>2 DEF HandleAck
  <2>3. CASE HandleRequest
    <3>1. TableTypeOK'
      BY <1>1, <2>3 DEF HandleRequest, TypeOK, TableTypeOK
    <3>2. ThreadTypeOK'
      BY <1>7, <1>10, <1>12, <2>3 DEF HandleRequest, mvars
    <3> QED
      BY <2>0, <2>3, <3>1, <3>2 DEF HandleRequest
  <2>4. CASE HandleMissing
    BY <1>4, <1>10, <2>0, <2>4 DEF HandleMissing
  <2>5. CASE SubmitRead
    <3>1. ThreadTypeOK'
      BY <1>1, <1>7, <1>9, <2>5 DEF SubmitRead, TypeOK, ThreadTypeOK, mvars
    <3> QED
      BY <1>4, <2>0, <2>5, <3>1 DEF SubmitRead
  <2>6. CASE SubmitSync
    <3>1. TableTypeOK'
      BY <1>1, <2>6, ClearType DEF SubmitSync, TypeOK, TableTypeOK
    <3>2. ThreadTypeOK'
      BY <1>7, <1>11, <2>6 DEF SubmitSync
    <3> QED
      BY <2>0, <2>6, <3>1, <3>2 DEF SubmitSync
  <2>7. CASE HandleCancel
    <3>1. TableTypeOK'
      BY <1>1, <2>7, ClearType DEF HandleCancel, TypeOK, TableTypeOK
    <3>2. ThreadTypeOK'
      <4>1. CASE pc[frame.id] = "none"
        BY <1>7, <1>11, <2>7, <4>1 DEF HandleCancel
      <4>2. CASE pc[frame.id] # "none"
        <5>1. PICK p \in Interrupted(frame.id) : pc' = [pc EXCEPT ![frame.id] = p, ![Main] = "join"]
          BY <2>7, <4>2 DEF HandleCancel
        <5>2. p \in TaskPcs
          BY <1>1, InterruptedType
        <5> QED
          BY <1>1, <1>7, <1>9, <2>7, <4>2, <5>1, <5>2 DEF HandleCancel, TypeOK, ThreadTypeOK, mvars
      <4> QED
        BY <4>1, <4>2
    <3> QED
      BY <2>0, <2>7, <3>1, <3>2 DEF HandleCancel
  <2> QED
    BY <1>22, <2>1, <2>2, <2>3, <2>4, <2>5, <2>6, <2>7 DEF Handle
<1>23. CASE Join
  <2>1. TableTypeOK'
    BY <1>1, <1>23, ClearType DEF Join, TypeOK, TableTypeOK
  <2>2. ThreadTypeOK'
    BY <1>1, <1>6, <1>7, <1>9, <1>23 DEF Join, TypeOK, ThreadTypeOK, mvars
  <2> QED
    BY <1>2, <1>3, <1>5, <1>23, <2>1, <2>2 DEF Join, TypeOK
<1>24. CASE MainReleases
  <2>1. TableTypeOK'
    BY <1>1, <1>24, ClearType DEF MainReleases, TypeOK, TableTypeOK
  <2>2. ThreadTypeOK'
    BY <1>7, <1>11, <1>12, <1>24 DEF MainReleases
  <2>3. OutputTypeOK'
    BY <1>24, UnlockType DEF MainReleases, TypeOK
  <2> QED
    BY <1>2, <1>3, <1>24, <2>1, <2>2, <2>3 DEF MainReleases, TypeOK
<1>25. CASE EndOfInput
  BY <1>2, <1>3, <1>4, <1>5, <1>10, <1>25 DEF EndOfInput, TypeOK
<1>26. CASE TearDownCancel
  <2>1. TableTypeOK'
    BY <1>1, <1>26 DEF TearDownCancel, TypeOK, TableTypeOK
  <2>2. ThreadTypeOK'
    <3>1. PICK p \in Interrupted(idx) : Goto(idx, p)
      BY <1>26 DEF TearDownCancel
    <3>2. p \in TaskPcs
      BY <1>1, InterruptedType
    <3>3. idx \in Threads /\ idx # Main
      BY <1>0, <1>1
    <3> QED
      BY <1>26, <3>1, <3>2, <3>3, GotoType DEF TearDownCancel, TypeOK, ThreadTypeOK, mvars
  <2> QED
    BY <1>2, <1>3, <1>5, <1>26, <2>1, <2>2 DEF TearDownCancel, TypeOK
<1>27. CASE TearDownClear
  <2>1. TableTypeOK'
    BY <1>1, <1>27, ClearType DEF TearDownClear, TypeOK, TableTypeOK
  <2>2. idx' \in Ids
    BY <1>0, <1>1, <1>27 DEF TearDownClear
  <2>3. pc[Main] \in MainPcs
    BY DEF TypeOK, ThreadTypeOK
  <2>4. \E p \in MainPcs : pc' = [pc EXCEPT ![idx] = "none", ![Main] = p]
    BY <1>0, <1>1, <1>7, <1>27, <2>3 DEF TearDownClear, TypeOK, ThreadTypeOK
  <2>5. ThreadTypeOK'
    BY <1>1, <1>7, <1>9, <1>27, <2>2, <2>4 DEF TearDownClear, TypeOK, ThreadTypeOK
  <2> QED
    BY <1>2, <1>3, <1>5, <1>27, <2>1, <2>5 DEF TearDownClear, TypeOK
<1> QED
  BY <1>0, <1>20, <1>21, <1>22, <1>23, <1>24, <1>25, <1>26, <1>27,
     AcquireType, OutputType, WriteFailsType DEF MainThread, MainStep

LEMMA ClientType ==
  ASSUME TypeOK, Request \/ Acknowledge \/ Receive \/ Vanish
  PROVE  TypeOK'
<1>0. InCap \in Nat /\ 0 \in Ids /\ Kinds \subseteq AllKinds /\ Acks \in BOOLEAN
  BY SessionAssumption
<1>1. UNCHANGED <<pc, job, mvars, tvars, inFlight>>
  BY DEF Request, Acknowledge, Receive, Vanish
<1>2. ThreadTypeOK' /\ TableTypeOK' /\ inFlight' \in Int
  BY <1>1 DEF TypeOK, ThreadTypeOK, TableTypeOK, mvars, tvars
<1>3. ASSUME UNCHANGED ovars PROVE OutputTypeOK'
  BY <1>3 DEF TypeOK, OutputTypeOK, ovars
<1>4. \A i \in Ids, kind \in AllKinds \cup {"none"} :
        /\ InFrame("request", i, kind) \in InFrames
        /\ InFrame("submit", i, kind) \in InFrames
        /\ InFrame("cancel", i, kind) \in InFrames
        /\ InFrame("ack", i, kind) \in InFrames
        /\ InFrame("ping", i, kind) \in InFrames
  BY DEF InFrame, InFrames
<1>5. ASSUME NEW f \in InFrames, inbox' = Append(inbox, f), Len(inbox) < InCap, UNCHANGED eof
      PROVE  InputTypeOK'
  BY <1>0, <1>5 DEF TypeOK, InputTypeOK
<1>6. ASSUME NEW i \in Ids, NEW kind \in Kinds, Ask(i, kind)
      PROVE  ClientTypeOK' /\ InputTypeOK'
  <2>1. ClientTypeOK'
    BY <1>6 DEF Ask, TypeOK, ClientTypeOK
  <2>2. InFrame("request", i, kind) \in InFrames /\ InFrame("submit", i, "none") \in InFrames
    BY <1>0, <1>4
  <2>3. inbox' \in Seq(InFrames) /\ Len(inbox') = Len(inbox) + 2
    BY <1>6, <2>2 DEF Ask, TypeOK, InputTypeOK
  <2> QED
    BY <1>0, <1>6, <2>1, <2>3 DEF Ask, TypeOK, InputTypeOK
<1>7. ASSUME NEW i \in Ids, Cancel(i)
      PROVE  ClientTypeOK' /\ InputTypeOK'
  <2>1. ClientTypeOK'
    BY <1>7 DEF Cancel, TypeOK, ClientTypeOK
  <2> QED
    BY <1>4, <1>5, <1>7, <2>1 DEF Cancel
<1>8. ASSUME Ping
      PROVE  ClientTypeOK' /\ InputTypeOK'
  <2>1. ClientTypeOK'
    BY <1>8 DEF Ping, TypeOK, ClientTypeOK
  <2> QED
    BY <1>0, <1>4, <1>5, <1>8, <2>1 DEF Ping
<1>9. ASSUME Close
      PROVE  ClientTypeOK' /\ InputTypeOK'
  <2>1. ClientTypeOK'
    BY <1>9 DEF Close, TypeOK, ClientTypeOK, cvars
  <2>2. inbox' = inbox /\ eof' \in BOOLEAN
    BY <1>9 DEF Close
  <2> QED
    BY <2>1, <2>2 DEF TypeOK, InputTypeOK
<1>10. CASE Request
  BY <1>2, <1>3, <1>6, <1>7, <1>8, <1>9, <1>10 DEF Request, TypeOK
<1>11. CASE Acknowledge
  <2>1. ClientTypeOK'
    BY <1>11 DEF Acknowledge, SendAck, TypeOK, ClientTypeOK
  <2>2. InputTypeOK'
    <3>1. CASE eof
      BY <1>11, <3>1 DEF Acknowledge, SendAck, TypeOK, InputTypeOK
    <3>2. CASE ~eof
      BY <1>0, <1>4, <1>5, <1>11, <3>2 DEF Acknowledge, SendAck
    <3> QED
      BY <3>1, <3>2
  <2> QED
    BY <1>2, <1>3, <1>11, <2>1, <2>2 DEF Acknowledge, TypeOK
<1>12. CASE Receive
  <2>1. Head(pipe) \in Pieces /\ Head(pipe).id \in Ids
    <3>1. pipe \in Seq(Pieces) /\ pipe # <<>>
      BY <1>12 DEF Receive, TypeOK, OutputTypeOK
    <3>2. Head(pipe) \in Pieces
      BY <3>1
    <3> QED
      BY <3>2 DEF Pieces
  <2>2. OutputTypeOK'
    BY <1>12, SessionAssumption DEF Receive, TypeOK, OutputTypeOK
  <2>3. InputTypeOK'
    BY <1>12 DEF Receive, TypeOK, InputTypeOK, ivars
  <2>4. ASSUME NEW p \in Pieces, p.id \in Ids, ReceiveBody(p) \/ ReceiveFrame(p) \/ ReceiveJunk(p)
        PROVE  ClientTypeOK'
    <3>1. CASE ReceiveBody(p)
      BY <1>0, <3>1 DEF ReceiveBody, TypeOK, ClientTypeOK
    <3>2. CASE ReceiveFrame(p)
      <4>1. pinging' \in BOOLEAN
        BY <3>2, Zenon DEF ReceiveFrame
      <4>2. client' \in [Ids -> {"free", "open", "cancelling"}] /\ rx' \in Ids \cup {None, Broken, Gone}
        BY <2>4, <3>2 DEF ReceiveFrame, TypeOK, ClientTypeOK
      <4> QED
        BY <3>2, <4>1, <4>2 DEF ReceiveFrame, TypeOK, ClientTypeOK
    <3>3. CASE ReceiveJunk(p)
      BY <3>3 DEF ReceiveJunk, TypeOK, ClientTypeOK
    <3> QED
      BY <2>4, <3>1, <3>2, <3>3
  <2> QED
    BY <1>2, <1>12, <2>1, <2>2, <2>3, <2>4 DEF Receive, TypeOK
<1>13. CASE Vanish
  <2>1. ClientTypeOK' /\ InputTypeOK'
    BY <1>13 DEF Vanish, TypeOK, ClientTypeOK, InputTypeOK
  <2>2. OutputTypeOK'
    BY <1>13, SessionAssumption DEF Vanish, TypeOK, OutputTypeOK
  <2> QED
    BY <1>2, <2>1, <2>2 DEF TypeOK
<1> QED
  BY <1>10, <1>11, <1>12, <1>13

LEMMA NextType == TypeOK /\ [Next]_vars => TypeOK'
BY StutterType, TaskType, MainType, ClientType DEF Next, Exited

\* Session is correctly typed: the send_queue's buffer never overflows, whatever
\* the threads, the client and the pipes do.
THEOREM TypeCorrect == Spec => []TypeOK
BY InitType, NextType, PTL DEF Spec

----------------------------------------------------------------------------
(* A request outlives the thread that works on it.                         *)

Active(i) == pc[i] \notin {"none", "done", "dead"}

\* While the main thread is in the handler of a request served at once, that
\* request has no thread: only such a request is cleared without a join.
SyncInBox ==
  pc[Main] \in {"acquire", "output"} /\ job[Main] = "sync" => box[frame.id] = "sync"

BoxInv == TypeOK /\ BoxOutlivesTask /\ SyncInBox

LEMMA InitBox == Init => BoxInv
<1>1. Init => BoxOutlivesTask
  BY SessionAssumption DEF Init, BoxOutlivesTask
<1>2. Init => SyncInBox
  BY SessionAssumption DEF Init, SyncInBox
<1> QED
  BY <1>1, <1>2, InitType DEF BoxInv

\* A step of a thread or of the client moves no other thread, takes no request
\* out of its box and wakes no thread that has ended.
LEMMA OthersBox ==
  ASSUME BoxInv, TypeOK', UNCHANGED <<box, frame>>,
         \A i \in Ids : Active(i)' => Active(i),
         pc'[Main] = pc[Main] \/ (pc'[Main] = "output" /\ pc[Main] = "acquire"),
         job'[Main] = job[Main]
  PROVE  BoxInv'
BY DEF BoxInv, BoxOutlivesTask, SyncInBox, Active

LEMMA WriteFailsBox ==
  ASSUME BoxInv, TypeOK', NEW t \in Threads, WriteFails(t)
  PROVE  BoxInv'
<1>1. pc'[Main] = "exited" /\ \A i \in Ids : pc'[i] \in {"none", "dead"}
  BY SessionAssumption DEF WriteFails
<1> QED
  BY <1>1 DEF BoxInv, BoxOutlivesTask, SyncInBox

LEMMA TaskBox ==
  ASSUME BoxInv, TypeOK', NEW i \in Ids, Task(i)
  PROVE  BoxInv'
<1>0. i # Main /\ i \in Threads /\ Main \in Threads
  BY SessionAssumption
<1>1. pc \in [Threads -> MainPcs \cup TaskPcs] /\ job \in [Threads -> Jobs]
  BY DEF BoxInv, TypeOK, ThreadTypeOK
<1> SUFFICES ASSUME ~WriteFails(i) PROVE BoxInv'
  BY <1>0, WriteFailsBox
<1>2. UNCHANGED <<box, frame>>
  BY DEF Task, TaskStep, TaskOpen, TaskRead, TaskTest, TaskMutex, Output, TaskReleases, TaskMark,
         UnwindWrite, LateWrite, TaskWindow, Acquire, mvars, tvars
<1>3. Active(i) /\ \E p : Goto(i, p)
  <2>1. CASE Output(i)
    BY <1>1, <2>1 DEF Output, Active, Goto
  <2> QED
    BY <2>1
    DEF Task, TaskStep, TaskOpen, TaskRead, TaskTest, TaskMutex, TaskReleases, TaskMark,
        UnwindWrite, LateWrite, TaskWindow, Acquire, Active, WantLock
<1>4. job'[Main] = job[Main]
  BY <1>0, <1>1
  DEF Task, TaskStep, TaskOpen, TaskRead, TaskTest, TaskMutex, Output, TaskReleases, TaskMark,
      UnwindWrite, LateWrite, TaskWindow, Acquire, WantLock
<1>5. pc'[Main] = pc[Main] /\ \A k \in Ids : Active(k)' => Active(k)
  BY <1>0, <1>1, <1>3 DEF Goto, Active
<1> QED
  BY <1>2, <1>4, <1>5, OthersBox DEF Active

LEMMA MainBox ==
  ASSUME BoxInv, TypeOK', MainThread
  PROVE  BoxInv'
<1>0. Main \in Threads /\ \A i \in Ids : i # Main /\ i \in Threads
  BY SessionAssumption
<1>1. /\ pc \in [Threads -> MainPcs \cup TaskPcs] /\ job \in [Threads -> Jobs]
      /\ box \in [Ids -> AllKinds \cup {"none"}]
      /\ frame.id \in Ids /\ idx \in Ids
  BY DEF BoxInv, TypeOK, ThreadTypeOK, TableTypeOK, InFrames
<1>2. \A i \in Ids : Active(i) => box[i] \in {"read", "tail"}
  BY DEF BoxInv, BoxOutlivesTask, Active
<1>3. SUFFICES BoxOutlivesTask' /\ SyncInBox'
  BY DEF BoxInv
<1>4. ASSUME UNCHANGED box, \A i \in Ids : Active(i)' => Active(i)
      PROVE  BoxOutlivesTask'
  BY <1>2, <1>4 DEF BoxOutlivesTask, Active
<1>5. ASSUME NEW p, Goto(Main, p)
      PROVE  pc'[Main] = p /\ \A i \in Ids : pc'[i] = pc[i]
  BY <1>0, <1>1, <1>5 DEF Goto
<1>6. ASSUME NEW j, WantLock(Main, j)
      PROVE  pc'[Main] = "acquire" /\ job'[Main] = j /\ \A i \in Ids : pc'[i] = pc[i]
  BY <1>0, <1>1, <1>5, <1>6 DEF WantLock
\* A box is emptied only when it has no thread or its thread has ended.
<1>7. ASSUME NEW i \in Ids, Clear(i), \A k \in Ids \ {i} : pc'[k] = pc[k],
             pc'[i] \in {"none", "done", "dead"}
      PROVE  BoxOutlivesTask'
  <2>1. \A k \in Ids \ {i} : box'[k] = box[k]
    BY <1>1, <1>7 DEF Clear
  <2> QED
    BY <1>2, <1>7, <2>1 DEF BoxOutlivesTask, Active
\* Neither does a signal start a thread.
<1>8. ASSUME NEW i \in Ids, NEW p \in Interrupted(i), pc'[i] = p, pc[i] # "none"
      PROVE  Active(i)' => Active(i)
  BY <1>8, InterruptedType DEF BoxInv, Active
<1>10. CASE TakeFrame \/ EndOfInput
  <2>1. UNCHANGED box /\ (Goto(Main, "check") \/ Goto(Main, "teardown"))
    <3>1. CASE TakeFrame
      BY <3>1 DEF TakeFrame, tvars
    <3>2. CASE EndOfInput
      BY <3>2 DEF EndOfInput, EndWith, tvars
    <3> QED
      BY <1>10, <3>1, <3>2
  <2>2. pc'[Main] \in {"check", "teardown"} /\ \A i \in Ids : pc'[i] = pc[i]
    BY <1>5, <2>1
  <2> QED
    BY <1>4, <2>1, <2>2 DEF SyncInBox, Active
<1>11. CASE CheckTask
  <2>1. pc'[Main] \in {"check", "handle"}
    BY <1>0, <1>1, <1>5, <1>11 DEF CheckTask
  <2>2. CASE pc[idx] = "done"
    <3>1. Clear(idx) /\ (\A k \in Ids \ {idx} : pc'[k] = pc[k]) /\ pc'[idx] = "none"
      BY <1>0, <1>1, <1>11, <2>2 DEF CheckTask, Active
    <3> QED
      BY <1>1, <1>7, <2>1, <3>1 DEF SyncInBox
  <2>3. CASE pc[idx] # "done"
    <3>1. UNCHANGED box /\ \A i \in Ids : pc'[i] = pc[i]
      BY <1>5, <1>11, <2>3 DEF CheckTask
    <3> QED
      BY <1>4, <2>1, <3>1 DEF SyncInBox, Active
  <2> QED
    BY <2>2, <2>3
<1>12. CASE Handle
  <2>1. CASE HandlePing
    BY <1>4, <1>6, <2>1 DEF HandlePing, tvars, SyncInBox, Active
  <2>2. CASE HandleAck
    BY <1>4, <1>5, <2>2 DEF HandleAck, tvars, SyncInBox, Active
  <2>3. CASE HandleRequest
    <3>1. (\E p \in {"idle", "teardown"} : Goto(Main, p))
      BY <2>3 DEF HandleRequest, EndWith
    <3>2. pc'[Main] \in {"idle", "teardown"} /\ \A i \in Ids : pc'[i] = pc[i]
      BY <1>5, <3>1
    <3>3. \A i \in Ids : box[i] # "none" => box'[i] = box[i]
      BY <1>1, <2>3 DEF HandleRequest
    <3>4. BoxOutlivesTask'
      BY <1>2, <3>2, <3>3 DEF BoxOutlivesTask, Active
    <3> QED
      BY <3>2, <3>4 DEF SyncInBox
  <2>4. CASE HandleMissing
    BY <1>4, <1>5, <2>4 DEF HandleMissing, EndWith, tvars, SyncInBox, Active
  <2>5. CASE SubmitRead
    <3>1. /\ UNCHANGED box /\ pc'[Main] = "idle"
          /\ \A i \in Ids \ {frame.id} : pc'[i] = pc[i]
      BY <1>0, <1>1, <2>5 DEF SubmitRead, tvars
    <3>2. box[frame.id] \in {"read", "tail"}
      BY <2>5 DEF SubmitRead
    <3>3. BoxOutlivesTask'
      BY <1>2, <3>1, <3>2 DEF BoxOutlivesTask, Active
    <3> QED
      BY <3>1, <3>3 DEF SyncInBox
  <2>6. CASE SubmitSync
    <3>1. ~Active(frame.id) /\ box[frame.id] = "sync" /\ frame' = frame
      BY <1>1, <1>2, <2>6 DEF SubmitSync, mvars
    <3>2. CASE WantLock(Main, "sync") /\ UNCHANGED <<box, cancelled>>
      BY <1>4, <1>6, <3>1, <3>2 DEF SyncInBox, Active
    <3>3. CASE WantLock(Main, "result") /\ Clear(frame.id)
      BY <1>1, <1>6, <1>7, <3>1, <3>3 DEF SyncInBox, Active
    <3> QED
      BY <2>6, <3>2, <3>3 DEF SubmitSync
  <2>7. CASE HandleCancel
    <3>1. CASE pc[frame.id] = "none"
      <4>1. Clear(frame.id) /\ WantLock(Main, "result")
        BY <2>7, <3>1 DEF HandleCancel
      <4> QED
        BY <1>1, <1>6, <1>7, <3>1, <4>1 DEF SyncInBox, Active
    <3>2. CASE pc[frame.id] # "none"
      <4>1. UNCHANGED box
        BY <2>7, <3>2 DEF HandleCancel
      <4>2. PICK p \in Interrupted(frame.id) : pc' = [pc EXCEPT ![frame.id] = p, ![Main] = "join"]
        BY <2>7, <3>2 DEF HandleCancel
      <4>3. /\ pc'[Main] = "join" /\ pc'[frame.id] = p
            /\ \A k \in Ids \ {frame.id} : pc'[k] = pc[k]
        BY <1>0, <1>1, <4>2
      <4>4. \A k \in Ids : Active(k)' => Active(k)
        BY <1>1, <1>8, <3>2, <4>3 DEF Active
      <4> QED
        BY <1>4, <4>1, <4>3, <4>4 DEF SyncInBox
    <3> QED
      BY <3>1, <3>2
  <2> QED
    BY <1>12, <2>1, <2>2, <2>3, <2>4, <2>5, <2>6, <2>7 DEF Handle
<1>13. CASE Join
  <2>1. /\ Clear(frame.id) /\ job'[Main] = "result"
        /\ (\A k \in Ids \ {frame.id} : pc'[k] = pc[k]) /\ pc'[frame.id] = "none"
    BY <1>0, <1>1, <1>13 DEF Join, Active, mvars
  <2> QED
    BY <1>1, <1>7, <2>1 DEF SyncInBox
<1>14. CASE MainReleases
  <2>1. CASE job[Main] = "sync"
    <3>1. Clear(frame.id) /\ WantLock(Main, "result")
      BY <1>14, <2>1 DEF MainReleases
    <3>2. box[frame.id] = "sync"
      BY <1>14, <2>1 DEF MainReleases, BoxInv, SyncInBox
    <3> QED
      BY <1>1, <1>2, <1>6, <1>7, <3>1, <3>2 DEF SyncInBox, Active
  <2>2. CASE job[Main] # "sync"
    <3>1. Goto(Main, "idle") /\ UNCHANGED box
      BY <1>14, <2>2 DEF MainReleases
    <3> QED
      BY <1>4, <1>5, <3>1 DEF SyncInBox, Active
  <2> QED
    BY <2>1, <2>2
<1>15. CASE TearDownClear
  <2>1. /\ Clear(idx) /\ pc'[Main] \in {"exited", "teardown"}
        /\ (\A k \in Ids \ {idx} : pc'[k] = pc[k]) /\ pc'[idx] = "none"
    BY <1>0, <1>1, <1>15 DEF TearDownClear, Active
  <2> QED
    BY <1>1, <1>7, <2>1 DEF SyncInBox
<1>18. CASE TearDownCancel
  <2>1. PICK p \in Interrupted(idx) : Goto(idx, p)
    BY <1>18 DEF TearDownCancel
  <2>2. pc'[idx] = p /\ pc'[Main] = pc[Main] /\ \A k \in Ids \ {idx} : pc'[k] = pc[k]
    BY <1>0, <1>1, <2>1 DEF Goto
  <2>3. \A k \in Ids : Active(k)' => Active(k)
    BY <1>1, <1>8, <1>18, <2>2 DEF Active, TearDownCancel
  <2> QED
    BY <1>4, <1>18, <2>2, <2>3 DEF TearDownCancel, SyncInBox
<1>16. CASE Output(Main) \/ Acquire(Main)
  <2>1. /\ UNCHANGED <<box, frame>> /\ job' = job
        /\ pc' = pc \/ (Goto(Main, "output") /\ pc[Main] = "acquire")
    <3>1. CASE Output(Main)
      BY <3>1 DEF Output, mvars, tvars
    <3>2. CASE Acquire(Main)
      BY <3>2 DEF Acquire, mvars, tvars
    <3> QED
      BY <1>16, <3>1, <3>2
  <2>2. \A i \in Ids : pc'[i] = pc[i]
    BY <1>5, <2>1
  <2>3. pc'[Main] = pc[Main] \/ (pc'[Main] = "output" /\ pc[Main] = "acquire")
    BY <1>5, <2>1
  <2> QED
    BY <2>1, <2>2, <2>3, OthersBox DEF BoxInv, Active
<1>17. CASE WriteFails(Main)
  BY <1>0, <1>17, WriteFailsBox DEF BoxInv
<1> QED
  BY <1>10, <1>11, <1>12, <1>13, <1>14, <1>15, <1>16, <1>17, <1>18 DEF MainThread, MainStep

LEMMA NextBox == BoxInv /\ [Next]_vars => BoxInv'
<1> SUFFICES ASSUME BoxInv, [Next]_vars PROVE BoxInv'
  OBVIOUS
<1>1. TypeOK'
  BY NextType DEF BoxInv
<1>2. CASE UNCHANGED vars \/ Request \/ Acknowledge \/ Receive \/ Vanish
  <2>1. UNCHANGED <<pc, job, box, frame>>
    BY <1>2 DEF vars, mvars, tvars, Request, Acknowledge, Receive, Vanish
  <2> QED
    BY <1>1, <2>1 DEF BoxInv, BoxOutlivesTask, SyncInBox
<1> QED
  BY <1>1, <1>2, TaskBox, MainBox DEF Next, Exited

\* While a task's thread runs, its request stays in its box: every way to empty
\* a box (check_tasks, cancel, a handler's end, the session's end) joins first.
THEOREM BoxOutlives == Spec => []BoxOutlivesTask
<1>1. BoxInv => BoxOutlivesTask
  BY DEF BoxInv
<1> QED
  BY InitBox, NextBox, <1>1, PTL DEF Spec

----------------------------------------------------------------------------

\* The session runs as the invariants below describe until its client is lost
\* or, with requests unanswered, ends its input: then tasks are cancelled and
\* may leave a frame unfinished.
Running == rx # Gone /\ (status = "none" \/ ~HalfCloses)

----------------------------------------------------------------------------
(* The inductive invariant.                                                *)

\* How the session ends: not by a protocol error, and when the client's input
\* has ended, not before it has had all its answers.
EndInv ==
  /\ status \in {"none", "eof"}
  /\ status = "none" <=> pc[Main] \notin {"teardown", "exited"}
  /\ pc[Main] # "join"
  /\ \A i \in Ids : cancelled[i] => status # "none"
  /\ \A i \in Ids : pc[i] \notin {"dead", "write"}
  /\ status = "eof" => eof
  /\ eof /\ ~HalfCloses => \A i \in Ids : client[i] = "free"

\* The holder of send_lock is the thread that is at its output, and what it has
\* yet to do is the rest of its job's script, behind a flush where the buffer
\* was full.
Rest(j, i) ==
  CASE j = "size"   -> {<<Piece("meta", i)>>, <<>>}
    [] j = "sync"   -> {<<Piece("meta", i)>>, <<>>}
    [] j = "data"   -> {Data(i, "body"), Data(i, "bulk"), <<Piece("body", i), Flush>>,
                        <<Piece("bulk", i), Flush>>, <<Flush>>, <<>>}
    [] j = "slurp"  -> {<<Piece("meta", i), Piece("head", i), Piece("body", i), Flush>>,
                        <<Piece("meta", i), Piece("head", i), Piece("bulk", i), Flush>>,
                        Data(i, "body"), Data(i, "bulk"), <<Piece("body", i), Flush>>,
                        <<Piece("bulk", i), Flush>>, <<Flush>>, <<>>}
    [] j = "result" -> {<<Piece("result", i), Flush>>, <<Flush>>, <<>>}
    [] j = "pong"   -> {<<Piece("pong", 0), Flush>>, <<Flush>>, <<>>}
    [] OTHER        -> {}

Due(j, i) ==
  \/ todo \in Rest(j, i)
  \/ /\ todo # <<>> /\ Head(todo) = Flush
     /\ Tail(todo) \in Rest(j, i) /\ Tail(todo) # <<>> /\ Head(Tail(todo)) # Flush

LockInv ==
  /\ \A t \in Threads : pc[t] = "output" <=> lock = t
  /\ lock = Nobody => todo = <<>>
  /\ \A t \in Threads : lock = t => Due(job[t], IdOf(t))
  /\ sent > 0 => todo # <<>> /\ Head(todo).kind = "flush"

JobInv ==
  /\ pc[Main] \in {"acquire", "output"} =>
       job[Main] \in {"sync", "result", "pong"} /\ frame.type # "request"
  /\ \A i \in Ids : pc[i] = "window" => job[i] \in {"data", "slurp"}
  /\ \A i \in Ids : pc[i] \in {"acquire", "output"} => job[i] \in {"size", "data", "slurp", "result"}

\* A result that is about to be flushed ends the queue.
FlushInv ==
  \A t \in Threads : lock = t /\ job[t] = "result" /\ Len(todo) = 1 =>
    queue # <<>> /\ queue[Len(queue)] = Piece("result", IdOf(t))

\* The frames from the client: a request is followed by its submission.
Before(k) == IF k = 1 THEN frame ELSE inbox[k-1]

PairInv ==
  /\ frame.type # "cancel" /\ (frame.type = "request" => frame.kind \in AllKinds)
  /\ \A k \in 1 .. Len(inbox) :
       /\ inbox[k].type # "cancel"
       /\ inbox[k].type = "request" => inbox[k].kind \in AllKinds
       /\ inbox[k].type = "submit" <=> Before(k).type = "request"
       /\ inbox[k].type = "submit" => inbox[k].id = Before(k).id
  /\ Before(Len(inbox) + 1).type # "request"

\* A request is in its box from request_box::acquire to its submission, and then
\* for as long as its thread or its handler is at work.
Held(i) ==
  /\ frame.id = i
  /\ \/ frame.type = "request" /\ pc[Main] = "idle"
     \/ frame.type = "submit" /\ pc[Main] \in {"check", "handle"}

MainServes(i) == frame.id = i /\ pc[Main] \in {"acquire", "output"}

Checked(i) ==
  /\ frame.type = "request" /\ frame.id = i
  /\ pc[Main] = "handle" \/ (pc[Main] = "check" /\ idx > i)

TableInv ==
  \A i \in Ids :
    /\ box[i] # "none" => \/ pc[i] # "none"
                          \/ Held(i)
                          \/ MainServes(i) /\ job[Main] = "sync"
    /\ Held(i) => box[i] # "none" /\ pc[i] = "none"
    /\ Checked(i) => pc[i] = "none"

\* A request that is not answered is in one place: on its way, in the main
\* thread's hands, at work in its thread or in a handler, or, as its result, on
\* the way to the client.
InHand(i) ==
  /\ frame.id = i
  /\ \/ frame.type = "request"
     \/ frame.type = "submit" /\ pc[Main] \in {"check", "handle"}

TaskWorks(i) ==
  \/ pc[i] \in {"begin", "read", "window", "acquire", "test", "mutex"}
  \/ pc[i] = "output" /\ (job[i] # "result" \/ Len(todo) > 1)

MainWorks(i) ==
  /\ MainServes(i)
  /\ \/ job[Main] = "sync"
     \/ job[Main] = "result" /\ (pc[Main] = "acquire" \/ Len(todo) > 1)

OneIf(p) == IF p THEN 1 ELSE 0

Requested(i) == [type : {"request"}, id : {i}, kind : AllKinds]

Tally(i) ==
  Count(inbox, Requested(i)) + OneIf(InHand(i)) + OneIf(TaskWorks(i)) + OneIf(MainWorks(i))
    + Count(Unread, Of({"result"}, {i}))

TallyInv == \A i \in Ids : Tally(i) = OneIf(client[i] # "free")

\* What the client has yet to read: frames, and where the last one is a head,
\* the holder of the lock goes on with its body.
Opens(s, r, k) ==
  IF k = 1 THEN r ELSE IF s[k-1].kind = "head" THEN s[k-1].id ELSE None

Whole(s, r) ==
  /\ r # Broken
  /\ \A k \in 1 .. Len(s) :
       IF s[k].kind = "body" THEN Opens(s, r, k) = s[k].id ELSE Opens(s, r, k) = None

BodyFirst(s) == IF s # <<>> /\ Head(s).kind \in {"body", "bulk"} THEN Head(s).id ELSE None

Awaited ==
  IF todo # <<>> /\ Head(todo) = Flush THEN BodyFirst(Tail(todo)) ELSE BodyFirst(todo)

FrameInv == Whole(Unread, rx) /\ Opens(Unread, rx, Len(Unread) + 1) = Awaited

\* What is in the queue will be flushed, or is what nobody waits for.
FlushDue ==
  \/ todo # <<>> /\ todo[Len(todo)].kind = "flush"
  \/ /\ \A k \in 1 .. Len(queue) : queue[k].kind = "meta"
     /\ \A k \in 1 .. Len(todo) : todo[k].kind \in {"meta", "flush"}

\* Nothing of a request follows its result.
ResultLast ==
  \A k, m \in 1 .. Len(Unread) :
    k < m /\ Unread[k].kind = "result" /\ Unread[m].kind = "body" => Unread[k].id # Unread[m].id

SInv ==
  Running =>
    /\ EndInv /\ LockInv /\ JobInv /\ FlushInv /\ PairInv /\ TableInv
    /\ TallyInv /\ FrameInv /\ FlushDue /\ ResultLast

----------------------------------------------------------------------------
(* Counting the elements of a sequence.                                    *)

LEMMA CountType ==
  ASSUME NEW T, NEW s \in Seq(T), NEW S
  PROVE  /\ IsFiniteSet({k \in 1 .. Len(s) : s[k] \in S})
         /\ Count(s, S) \in Nat
         /\ Count(s, S) = 0 <=> \A k \in 1 .. Len(s) : s[k] \notin S
<1> DEFINE H == {k \in 1 .. Len(s) : s[k] \in S}
<1>1. Len(s) \in Nat
  BY LenProperties
<1>2. IsFiniteSet(1 .. Len(s))
  BY <1>1, FS_Interval
<1>3. IsFiniteSet(H)
  BY <1>2, FS_Subset
<1>4. Cardinality(H) \in Nat
  BY <1>3, FS_CardinalityType
<1>5. Cardinality(H) = 0 <=> H = {}
  BY <1>3, FS_EmptySet
<1> QED
  BY <1>3, <1>4, <1>5 DEF Count

LEMMA CountEmpty == \A S : Count(<<>>, S) = 0
<1> SUFFICES ASSUME NEW S PROVE Count(<<>>, S) = 0
  OBVIOUS
<1>1. {k \in 1 .. Len(<<>>) : <<>>[k] \in S} = {}
  OBVIOUS
<1> QED
  BY <1>1, FS_EmptySet DEF Count

LEMMA CountAppend ==
  ASSUME NEW T, NEW s \in Seq(T), NEW x \in T, NEW S
  PROVE  Count(Append(s, x), S) = Count(s, S) + OneIf(x \in S)
<1> DEFINE H == {k \in 1 .. Len(s) : s[k] \in S}
           t == Append(s, x)
           n == Len(s) + 1
           I == {k \in 1 .. Len(t) : t[k] \in S}
<1>1. Len(s) \in Nat /\ Len(t) = n /\ t[n] = x /\ \A k \in 1 .. Len(s) : t[k] = s[k]
  BY AppendProperties, LenProperties
<1>2. IsFiniteSet(H) /\ Cardinality(H) \in Nat /\ n \notin H
  BY <1>1, CountType DEF Count
<1> HIDE DEF t
<1>3. I = IF x \in S THEN H \cup {n} ELSE H
  <2>1. \A k \in 1 .. n : k = n \/ k \in 1 .. Len(s)
    BY <1>1
  <2> QED
    BY <1>1, <2>1
<1> HIDE DEF H, I, n
<1>4. Cardinality(H \cup {n}) = Cardinality(H) + 1
  BY <1>2, FS_AddElement
<1>5. Cardinality(I) = Cardinality(H) + OneIf(x \in S)
  BY <1>2, <1>3, <1>4 DEF OneIf
<1>6. Count(t, S) = Cardinality(I) /\ Count(s, S) = Cardinality(H)
  BY DEF Count, H, I
<1> QED
  BY <1>5, <1>6 DEF t

LEMMA CountTail ==
  ASSUME NEW T, NEW s \in Seq(T), s # <<>>, NEW S
  PROVE  Count(s, S) = OneIf(Head(s) \in S) + Count(Tail(s), S)
<1> DEFINE H == {k \in 1 .. Len(s) : s[k] \in S}
           t == Tail(s)
           I == {k \in 1 .. Len(t) : t[k] \in S}
           f == [k \in I |-> k + 1]
<1>1. /\ Len(s) \in Nat /\ Len(s) >= 1 /\ t \in Seq(T) /\ Len(t) = Len(s) - 1
      /\ Head(s) = s[1] /\ \A k \in 1 .. Len(t) : t[k] = s[k + 1]
  <2>1. Len(s) \in Nat /\ (Len(s) = 0 <=> s = <<>>)
    BY EmptySeq, LenProperties
  <2> QED
    BY <2>1, HeadTailProperties
<1> HIDE DEF t
<1>2. IsFiniteSet(H) /\ IsFiniteSet(I)
  BY <1>1, CountType
<1>3. f \in Bijection(I, H \ {1})
  <2>1. \A k \in I : k + 1 \in H \ {1}
    BY <1>1
  <2>2. \A k \in H \ {1} : k - 1 \in I /\ f[k - 1] = k
    <3> SUFFICES ASSUME NEW k \in H \ {1} PROVE k - 1 \in I /\ f[k - 1] = k
      OBVIOUS
    <3>1. k \in Int /\ k - 1 \in 1 .. Len(t) /\ s[k] \in S /\ (k - 1) + 1 = k
      BY <1>1
    <3>2. t[k - 1] = s[k]
      BY <1>1, <3>1
    <3> QED
      BY <3>1, <3>2
  <2>3. \A k, m \in I : f[k] = f[m] => k = m
    BY <1>1
  <2>4. f \in [I -> H \ {1}]
    BY <2>1
  <2> QED
    BY <2>2, <2>3, <2>4 DEF Bijection, Injection, Surjection, IsInjective
<1>4. Cardinality(H \ {1}) = Cardinality(I)
  BY <1>2, <1>3, FS_Bijection DEF ExistsBijection
<1>5. 1 \in H <=> Head(s) \in S
  BY <1>1
<1>6. Cardinality(H \ {1}) = IF 1 \in H THEN Cardinality(H) - 1 ELSE Cardinality(H)
  BY <1>2, FS_RemoveElement
<1>7. Cardinality(H) \in Nat
  BY <1>2, FS_CardinalityType
<1> HIDE DEF H, I
<1>8. Cardinality(H) = OneIf(Head(s) \in S) + Cardinality(I)
  BY <1>4, <1>5, <1>6, <1>7 DEF OneIf
<1> QED
  BY <1>8 DEF Count, H, I, t

\* An element of S is counted.
LEMMA CountHit ==
  ASSUME NEW T, NEW s \in Seq(T), NEW S, NEW k \in 1 .. Len(s), s[k] \in S
  PROVE  Count(s, S) >= 1
<1>1. Count(s, S) \in Nat /\ Count(s, S) # 0
  BY CountType
<1> QED
  BY <1>1

----------------------------------------------------------------------------
(* Every step of a thread's output, and of the client's, on what is unread. *)

LEMMA OutputFacts ==
  ASSUME TypeOK
  PROVE  /\ pipe \in Seq(Pieces) /\ queue \in Seq(Pieces)
         /\ Len(pipe) \in Nat /\ Len(queue) \in Nat /\ sent \in 0 .. Len(queue)
         /\ queue # <<>> => sent < Len(queue)
         /\ SubSeq(queue, sent + 1, Len(queue)) \in Seq(Pieces)
         /\ Unread \in Seq(Pieces) /\ Len(Unread) \in Nat
<1>1. /\ pipe \in Seq(Pieces) /\ queue \in Seq(Pieces) /\ Len(pipe) \in Nat /\ Len(queue) \in Nat
      /\ sent \in 0 .. Len(queue) /\ (queue # <<>> => sent < Len(queue))
  BY EmptySeq, LenProperties DEF TypeOK, OutputTypeOK
<1>2. \A k \in sent + 1 .. Len(queue) : queue[k] \in Pieces
  BY <1>1, ElementOfSeq
<1>3. SubSeq(queue, sent + 1, Len(queue)) \in Seq(Pieces)
  BY <1>1, <1>2, SubSeqProperties
<1>4. Unread \in Seq(Pieces)
  BY <1>1, <1>3, ConcatProperties DEF Unread
<1> QED
  BY <1>1, <1>3, <1>4, LenProperties

\* The buffer is added to only between two flushes.
LEMMA UnreadAdd ==
  ASSUME TypeOK, Add, sent = 0
  PROVE  Unread' = Append(Unread, Head(todo)) /\ Head(todo) \in Pieces
<1> DEFINE x == Head(todo)
<1>1. x \in Pieces /\ queue' = Append(queue, x) /\ sent' = 0 /\ pipe' = pipe
  BY DEF Add
<1> HIDE DEF x
<1>2. queue' \in Seq(Pieces) /\ queue' = queue \o <<x>> /\ <<x>> \in Seq(Pieces)
  BY <1>1, OutputFacts, AppendProperties, AppendIsConcat
<1>3. Unread = pipe \o queue
  BY OutputFacts, SubSeqFull DEF Unread
<1>4. Unread' = pipe \o (queue \o <<x>>)
  BY <1>1, <1>2, SubSeqFull DEF Unread
<1>5. Unread' = Unread \o <<x>>
  BY <1>2, <1>3, <1>4, OutputFacts, ConcatAssociative
<1> QED
  BY <1>1, <1>5, OutputFacts, AppendIsConcat DEF x

\* Writing what is queued changes nothing for the client.
LEMMA UnreadFlush ==
  ASSUME TypeOK, WriteQueued, AtWrite
  PROVE  Unread' = Unread
<1> DEFINE x == queue[sent + 1]
           r == SubSeq(queue, sent + 2, Len(queue))
<1>1. queue # <<>> /\ pipe' = Append(pipe, x)
  BY DEF WriteQueued, AtWrite
<1>2. sent + 1 \in 1 .. Len(queue) /\ x \in Pieces
  BY <1>1, OutputFacts, ElementOfSeq
<1>3. r \in Seq(Pieces)
  <2>1. \A k \in sent + 2 .. Len(queue) : queue[k] \in Pieces
    BY OutputFacts, ElementOfSeq
  <2> QED
    BY <2>1, OutputFacts, SubSeqProperties
<1>4. SubSeq(queue, sent + 1, Len(queue)) = <<x>> \o r
  <2>1. Len(queue) \in sent + 1 .. Len(queue) /\ (sent + 1) + 1 = sent + 2
    BY <1>2, OutputFacts
  <2> QED
    BY <1>2, <2>1, OutputFacts, SubSeqRecursiveFirst
<1>5. SubSeq(queue', sent' + 1, Len(queue')) = r
  <2>1. CASE sent + 1 = Len(queue)
    <3>1. queue' = <<>> /\ sent' = 0
      BY <2>1 DEF WriteQueued
    <3>2. SubSeq(queue', sent' + 1, Len(queue')) = <<>>
      BY <3>1, SubSeqEmpty
    <3>3. r = <<>>
      BY <2>1, OutputFacts, SubSeqEmpty
    <3> QED
      BY <3>2, <3>3
  <2>2. CASE sent + 1 # Len(queue)
    <3>1. queue' = queue /\ sent' = sent + 1 /\ sent' + 1 = sent + 2
      BY <2>2, OutputFacts DEF WriteQueued
    <3> QED
      BY <3>1
  <2> QED
    BY <2>1, <2>2
<1> DEFINE one == <<x>>
<1>6. one \in Seq(Pieces) /\ pipe' = pipe \o one
  BY <1>1, <1>2, OutputFacts, AppendIsConcat
<1>7. Unread' = (pipe \o one) \o r /\ Unread = pipe \o (one \o r)
  BY <1>4, <1>5, <1>6 DEF Unread
<1> HIDE DEF x, r, one
<1>8. pipe \in Seq(Pieces)
  BY OutputFacts
<1>9. (pipe \o one) \o r = pipe \o (one \o r)
  BY <1>3, <1>6, <1>8, ConcatAssociative
<1> QED
  BY <1>7, <1>9

\* A body that goes past the queue.
LEMMA UnreadBulk ==
  ASSUME TypeOK, WriteBulk, AtWrite
  PROVE  Unread' = Append(Unread, Piece("body", Head(todo).id)) /\ Piece("body", Head(todo).id) \in Pieces
<1> DEFINE p == Piece("body", Head(todo).id)
<1>1. p \in Pieces
  <2>1. todo \in Seq(Steps) /\ todo # <<>>
    BY DEF TypeOK, OutputTypeOK, AtWrite
  <2>2. Head(todo).id \in Ids
    BY <2>1 DEF Steps, Pieces
  <2> QED
    BY <2>2 DEF Pieces, Piece
<1> HIDE DEF p
<1>2. queue = <<>> /\ sent = 0 /\ queue' = queue /\ sent' = sent /\ pipe' = Append(pipe, p)
  <2>1. queue = <<>> /\ queue' = queue /\ sent' = sent /\ pipe' = Append(pipe, p)
    BY DEF WriteBulk, AtWrite, p
  <2>2. Len(queue) = 0
    BY <2>1
  <2> QED
    BY <2>1, <2>2, OutputFacts
<1>3. SubSeq(queue, sent + 1, Len(queue)) = <<>>
  BY <1>2, SubSeqEmpty
<1>4. Unread = pipe /\ pipe' \in Seq(Pieces)
  BY <1>1, <1>2, <1>3, OutputFacts, ConcatEmptySeq, AppendProperties DEF Unread
<1>5. Unread' = pipe'
  BY <1>2, <1>3, <1>4, ConcatEmptySeq DEF Unread
<1> QED
  BY <1>1, <1>2, <1>4, <1>5 DEF p

LEMMA ThreeJoined ==
  \A a, b, c \in Seq(Pieces) : (a \o b) \o c = a \o (b \o c)
BY ConcatAssociative

LEMMA UnreadReceive ==
  ASSUME TypeOK, pipe # <<>>, pipe' = Tail(pipe), UNCHANGED <<queue, sent>>
  PROVE  /\ Unread # <<>> /\ Unread' = Tail(Unread) /\ Unread' \in Seq(Pieces)
         /\ Head(pipe) = Head(Unread) /\ Head(Unread) = Unread[1] /\ Unread[1] \in Pieces
<1> DEFINE x == Head(pipe)
           t == Tail(pipe)
           r == SubSeq(queue, sent + 1, Len(queue))
           one == <<x>>
<1>1. x \in Pieces /\ t \in Seq(Pieces) /\ r \in Seq(Pieces) /\ pipe = one \o t /\ one \in Seq(Pieces)
  BY OutputFacts, HeadTailProperties
<1>2. Unread = (one \o t) \o r /\ Unread' = t \o r
  BY <1>1 DEF Unread
<1>3. Len(one) = 1 /\ one[1] = x
  OBVIOUS
<1> HIDE DEF x, t, r, one
<1>4. Unread = one \o (t \o r) /\ t \o r \in Seq(Pieces)
  <2>1. (one \o t) \o r = one \o (t \o r)
    BY <1>1, ThreeJoined
  <2>2. t \o r \in Seq(Pieces)
    BY <1>1, ConcatProperties
  <2> QED
    BY <1>2, <2>1, <2>2, Zenon
<1> DEFINE w == t \o r
<1>5. w \in Seq(Pieces) /\ Len(w) \in Nat
  BY <1>4, LenProperties
<1> HIDE DEF w
<1>6. /\ Len(one \o w) = 1 + Len(w)
      /\ \A k \in 1 .. 1 + Len(w) : (one \o w)[k] = IF k <= 1 THEN one[k] ELSE w[k - 1]
  <2>1. /\ Len(one \o w) = Len(one) + Len(w)
        /\ \A k \in 1 .. Len(one) + Len(w) : (one \o w)[k] = IF k <= Len(one) THEN one[k] ELSE w[k - Len(one)]
    BY <1>1, <1>5, ConcatProperties
  <2> QED
    BY <1>3, <2>1
<1>7. Unread = one \o w
  BY <1>4 DEF w
<1>8. Unread # <<>> /\ Unread[1] = x /\ Head(Unread) = x
  BY <1>3, <1>5, <1>6, <1>7, OutputFacts
<1>9. /\ Tail(Unread) \in Seq(Pieces) /\ Len(Tail(Unread)) = Len(w)
      /\ \A k \in 1 .. Len(w) : Tail(Unread)[k] = w[k]
  <2>1. /\ Tail(Unread) \in Seq(Pieces) /\ Len(Tail(Unread)) = Len(Unread) - 1
        /\ \A k \in 1 .. Len(Tail(Unread)) : Tail(Unread)[k] = Unread[k + 1]
    BY <1>8, OutputFacts, HeadTailProperties
  <2>2. \A k \in 1 .. Len(w) : k + 1 \in 1 .. 1 + Len(w) /\ ~(k + 1 <= 1) /\ (k + 1) - 1 = k
    BY <1>5
  <2> QED
    BY <1>5, <1>6, <1>7, <2>1, <2>2
<1>10. Tail(Unread) = w
  BY <1>5, <1>9, SeqEqual
<1> QED
  BY <1>1, <1>2, <1>5, <1>8, <1>10 DEF w, x

LEMMA UnreadSame == UNCHANGED <<pipe, queue, sent>> => Unread' = Unread
BY DEF Unread

----------------------------------------------------------------------------
(* What is left of a script.                                               *)

\* The sequences that Rest lists, and what each leaves.
LEMMA RestOf ==
  ASSUME NEW i \in Ids, NEW b \in {"body", "bulk"}
  PROVE  LET F == <<Flush>>
             B == <<Piece(b, i), Flush>>
             D == Data(i, b)
             L == <<Piece("meta", i), Piece("head", i), Piece(b, i), Flush>>
             M == <<Piece("meta", i)>>
             A == <<Piece("result", i), Flush>>
             P == <<Piece("pong", 0), Flush>>
         IN  /\ F # <<>> /\ Len(F) = 1 /\ Head(F) = Flush /\ Tail(F) = <<>>
             /\ B # <<>> /\ Head(B) = Piece(b, i) /\ Tail(B) = F /\ Len(B) = 2
             /\ D # <<>> /\ Head(D) = Piece("head", i) /\ Tail(D) = B
             /\ L # <<>> /\ Head(L) = Piece("meta", i) /\ Tail(L) = D
             /\ M # <<>> /\ Head(M) = Piece("meta", i) /\ Tail(M) = <<>>
             /\ A # <<>> /\ Len(A) = 2 /\ Head(A) = Piece("result", i) /\ Tail(A) = F
             /\ P # <<>> /\ Len(P) = 2 /\ Head(P) = Piece("pong", 0) /\ Tail(P) = F
             /\ Len(<<>>) = 0
BY DEF Data

LEMMA PieceParts == \A k, i : Piece(k, i).kind = k /\ Piece(k, i).id = i /\ Flush.kind = "flush"
BY DEF Piece, Flush

LEMMA RestStep ==
  ASSUME NEW j, NEW i \in Ids, NEW s \in Rest(j, i), s # <<>>
  PROVE  /\ Tail(s) \in Rest(j, i)
         /\ \/ j \in {"size", "sync"} /\ Head(s) = Piece("meta", i) /\ Tail(s) = <<>>
            \/ /\ j = "slurp" /\ Head(s) = Piece("meta", i)
               /\ \E b \in {"body", "bulk"} : Tail(s) = Data(i, b)
            \/ /\ j \in {"data", "slurp"}
               /\ \E b \in {"body", "bulk"} :
                    \/ Head(s) = Piece("head", i) /\ Tail(s) = <<Piece(b, i), Flush>>
                    \/ Head(s) = Piece(b, i) /\ Tail(s) = <<Flush>>
            \/ j = "result" /\ Head(s) = Piece("result", i) /\ Tail(s) = <<Flush>> /\ Len(s) = 2
            \/ j = "pong" /\ Head(s) = Piece("pong", 0) /\ Tail(s) = <<Flush>>
            \/ j \in {"data", "slurp", "result", "pong"} /\ s = <<Flush>> /\ Head(s) = Flush /\ Tail(s) = <<>> /\ Len(s) = 1
<1>1. CASE j \in {"size", "sync"}
  BY <1>1, RestOf DEF Rest
<1>2. CASE j = "result"
  BY <1>2, RestOf DEF Rest
<1>3. CASE j = "pong"
  BY <1>3, RestOf DEF Rest
<1>4. CASE j \in {"data", "slurp"}
  <2>1. PICK b \in {"body", "bulk"} :
          \/ s = Data(i, b) \/ s = <<Piece(b, i), Flush>> \/ s = <<Flush>>
          \/ j = "slurp" /\ s = <<Piece("meta", i), Piece("head", i), Piece(b, i), Flush>>
    BY <1>4 DEF Rest
  <2>2. /\ Data(i, b) \in Rest(j, i) /\ <<Piece(b, i), Flush>> \in Rest(j, i)
        /\ <<Flush>> \in Rest(j, i) /\ <<>> \in Rest(j, i)
    BY <1>4 DEF Rest
  <2>3. CASE s = Data(i, b)
    BY <1>4, <2>2, <2>3, RestOf
  <2>4. CASE s = <<Piece(b, i), Flush>>
    BY <1>4, <2>2, <2>4, RestOf
  <2>5. CASE s = <<Flush>>
    BY <1>4, <2>2, <2>5, RestOf
  <2>6. CASE j = "slurp" /\ s = <<Piece("meta", i), Piece("head", i), Piece(b, i), Flush>>
    BY <2>2, <2>6, RestOf
  <2> QED
    BY <2>1, <2>3, <2>4, <2>5, <2>6
<1>5. j \in {"size", "sync", "result", "pong", "data", "slurp"}
  BY DEF Rest
<1> QED
  BY <1>1, <1>2, <1>3, <1>4, <1>5

LEMMA RestResult ==
  ASSUME NEW i \in Ids, NEW s \in Rest("result", i), s # <<>>, Head(s) # Flush
  PROVE  Head(s) = Piece("result", i) /\ Len(s) = 2
BY RestStep

\* The holder is about to flush, or about to queue the next piece of its script.
LEMMA HolderNext ==
  ASSUME TypeOK, LockInv, NEW t \in Threads, lock = t, todo # <<>>
  PROVE  /\ IdOf(t) \in Ids /\ Tail(todo) \in Rest(job[t], IdOf(t))
         /\ \/ Head(todo) = Flush /\ Tail(todo) = <<>> /\ Len(todo) = 1 /\ todo \in Rest(job[t], IdOf(t))
            \/ Head(todo) = Flush /\ Tail(todo) # <<>> /\ Head(Tail(todo)) # Flush
            \/ Head(todo).kind # "flush" /\ Head(todo) # Flush /\ todo \in Rest(job[t], IdOf(t))
<1>0. frame.id \in Ids
  BY DEF TypeOK, ThreadTypeOK, InFrames
<1>1. IdOf(t) \in Ids
  BY <1>0, SessionAssumption DEF IdOf
<1>2. Due(job[t], IdOf(t))
  BY DEF LockInv
<1>3. CASE todo \in Rest(job[t], IdOf(t))
  <2>1. Tail(todo) \in Rest(job[t], IdOf(t))
    BY <1>1, <1>3, RestStep
  <2>2. \/ Head(todo) = Flush /\ Tail(todo) = <<>> /\ Len(todo) = 1
        \/ \E k \in {"meta", "head", "body", "bulk", "result", "pong"}, i \in Ids : Head(todo) = Piece(k, i)
    BY <1>1, <1>3, RestStep, SessionAssumption
  <2> QED
    BY <1>1, <1>3, <2>1, <2>2 DEF Piece, Flush
<1> QED
  BY <1>1, <1>2, <1>3 DEF Due

LEMMA TailDue ==
  ASSUME TypeOK, LockInv, NEW t \in Threads, lock = t, todo # <<>>, todo' = Tail(todo),
         UNCHANGED <<job, frame>>
  PROVE  Due(job[t], IdOf(t))'
BY HolderNext DEF Due, IdOf

LEMMA TodoType ==
  ASSUME TypeOK, todo # <<>>
  PROVE  /\ todo \in Seq(Steps) /\ Head(todo) \in Steps /\ Head(todo) = todo[1] /\ Len(todo) \in Nat \ {0}
         /\ Tail(todo) \in Seq(Steps) /\ Len(Tail(todo)) = Len(todo) - 1
         /\ \A k \in 1 .. Len(todo) - 1 : Tail(todo)[k] = todo[k + 1]
<1>1. todo \in Seq(Steps)
  BY DEF TypeOK, OutputTypeOK
<1> QED
  BY <1>1, EmptySeq, LenProperties, HeadTailProperties

LEMMA FlushFirst ==
  ASSUME TypeOK, todo' = <<Flush>> \o todo
  PROVE  /\ todo' # <<>> /\ Head(todo') = Flush /\ Tail(todo') = todo
         /\ Len(todo') = Len(todo) + 1 /\ \A k \in 1 .. Len(todo) : todo'[k + 1] = todo[k]
<1> DEFINE one == <<Flush>>
           v == one \o todo
<1>1. todo \in Seq(Steps) /\ Len(todo) \in Nat
  BY LenProperties DEF TypeOK, OutputTypeOK
<1>2. one \in Seq(Steps) /\ Len(one) = 1 /\ one[1] = Flush
  <2>1. 0 \in Ids
    BY SessionAssumption
  <2>2. Flush \in Steps
    BY <2>1 DEF Steps, Flush, Piece
  <2> QED
    BY <2>2
<1> HIDE DEF one
<1>3. /\ v \in Seq(Steps) /\ Len(v) = Len(one) + Len(todo)
      /\ \A k \in 1 .. Len(one) + Len(todo) : v[k] = IF k <= Len(one) THEN one[k] ELSE todo[k - Len(one)]
  BY <1>1, <1>2, ConcatProperties
<1> HIDE DEF v
<1>4. Len(v) = Len(todo) + 1 /\ v[1] = Flush /\ \A k \in 1 .. Len(todo) : v[k + 1] = todo[k]
  <2>1. \A k \in 1 .. Len(todo) : k + 1 \in 1 .. 1 + Len(todo) /\ ~(k + 1 <= 1) /\ (k + 1) - 1 = k
    BY <1>1
  <2>2. /\ Len(v) = 1 + Len(todo)
        /\ \A k \in 1 .. 1 + Len(todo) : v[k] = IF k <= 1 THEN one[k] ELSE todo[k - 1]
    BY <1>2, <1>3
  <2>3. v[1] = Flush
    BY <1>1, <1>2, <2>2
  <2>4. \A k \in 1 .. Len(todo) : v[k + 1] = todo[k]
    BY <2>1, <2>2
  <2> QED
    BY <1>1, <2>2, <2>3, <2>4
<1>5. v # <<>>
  BY <1>1, <1>3, <1>4
<1>6. Tail(v) \in Seq(Steps) /\ Len(Tail(v)) = Len(todo) /\ \A k \in 1 .. Len(todo) : Tail(v)[k] = todo[k]
  BY <1>1, <1>3, <1>4, <1>5, HeadTailProperties
<1>7. Tail(v) = todo
  BY <1>1, <1>6, SeqEqual
<1>8. Head(v) = Flush
  BY <1>3, <1>4, <1>5
<1>9. todo' = v
  BY DEF v, one
<1> QED
  BY <1>4, <1>5, <1>7, <1>8, <1>9

LEMMA FlushFirstDue ==
  ASSUME TypeOK, LockInv, NEW t \in Threads, lock = t, todo # <<>>, Head(todo).kind # "flush",
         todo' = <<Flush>> \o todo, UNCHANGED <<job, frame>>
  PROVE  Due(job[t], IdOf(t))'
<1>1. todo \in Rest(job[t], IdOf(t)) /\ Head(todo) # Flush
  BY HolderNext, PieceParts
<1>2. todo' # <<>> /\ Head(todo') = Flush /\ Tail(todo') = todo
  BY FlushFirst
<1>3. job'[t] = job[t] /\ IdOf(t)' = IdOf(t)
  BY DEF IdOf
<1> QED
  BY <1>1, <1>2, <1>3 DEF Due

\* The five things a holder may do at its output, and what each implies.
LEMMA OutputCases ==
  ASSUME TypeOK, LockInv, NEW t \in Threads, Output(t)
  PROVE  /\ lock = t /\ todo # <<>>
         /\ UNCHANGED <<cvars, ivars, pc, job, mvars, tvars, lock, inFlight>>
         /\ \/ Add /\ Head(todo) \in Pieces /\ Head(todo).kind # "flush" /\ sent = 0
            \/ AddFlushes /\ Head(todo).kind # "flush" /\ sent = 0
            \/ FlushNothing /\ Head(todo) = Flush /\ sent = 0
            \/ WriteQueued /\ AtWrite /\ Head(todo) = Flush /\ queue # <<>>
            \/ WriteBulk /\ AtWrite /\ Head(todo).kind = "bulk" /\ queue = <<>> /\ sent = 0
<1>1. lock = t /\ todo # <<>> /\ UNCHANGED <<cvars, ivars, pc, job, mvars, tvars, lock, inFlight>>
  BY DEF Output, LockInv
<1>2. Head(todo).kind # "flush" => sent = 0
  BY <1>1 DEF LockInv, TypeOK, OutputTypeOK
<1>3. queue = <<>> => sent = 0
  BY DEF TypeOK, OutputTypeOK
<1>4. Head(todo).kind = "flush" => Head(todo) = Flush
  BY <1>1, HolderNext
<1>5. Head(todo) \in Pieces => Head(todo).kind # "flush"
  BY DEF Pieces
<1> QED
  BY <1>1, <1>2, <1>3, <1>4, <1>5 DEF Output, Write, WriteOnce, Add, AddFlushes, FlushNothing, WriteQueued, WriteBulk, AtWrite

----------------------------------------------------------------------------
(* A step of the holder's output keeps what is said of the output.         *)

LEMMA OutputLock ==
  ASSUME TypeOK, LockInv, NEW t \in Threads, Output(t)
  PROVE  LockInv'
<1>1. /\ lock = t /\ todo # <<>> /\ pc' = pc /\ job' = job /\ frame' = frame /\ lock' = lock
      /\ t # Nobody
  BY OutputCases, SessionAssumption DEF mvars
<1>2. ASSUME todo' = Tail(todo), sent' = 0 PROVE LockInv'
  BY <1>1, <1>2, TailDue DEF LockInv
<1>3. CASE Add /\ sent = 0
  BY <1>2, <1>3 DEF Add
<1>4. CASE AddFlushes /\ Head(todo).kind # "flush" /\ sent = 0
  <2>1. Due(job[t], IdOf(t))' /\ sent' = 0
    BY <1>1, <1>4, FlushFirstDue DEF AddFlushes
  <2> QED
    BY <1>1, <2>1 DEF LockInv
<1>5. CASE FlushNothing /\ sent = 0
  BY <1>2, <1>5 DEF FlushNothing
<1>6. CASE WriteQueued /\ Head(todo) = Flush
  <2>1. CASE sent + 1 = Len(queue)
    BY <1>2, <1>6, <2>1 DEF WriteQueued
  <2>2. CASE sent + 1 # Len(queue)
    <3>1. todo' = todo /\ Due(job[t], IdOf(t))
      BY <1>1, <1>6, <2>2 DEF WriteQueued, LockInv
    <3>2. Due(job[t], IdOf(t))' /\ Head(todo').kind = "flush" /\ todo' # <<>>
      BY <1>1, <1>6, <3>1, PieceParts DEF Due, IdOf
    <3> QED
      BY <1>1, <3>2 DEF LockInv
  <2> QED
    BY <2>1, <2>2
<1>7. CASE WriteBulk /\ sent = 0
  BY <1>2, <1>7 DEF WriteBulk
<1> QED
  BY <1>3, <1>4, <1>5, <1>6, <1>7, OutputCases

LEMMA OutputFlush ==
  ASSUME TypeOK, LockInv, FlushInv, NEW t \in Threads, Output(t)
  PROVE  FlushInv'
<1>1. /\ lock = t /\ todo # <<>> /\ job' = job /\ frame' = frame /\ lock' = lock
      /\ IdOf(t)' = IdOf(t)
  BY OutputCases DEF mvars, IdOf
<1> SUFFICES ASSUME job[t] = "result", Len(todo') = 1
             PROVE  queue' # <<>> /\ queue'[Len(queue')] = Piece("result", IdOf(t))
  BY <1>1 DEF FlushInv
<1>2. /\ Len(Tail(todo)) = Len(todo) - 1 /\ Len(todo) \in Nat /\ IdOf(t) \in Ids
      /\ queue \in Seq(Pieces)
  BY <1>1, TodoType, HolderNext, OutputFacts
<1>3. CASE Add /\ Head(todo) \in Pieces /\ Head(todo).kind # "flush"
  <2>1. todo \in Rest("result", IdOf(t)) /\ Head(todo) # Flush
    BY <1>1, <1>3, HolderNext, PieceParts
  <2>2. Head(todo) = Piece("result", IdOf(t))
    BY <1>1, <1>2, <2>1, RestStep
  <2> QED
    BY <1>2, <1>3, <2>2, AppendProperties DEF Add
<1>4. CASE AddFlushes
  <2>1. Len(todo') = Len(todo) + 1
    BY <1>4, FlushFirst DEF AddFlushes
  <2> QED
    BY <1>1, <1>2, <2>1, TodoType
<1>5. CASE Head(todo) = Flush /\ todo' = Tail(todo)
  <2>1. Tail(todo) \in Rest("result", IdOf(t)) /\ Tail(todo) # <<>> /\ Head(Tail(todo)) # Flush
    BY <1>1, <1>2, <1>5, HolderNext
  <2>2. Len(Tail(todo)) = 2
    BY <1>2, <2>1, RestResult
  <2>3. Len(todo') = 2
    BY <1>5, <2>2
  <2> QED
    BY <2>3
<1>6. CASE WriteQueued /\ AtWrite /\ todo' = todo /\ queue' = queue
  BY <1>1, <1>6 DEF FlushInv
<1>7. CASE WriteBulk /\ Head(todo).kind = "bulk"
  <2>1. todo \in Rest("result", IdOf(t)) /\ Head(todo) # Flush
    BY <1>1, <1>7, HolderNext, PieceParts
  <2> QED
    BY <1>1, <1>2, <1>7, <2>1, RestStep, PieceParts
<1> QED
  BY <1>3, <1>4, <1>5, <1>6, <1>7, OutputCases DEF FlushNothing, WriteQueued

LEMMA OutputDue ==
  ASSUME TypeOK, LockInv, FlushDue, NEW t \in Threads, Output(t)
  PROVE  FlushDue'
<1>1. lock = t /\ todo # <<>>
  BY OutputCases
<1>2. /\ Len(todo) \in Nat \ {0} /\ Head(todo) = todo[1]
      /\ Len(Tail(todo)) = Len(todo) - 1 /\ Tail(todo) \in Seq(Steps)
      /\ \A k \in 1 .. Len(todo) - 1 : Tail(todo)[k] = todo[k + 1]
  BY <1>1, TodoType
<1>3. CASE todo[Len(todo)].kind = "flush"
  <2>1. ASSUME Len(todo) > 1, todo' = Tail(todo) PROVE FlushDue'
    <3>1. Len(todo') = Len(todo) - 1 /\ todo'[Len(todo) - 1] = todo[Len(todo)] /\ todo' # <<>>
      <4>1. Len(todo) - 1 \in 1 .. Len(todo) - 1 /\ (Len(todo) - 1) + 1 = Len(todo)
        BY <1>2, <2>1
      <4>2. Tail(todo)[Len(todo) - 1] = todo[(Len(todo) - 1) + 1]
        BY <1>2, <4>1
      <4>3. Len(todo') = Len(todo) - 1 /\ todo' # <<>>
        <5>1. Len(todo) \in Nat /\ Len(Tail(todo)) = Len(todo) - 1
          BY <1>2
        <5>2. Len(todo) - 1 # 0
          BY <2>1, <5>1
        <5>3. Len(todo') = Len(todo) - 1
          BY <2>1, <5>1
        <5>4. Len(<<>>) = 0
          OBVIOUS
        <5> QED
          BY <5>2, <5>3, <5>4
      <4>4. todo'[Len(todo) - 1] = todo[Len(todo)]
        BY <2>1, <4>1, <4>2
      <4> QED
        BY <4>3, <4>4
    <3> QED
      BY <1>3, <3>1 DEF FlushDue
  <2>2. Head(todo).kind # "flush" => Len(todo) > 1
    BY <1>2, <1>3
  <2>3. ASSUME todo' = Tail(todo), queue' = <<>> PROVE FlushDue'
    <3>1. CASE Len(todo) = 1
      <4>1. Len(todo') = 0 /\ Len(queue') = 0
        BY <1>2, <2>3, <3>1
      <4> QED
        BY <4>1 DEF FlushDue
    <3> QED
      BY <1>2, <2>1, <2>3, <3>1
  <2>4. CASE AddFlushes
    <3>1. todo' # <<>> /\ Len(todo') = Len(todo) + 1 /\ todo'[Len(todo) + 1] = todo[Len(todo)]
      BY <1>2, <2>4, FlushFirst DEF AddFlushes
    <3> QED
      BY <1>3, <3>1 DEF FlushDue
  <2>5. CASE WriteQueued
    <3>1. CASE sent + 1 = Len(queue)
      BY <2>3, <2>5, <3>1 DEF WriteQueued
    <3>2. CASE sent + 1 # Len(queue)
      BY <1>1, <1>3, <2>5, <3>2 DEF WriteQueued, FlushDue
    <3> QED
      BY <3>1, <3>2
  <2> QED
    BY <2>1, <2>2, <2>3, <2>4, <2>5, OutputCases DEF Add, FlushNothing, WriteBulk
<1>4. CASE /\ \A k \in 1 .. Len(queue) : queue[k].kind = "meta"
           /\ \A k \in 1 .. Len(todo) : todo[k].kind \in {"meta", "flush"}
  <2>1. ASSUME todo' = Tail(todo), \A k \in 1 .. Len(queue') : queue'[k].kind = "meta"
        PROVE  FlushDue'
    <3>1. \A k \in 1 .. Len(todo') : todo'[k].kind \in {"meta", "flush"}
      BY <1>2, <1>4, <2>1
    <3> QED
      BY <2>1, <3>1 DEF FlushDue
  <2>2. Head(todo).kind \in {"meta", "flush"}
    BY <1>2, <1>4
  <2>3. CASE Add /\ Head(todo).kind # "flush"
    <3>1. /\ Len(queue') = Len(queue) + 1 /\ queue'[Len(queue) + 1] = Head(todo) /\ Len(queue) \in Nat
          /\ \A k \in 1 .. Len(queue) : queue'[k] = queue[k]
      BY <2>3, OutputFacts, AppendProperties DEF Add
    <3>2. \A k \in 1 .. Len(queue') : queue'[k].kind = "meta"
      <4> SUFFICES ASSUME NEW k \in 1 .. Len(queue') PROVE queue'[k].kind = "meta"
        OBVIOUS
      <4>1. k \in 1 .. Len(queue) \/ k = Len(queue) + 1
        BY <3>1
      <4> QED
        BY <1>4, <2>2, <2>3, <3>1, <4>1
    <3> QED
      BY <2>1, <2>3, <3>2 DEF Add
  <2>4. CASE AddFlushes
    <3>1. /\ Len(todo') = Len(todo) + 1 /\ todo'[1] = Flush /\ queue' = queue
          /\ \A k \in 1 .. Len(todo) : todo'[k + 1] = todo[k]
      <4>1. todo' # <<>> /\ Head(todo') = Flush /\ Len(todo') = Len(todo) + 1
        BY <2>4, FlushFirst DEF AddFlushes
      <4> QED
        BY <2>4, <4>1, FlushFirst DEF AddFlushes
    <3>2. \A k \in 1 .. Len(todo') : todo'[k].kind \in {"meta", "flush"}
      <4> SUFFICES ASSUME NEW k \in 1 .. Len(todo') PROVE todo'[k].kind \in {"meta", "flush"}
        OBVIOUS
      <4>1. k = 1 \/ (k - 1 \in 1 .. Len(todo) /\ (k - 1) + 1 = k)
        BY <1>2, <3>1
      <4>2. CASE k = 1
        BY <3>1, <4>2, PieceParts
      <4>3. CASE k - 1 \in 1 .. Len(todo) /\ (k - 1) + 1 = k
        <5>1. todo'[(k - 1) + 1] = todo[k - 1]
          BY <3>1, <4>3
        <5> QED
          BY <1>4, <4>3, <5>1
      <4> QED
        BY <4>1, <4>2, <4>3
    <3> QED
      BY <1>4, <3>1, <3>2 DEF FlushDue
  <2>5. CASE FlushNothing
    BY <1>4, <2>1, <2>5 DEF FlushNothing
  <2>6. CASE WriteQueued
    <3>1. CASE sent + 1 = Len(queue)
      <4>1. Len(queue') = 0 /\ todo' = Tail(todo)
        BY <2>6, <3>1 DEF WriteQueued
      <4> QED
        BY <2>1, <4>1
    <3>2. CASE sent + 1 # Len(queue)
      BY <1>4, <2>6, <3>2 DEF WriteQueued, FlushDue
    <3> QED
      BY <3>1, <3>2
  <2> QED
    BY <2>2, <2>3, <2>4, <2>5, <2>6, OutputCases
<1> QED
  BY <1>1, <1>3, <1>4 DEF FlushDue

\* The frames of a sequence stay whole when a piece that continues it follows.
LEMMA WholeAppend ==
  ASSUME NEW s \in Seq(Pieces), NEW x \in Pieces, NEW r, Whole(s, r),
         Opens(s, r, Len(s) + 1) = IF x.kind = "body" THEN x.id ELSE None
  PROVE  /\ Whole(Append(s, x), r)
         /\ Opens(Append(s, x), r, Len(Append(s, x)) + 1) = IF x.kind = "head" THEN x.id ELSE None
<1> DEFINE v == Append(s, x)
           n == Len(s) + 1
<1>1. Len(s) \in Nat /\ Len(v) = n /\ v[n] = x /\ \A k \in 1 .. Len(s) : v[k] = s[k]
  BY AppendProperties, LenProperties
<1> HIDE DEF v
<1>2. \A k \in 1 .. n : Opens(v, r, k) = Opens(s, r, k)
  <2> SUFFICES ASSUME NEW k \in 1 .. n PROVE Opens(v, r, k) = Opens(s, r, k)
    OBVIOUS
  <2>1. k = 1 \/ k - 1 \in 1 .. Len(s)
    BY <1>1
  <2> QED
    BY <1>1, <2>1 DEF Opens
<1>3. Whole(v, r)
  <2> SUFFICES ASSUME NEW k \in 1 .. Len(v)
               PROVE  IF v[k].kind = "body" THEN Opens(v, r, k) = v[k].id ELSE Opens(v, r, k) = None
    BY DEF Whole
  <2>1. CASE k = n
    BY <1>1, <1>2, <2>1
  <2>2. CASE k \in 1 .. Len(s)
    BY <1>1, <1>2, <2>2 DEF Whole
  <2> QED
    BY <1>1, <2>1, <2>2
<1>4. Opens(v, r, n + 1) = IF x.kind = "head" THEN x.id ELSE None
  BY <1>1 DEF Opens
<1> QED
  BY <1>1, <1>3, <1>4 DEF v

LEMMA WholeTail ==
  ASSUME NEW s \in Seq(Pieces), s # <<>>, NEW r, Whole(s, r)
  PROVE  LET q == IF s[1].kind = "head" THEN s[1].id ELSE None
         IN  /\ Whole(Tail(s), q)
             /\ Opens(Tail(s), q, Len(Tail(s)) + 1) = Opens(s, r, Len(s) + 1)
<1> DEFINE v == Tail(s)
           q == IF s[1].kind = "head" THEN s[1].id ELSE None
<1>1. /\ Len(s) \in Nat \ {0} /\ Len(v) = Len(s) - 1 /\ \A k \in 1 .. Len(v) : v[k] = s[k + 1]
      /\ s[1] \in Pieces
  BY EmptySeq, LenProperties, HeadTailProperties, ElementOfSeq
<1> HIDE DEF v
<1>2. \A k \in 1 .. Len(s) : Opens(v, q, k) = Opens(s, r, k + 1)
  <2> SUFFICES ASSUME NEW k \in 1 .. Len(s) PROVE Opens(v, q, k) = Opens(s, r, k + 1)
    OBVIOUS
  <2>1. CASE k = 1
    BY <1>1, <2>1 DEF Opens
  <2>2. CASE k # 1
    <3>1. k - 1 \in 1 .. Len(v) /\ (k - 1) + 1 = k /\ (k + 1) - 1 = k /\ k + 1 # 1
      BY <1>1, <2>2
    <3>2. v[k - 1] = s[k]
      BY <1>1, <3>1
    <3> QED
      BY <2>2, <3>1, <3>2 DEF Opens
  <2> QED
    BY <2>1, <2>2
<1>3. q # Broken
  BY <1>1, SessionAssumption DEF Pieces
<1>4. Whole(v, q)
  <2> SUFFICES ASSUME NEW k \in 1 .. Len(v)
               PROVE  IF v[k].kind = "body" THEN Opens(v, q, k) = v[k].id ELSE Opens(v, q, k) = None
    BY <1>3 DEF Whole
  <2>1. v[k] = s[k + 1] /\ k + 1 \in 1 .. Len(s) /\ k \in 1 .. Len(s)
    BY <1>1
  <2> QED
    BY <1>2, <2>1 DEF Whole
<1>5. Opens(v, q, Len(v) + 1) = Opens(s, r, Len(s) + 1)
  BY <1>1, <1>2
<1> QED
  BY <1>4, <1>5 DEF v

LEMMA OutputFrame ==
  ASSUME TypeOK, LockInv, FrameInv, NEW t \in Threads, Output(t)
  PROVE  FrameInv'
<1>1. lock = t /\ todo # <<>> /\ rx' = rx /\ IdOf(t) \in Ids
  BY OutputCases, HolderNext DEF cvars
<1>2. Unread \in Seq(Pieces) /\ Whole(Unread, rx) /\ Opens(Unread, rx, Len(Unread) + 1) = Awaited
  BY OutputFacts DEF FrameInv
<1>3. ASSUME NEW x \in Pieces, Unread' = Append(Unread, x),
             Awaited = IF x.kind = "body" THEN x.id ELSE None,
             Awaited' = IF x.kind = "head" THEN x.id ELSE None
      PROVE  FrameInv'
  BY <1>1, <1>2, <1>3, WholeAppend DEF FrameInv
<1>4. ASSUME Unread' = Unread, Awaited' = Awaited PROVE FrameInv'
  BY <1>1, <1>4 DEF FrameInv
<1>5. ASSUME Head(todo) = Flush, todo' = Tail(todo) PROVE Awaited' = Awaited
  <2>1. Tail(todo) = <<>> \/ (Tail(todo) # <<>> /\ Head(Tail(todo)) # Flush)
    BY <1>1, <1>5, HolderNext, PieceParts
  <2>2. Awaited = BodyFirst(Tail(todo))
    BY <1>1, <1>5 DEF Awaited
  <2>3. Awaited' = BodyFirst(todo')
    BY <1>5, <2>1 DEF Awaited
  <2> QED
    BY <1>5, <2>2, <2>3
<1>6. CASE Add /\ Head(todo) \in Pieces /\ Head(todo).kind # "flush" /\ sent = 0
  <2>1. Head(todo) # Flush /\ todo \in Rest(job[t], IdOf(t))
    BY <1>1, <1>6, HolderNext, PieceParts
  <2>2. Awaited = IF Head(todo).kind \in {"body", "bulk"} THEN Head(todo).id ELSE None
    BY <1>1, <2>1 DEF Awaited, BodyFirst
  <2>3. Awaited' = IF Tail(todo) # <<>> /\ Head(Tail(todo)) = Flush THEN BodyFirst(Tail(Tail(todo))) ELSE BodyFirst(Tail(todo))
    BY <1>6 DEF Add, Awaited
  <2>4. Awaited' = IF Head(todo).kind = "head" THEN Head(todo).id ELSE None
    <3>1. CASE Head(todo) = Piece("meta", IdOf(t)) /\ Tail(todo) = <<>>
      BY <2>3, <3>1, PieceParts DEF BodyFirst
    <3>2. CASE Head(todo) = Piece("meta", IdOf(t)) /\ \E b \in {"body", "bulk"} : Tail(todo) = Data(IdOf(t), b)
      <4>1. Tail(todo) # <<>> /\ Head(Tail(todo)) = Piece("head", IdOf(t))
        BY <1>1, <3>2, RestOf
      <4> QED
        BY <2>3, <3>2, <4>1, PieceParts DEF BodyFirst
    <3>3. CASE /\ Head(todo) = Piece("head", IdOf(t))
               /\ \E b \in {"body", "bulk"} : Tail(todo) = <<Piece(b, IdOf(t)), Flush>>
      <4>1. Tail(todo) # <<>> /\ \E b \in {"body", "bulk"} : Head(Tail(todo)) = Piece(b, IdOf(t))
        BY <1>1, <3>3, RestOf
      <4> QED
        BY <2>3, <3>3, <4>1, PieceParts DEF BodyFirst
    <3>4. CASE Tail(todo) = <<Flush>> /\ Head(todo).kind # "head"
      <4>1. Tail(todo) # <<>> /\ Head(Tail(todo)) = Flush /\ Tail(Tail(todo)) = <<>>
        BY <1>1, <3>4, RestOf
      <4> QED
        BY <2>3, <3>4, <4>1 DEF BodyFirst
    <3> QED
      BY <1>1, <2>1, <3>1, <3>2, <3>3, <3>4, RestStep, PieceParts
  <2>5. Head(todo).kind \in {"body", "bulk"} <=> Head(todo).kind = "body"
    BY <1>6 DEF Pieces
  <2> QED
    BY <1>3, <1>6, <2>2, <2>4, <2>5, UnreadAdd
<1>7. CASE AddFlushes /\ Head(todo).kind # "flush"
  <2>1. Head(todo') = Flush /\ todo' # <<>> /\ Tail(todo') = todo
    BY <1>7, FlushFirst DEF AddFlushes
  <2>2. Awaited' = BodyFirst(todo)
    BY <2>1 DEF Awaited
  <2>3. Awaited = BodyFirst(todo)
    BY <1>7, PieceParts DEF Awaited
  <2> QED
    BY <1>4, <1>7, <2>2, <2>3, UnreadSame DEF AddFlushes
<1>8. CASE FlushNothing /\ Head(todo) = Flush
  BY <1>4, <1>5, <1>8, UnreadSame DEF FlushNothing
<1>9. CASE WriteQueued /\ AtWrite /\ Head(todo) = Flush
  <2>1. CASE sent + 1 = Len(queue)
    BY <1>4, <1>5, <1>9, <2>1, UnreadFlush DEF WriteQueued
  <2>2. CASE sent + 1 # Len(queue)
    <3>1. Awaited' = Awaited
      BY <1>9, <2>2 DEF WriteQueued, Awaited
    <3> QED
      BY <1>4, <1>9, <3>1, UnreadFlush
  <2> QED
    BY <2>1, <2>2
<1>10. CASE WriteBulk /\ AtWrite /\ Head(todo).kind = "bulk"
  <2>1. Head(todo) # Flush /\ todo \in Rest(job[t], IdOf(t))
    BY <1>1, <1>10, HolderNext, PieceParts
  <2>2. Tail(todo) = <<Flush>>
    BY <1>1, <1>10, <2>1, RestStep, PieceParts
  <2>3. Tail(todo) # <<>> /\ Head(Tail(todo)) = Flush /\ Tail(Tail(todo)) = <<>>
    BY <1>1, <2>2, RestOf
  <2>4. Awaited' = None
    BY <1>10, <2>3 DEF WriteBulk, Awaited, BodyFirst
  <2>5. Awaited = Head(todo).id
    BY <1>1, <1>10, <2>1 DEF Awaited, BodyFirst
  <2> QED
    BY <1>3, <1>10, <2>4, <2>5, UnreadBulk, PieceParts
<1> QED
  BY <1>6, <1>7, <1>8, <1>9, <1>10, OutputCases

\* No data of a request is written once its result is queued.
LEMMA LastAppend ==
  ASSUME NEW s \in Seq(Pieces), NEW x \in Pieces,
         \A k, m \in 1 .. Len(s) :
           k < m /\ s[k].kind = "result" /\ s[m].kind = "body" => s[k].id # s[m].id,
         x.kind = "body" => \A k \in 1 .. Len(s) : s[k].kind = "result" => s[k].id # x.id
  PROVE  LET v == Append(s, x)
         IN  \A k, m \in 1 .. Len(v) :
               k < m /\ v[k].kind = "result" /\ v[m].kind = "body" => v[k].id # v[m].id
<1> DEFINE v == Append(s, x)
<1>1. Len(s) \in Nat /\ Len(v) = Len(s) + 1 /\ v[Len(s) + 1] = x /\ \A k \in 1 .. Len(s) : v[k] = s[k]
  BY AppendProperties, LenProperties
<1> HIDE DEF v
<1>2. ASSUME NEW k \in 1 .. Len(v), NEW m \in 1 .. Len(v),
             k < m, v[k].kind = "result", v[m].kind = "body"
      PROVE  v[k].id # v[m].id
  <2>1. k \in 1 .. Len(s) /\ v[k] = s[k]
    BY <1>1, <1>2
  <2>2. CASE m = Len(s) + 1
    BY <1>1, <1>2, <2>1, <2>2
  <2>3. CASE m \in 1 .. Len(s)
    BY <1>1, <1>2, <2>1, <2>3
  <2> QED
    BY <1>1, <2>2, <2>3
<1> QED
  BY <1>2 DEF v

LEMMA OutputLast ==
  ASSUME TypeOK, LockInv, ResultLast, NEW t \in Threads, Output(t),
         job[t] \in {"data", "slurp"} => Count(Unread, Of({"result"}, {IdOf(t)})) = 0
  PROVE  ResultLast'
<1>1. lock = t /\ todo # <<>> /\ IdOf(t) \in Ids
  BY OutputCases, HolderNext
<1>2. Unread \in Seq(Pieces)
  BY OutputFacts
<1>3. ASSUME Unread' = Unread PROVE ResultLast'
  BY <1>3 DEF ResultLast
<1>4. ASSUME NEW x \in Pieces, Unread' = Append(Unread, x),
             x.kind = "body" => Head(todo).kind \in {"body", "bulk"} /\ x.id = Head(todo).id
      PROVE  ResultLast'
  <2>1. ASSUME x.kind = "body", NEW k \in 1 .. Len(Unread), Unread[k].kind = "result"
        PROVE  Unread[k].id # x.id
    <3>1. Head(todo).kind \in {"body", "bulk"} /\ x.id = Head(todo).id
      BY <1>4, <2>1
    <3>2. todo \in Rest(job[t], IdOf(t))
      BY <1>1, <3>1, HolderNext, PieceParts
    <3>3. job[t] \in {"data", "slurp"} /\ Head(todo).id = IdOf(t)
      BY <1>1, <3>1, <3>2, RestStep, PieceParts
    <3>4. Unread[k] \notin Of({"result"}, {IdOf(t)})
      BY <1>2, <3>3, CountType
    <3>5. Unread[k] \in Pieces
      BY <1>2, ElementOfSeq
    <3>6. Unread[k].id # IdOf(t)
      BY <2>1, <3>4, <3>5 DEF Of, Pieces
    <3> QED
      BY <3>1, <3>3, <3>6
  <2>2. ResultLast
    OBVIOUS
  <2> DEFINE v == Append(Unread, x)
  <2>3. \A k, m \in 1 .. Len(v) :
          k < m /\ v[k].kind = "result" /\ v[m].kind = "body" => v[k].id # v[m].id
    BY <1>2, <2>1, <2>2, LastAppend DEF ResultLast
  <2> HIDE DEF v
  <2>4. Unread' = v
    BY <1>4 DEF v
  <2> QED
    BY <2>3, <2>4 DEF ResultLast
<1>5. CASE Add /\ sent = 0
  BY <1>4, <1>5, UnreadAdd
<1>6. CASE AddFlushes
  BY <1>3, <1>6, UnreadSame DEF AddFlushes
<1>7. CASE FlushNothing
  BY <1>3, <1>7, UnreadSame DEF FlushNothing
<1>8. CASE WriteQueued /\ AtWrite
  BY <1>3, <1>8, UnreadFlush
<1>9. CASE WriteBulk /\ AtWrite /\ Head(todo).kind = "bulk"
  BY <1>4, <1>9, UnreadBulk, PieceParts
<1> QED
  BY <1>5, <1>6, <1>7, <1>8, <1>9, OutputCases

----------------------------------------------------------------------------
(* The tally of a request.                                                 *)

LEMMA TallyTypes ==
  ASSUME TypeOK, NEW i
  PROVE  /\ Count(inbox, Requested(i)) \in Nat /\ Count(Unread, Of({"result"}, {i})) \in Nat
         /\ Count(Unread, Of({"result"}, {i})) = 0 <=>
              \A k \in 1 .. Len(Unread) : Unread[k] \notin Of({"result"}, {i})
         /\ OneIf(InHand(i)) \in {0, 1} /\ OneIf(TaskWorks(i)) \in {0, 1} /\ OneIf(MainWorks(i)) \in {0, 1}
<1>1. inbox \in Seq(InFrames)
  BY DEF TypeOK, InputTypeOK
<1> QED
  BY <1>1, OutputFacts, CountType DEF OneIf

\* A request that is in none of these places has been answered, and one that is
\* in one of them is in no other.
LEMMA TallyOnce ==
  ASSUME TypeOK, TallyInv, NEW i \in Ids
  PROVE  /\ client[i] = "free" => ~InHand(i) /\ ~TaskWorks(i) /\ ~MainWorks(i)
         /\ TaskWorks(i) => ~InHand(i) /\ ~MainWorks(i)
         /\ MainWorks(i) => ~InHand(i)
         /\ client[i] = "free" \/ InHand(i) \/ TaskWorks(i) \/ MainWorks(i) =>
              Count(Unread, Of({"result"}, {i})) = 0
         /\ client[i] = "free" \/ InHand(i) \/ TaskWorks(i) \/ MainWorks(i) =>
              Count(inbox, Requested(i)) = 0
         /\ Count(Unread, Of({"result"}, {i})) > 0 =>
              /\ ~InHand(i) /\ ~TaskWorks(i) /\ ~MainWorks(i)
              /\ Count(Unread, Of({"result"}, {i})) = 1 /\ Count(inbox, Requested(i)) = 0
<1>1. Tally(i) = OneIf(client[i] # "free")
  BY DEF TallyInv
<1>2. Tally(i) \in {0, 1} /\ (client[i] = "free" => Tally(i) = 0)
  BY <1>1 DEF OneIf
<1> DEFINE a == Count(inbox, Requested(i))
           b == OneIf(InHand(i))
           c == OneIf(TaskWorks(i))
           d == OneIf(MainWorks(i))
           e == Count(Unread, Of({"result"}, {i}))
<1>3. a + b + c + d + e = Tally(i)
  BY DEF Tally
<1>4. a \in Nat /\ b \in {0, 1} /\ c \in {0, 1} /\ d \in {0, 1} /\ e \in Nat
  BY TallyTypes
<1>5. (InHand(i) <=> b = 1) /\ (TaskWorks(i) <=> c = 1) /\ (MainWorks(i) <=> d = 1)
  BY DEF OneIf
<1> HIDE DEF a, b, c, d, e
<1>6. /\ client[i] = "free" => b # 1 /\ c # 1 /\ d # 1 /\ e = 0 /\ a = 0
      /\ c = 1 => b # 1 /\ d # 1 /\ e = 0 /\ a = 0
      /\ d = 1 => b # 1 /\ e = 0 /\ a = 0
      /\ b = 1 => e = 0 /\ a = 0
      /\ e > 0 => b # 1 /\ c # 1 /\ d # 1 /\ e = 1 /\ a = 0
  BY <1>2, <1>3, <1>4
<1> QED
  BY <1>5, <1>6 DEF a, e

LEMMA OfPiece ==
  ASSUME NEW x \in Pieces, NEW K, NEW I
  PROVE  x \in Of(K, I) <=> x.kind \in K /\ x.id \in I
BY DEF Of, Pieces

LEMMA OneIfIs == \A p : p \in BOOLEAN => OneIf(p) \in {0, 1} /\ (OneIf(p) = 1 <=> p) /\ (OneIf(p) = 0 <=> ~p)
BY DEF OneIf

LEMMA OutputTally ==
  ASSUME TypeOK, LockInv, TallyInv, NEW t \in Threads, Output(t)
  PROVE  TallyInv'
<1>0. Main \notin Ids
  BY SessionAssumption
<1>1. /\ lock = t /\ todo # <<>> /\ IdOf(t) \in Ids /\ Unread \in Seq(Pieces)
      /\ client' = client /\ inbox' = inbox /\ frame' = frame /\ pc' = pc /\ job' = job
  BY OutputCases, HolderNext, OutputFacts DEF cvars, ivars, mvars
<1>2. \A u \in Threads : pc[u] = "output" <=> u = t
  BY <1>1 DEF LockInv
<1>3. /\ Len(todo) \in Nat \ {0} /\ Len(Tail(todo)) = Len(todo) - 1
  BY <1>1, TodoType
<1> SUFFICES ASSUME NEW i \in Ids PROVE Tally(i)' = Tally(i)
  BY <1>1 DEF TallyInv
<1> DEFINE a == Count(inbox, Requested(i))
           b == OneIf(InHand(i))
           c == OneIf(TaskWorks(i))
           d == OneIf(MainWorks(i))
           e == Count(Unread, Of({"result"}, {i}))
<1>4. a' = a /\ b' = b
  BY <1>1 DEF InHand, Requested
<1>5. a \in Nat /\ b \in {0, 1} /\ c \in {0, 1} /\ d \in {0, 1} /\ e \in Nat
  BY TallyTypes
<1>6. Tally(i) = a + b + c + d + e /\ Tally(i)' = a' + b' + c' + d' + e'
  BY DEF Tally
<1>50. /\ (c = 1 <=> TaskWorks(i)) /\ (d = 1 <=> MainWorks(i))
       /\ (c' = 1 <=> TaskWorks(i)') /\ (d' = 1 <=> MainWorks(i)')
       /\ c' \in {0, 1} /\ d' \in {0, 1}
  BY DEF OneIf
<1>51. /\ TaskWorks(i) => ~MainWorks(i)
  BY TallyOnce
<1>7. job[t] # "result" \/ (Len(todo') > 1 <=> Len(todo) > 1) => c' = c /\ d' = d
  BY <1>0, <1>1, <1>2 DEF TaskWorks, MainWorks, MainServes
<1>8. ASSUME Unread' = Unread, job[t] = "result" => (Len(todo') > 1 <=> Len(todo) > 1)
      PROVE  Tally(i)' = Tally(i)
  BY <1>4, <1>6, <1>7, <1>8
<1>9. ASSUME NEW x \in Pieces, Unread' = Append(Unread, x)
      PROVE  e' = IF x.kind = "result" /\ x.id = i THEN e + 1 ELSE e
  <2>1. e' = e + OneIf(x \in Of({"result"}, {i}))
    BY <1>1, <1>9, CountAppend
  <2>2. x \in Of({"result"}, {i}) <=> x.kind = "result" /\ x.id = i
    BY OfPiece
  <2> HIDE DEF e
  <2> QED
    BY <1>5, <2>1, <2>2 DEF OneIf
<1> HIDE DEF a, b, c, d, e
<1>10. ASSUME Head(todo) = Flush, todo' = Tail(todo), job[t] = "result" PROVE Len(todo') > 1 <=> Len(todo) > 1
  <2>1. CASE Tail(todo) = <<>> /\ Len(todo) = 1
    <3>1. Len(todo') = Len(todo) - 1
      BY <1>3, <1>10
    <3>2. ~(Len(todo) > 1) /\ ~(Len(todo) - 1 > 1)
      BY <2>1
    <3> QED
      BY <3>1, <3>2
  <2>2. CASE Tail(todo) # <<>> /\ Head(Tail(todo)) # Flush
    <3>1. Tail(todo) \in Rest("result", IdOf(t))
      BY <1>1, <1>10, HolderNext
    <3>2. Len(Tail(todo)) = 2
      BY <1>1, <2>2, <3>1, RestResult
    <3>3. Len(todo) > 1
      <4>1. Len(todo) - 1 = 2
        BY <1>3, <3>2
      <4> QED
        BY <1>3, <4>1, SMTT(30)
    <3>4. Len(todo') = 2
      BY <1>10, <3>2
    <3> QED
      BY <3>3, <3>4
  <2> QED
    BY <1>1, <1>10, <2>1, <2>2, HolderNext, PieceParts
<1>11. CASE Add /\ Head(todo) \in Pieces /\ Head(todo).kind # "flush" /\ sent = 0
  <2>1. Unread' = Append(Unread, Head(todo)) /\ todo' = Tail(todo)
    BY <1>11, UnreadAdd DEF Add
  <2>2. Head(todo) # Flush /\ todo \in Rest(job[t], IdOf(t))
    BY <1>1, <1>11, HolderNext, PieceParts
  <2>3. CASE job[t] # "result"
    <3>1. Head(todo).kind # "result"
      BY <1>1, <2>2, <2>3, RestStep, PieceParts
    <3>2. e' = e
      BY <1>9, <1>11, <2>1, <3>1
    <3> QED
      BY <1>4, <1>6, <1>7, <2>3, <3>2
  <2>4. CASE job[t] = "result"
    <3>1. Head(todo) = Piece("result", IdOf(t)) /\ Len(todo) = 2
      BY <1>1, <2>2, <2>4, RestStep
    <3>2. Len(todo') = 1
      BY <1>3, <2>1, <3>1
    <3>3. CASE i = IdOf(t)
      <4>1. e' = e + 1
        BY <1>9, <1>11, <2>1, <3>1, <3>3, PieceParts
      <4>2. c + d = 1 /\ c' = 0 /\ d' = 0
        <5>1. CASE t = Main
          <6>1. MainWorks(i) /\ ~MainWorks(i)'
            BY <1>1, <1>2, <2>4, <3>1, <3>2, <3>3, <5>1 DEF MainWorks, MainServes, IdOf
          <6>2. TaskWorks(i)' => TaskWorks(i)
            BY <1>0, <1>1, <1>2, <5>1 DEF TaskWorks
          <6>3. c \in {0, 1} /\ d \in {0, 1} /\ (c = 1 <=> TaskWorks(i)) /\ (d = 1 <=> MainWorks(i))
            BY <1>5, <1>50
          <6>4. c + d = 1
            BY <1>51, <6>1, <6>3
          <6>5. c' = 0 /\ d' = 0
            BY <1>50, <1>51, <6>1, <6>2
          <6> QED
            BY <6>4, <6>5
        <5>2. CASE t # Main
          <6>1. i = t /\ TaskWorks(i) /\ ~TaskWorks(i)'
            BY <1>0, <1>1, <1>2, <2>4, <3>1, <3>2, <3>3, <5>2 DEF IdOf, TaskWorks
          <6>2. MainWorks(i)' <=> MainWorks(i)
            BY <1>0, <1>1, <1>2, <5>2 DEF MainWorks, MainServes
          <6>3. c \in {0, 1} /\ d \in {0, 1} /\ (c = 1 <=> TaskWorks(i)) /\ (d = 1 <=> MainWorks(i))
            BY <1>5, <1>50
          <6>4. c + d = 1
            BY <1>51, <6>1, <6>3
          <6>5. c' = 0 /\ d' = 0
            BY <1>50, <1>51, <6>1, <6>2
          <6> QED
            BY <6>4, <6>5
        <5> QED
          BY <5>1, <5>2
      <4>3. Tally(i)' = a + b + 0 + 0 + (e + 1)
        BY <1>4, <1>6, <4>1, <4>2
      <4>4. a + b + 0 + 0 + (e + 1) = a + b + c + d + e
        BY <1>5, <4>2
      <4> QED
        BY <1>6, <4>3, <4>4
    <3>4. CASE i # IdOf(t)
      <4>1. e' = e
        BY <1>9, <1>11, <2>1, <3>1, <3>4, PieceParts
      <4>2. c' = c /\ d' = d
        BY <1>0, <1>1, <1>2, <3>4 DEF TaskWorks, MainWorks, MainServes, IdOf, c, d
      <4> QED
        BY <1>4, <1>6, <4>1, <4>2
    <3> QED
      BY <3>3, <3>4
  <2> QED
    BY <2>3, <2>4
<1>12. CASE AddFlushes /\ Head(todo).kind # "flush"
  <2>1. Len(todo') = Len(todo) + 1
    BY <1>12, FlushFirst DEF AddFlushes
  <2>2. job[t] = "result" => Len(todo) = 2
    BY <1>1, <1>12, HolderNext, RestStep, PieceParts
  <2>3. job[t] = "result" => (Len(todo') > 1 <=> Len(todo) > 1)
    <3>1. \A m, n : m = 2 /\ n = m + 1 => (n > 1 <=> m > 1)
      OBVIOUS
    <3> QED
      BY <2>1, <2>2, <3>1, Zenon
  <2> QED
    BY <1>8, <1>12, <2>3, UnreadSame DEF AddFlushes
<1>13. CASE FlushNothing /\ Head(todo) = Flush
  BY <1>8, <1>10, <1>13, UnreadSame DEF FlushNothing
<1>14. CASE WriteQueued /\ AtWrite /\ Head(todo) = Flush
  BY <1>8, <1>10, <1>14, UnreadFlush DEF WriteQueued
<1>15. CASE WriteBulk /\ AtWrite /\ Head(todo).kind = "bulk"
  <2>1. job[t] # "result"
    BY <1>1, <1>15, HolderNext, RestStep, PieceParts
  <2>2. e' = e
    BY <1>9, <1>15, UnreadBulk, PieceParts
  <2> QED
    BY <1>4, <1>6, <1>7, <2>1, <2>2
<1> QED
  BY <1>11, <1>12, <1>13, <1>14, <1>15, OutputCases

----------------------------------------------------------------------------
(* The output, under the steps of the others.                              *)

OutInv == LockInv /\ FlushInv /\ FrameInv /\ FlushDue /\ ResultLast

LEMMA OutputOut ==
  ASSUME TypeOK, OutInv, TallyInv, NEW t \in Threads, Output(t), Main \notin Ids,
         t = Main => job[t] \notin {"data", "slurp"}
  PROVE  OutInv' /\ TallyInv'
<1>1. job[t] \in {"data", "slurp"} => Count(Unread, Of({"result"}, {IdOf(t)})) = 0
  <2> SUFFICES ASSUME job[t] \in {"data", "slurp"} PROVE Count(Unread, Of({"result"}, {IdOf(t)})) = 0
    OBVIOUS
  <2>1. t \in Ids /\ IdOf(t) = t /\ TaskWorks(t)
    BY DEF IdOf, TaskWorks, Output
  <2> QED
    BY <2>1, TallyOnce
<1> QED
  BY <1>1, OutputLock, OutputFlush, OutputFrame, OutputDue, OutputLast, OutputTally DEF OutInv

\* A step that leaves the output alone.
LEMMA OthersOut ==
  ASSUME OutInv, UNCHANGED ovars, rx' = rx,
         \A t \in Threads : pc'[t] = "output" <=> pc[t] = "output",
         \A t \in Threads : pc[t] = "output" => job'[t] = job[t] /\ IdOf(t)' = IdOf(t)
  PROVE  OutInv'
<1>1. UNCHANGED <<lock, todo, queue, sent, pipe>> /\ Unread' = Unread
  BY UnreadSame DEF ovars
<1>2. \A t \in Threads : lock = t => job'[t] = job[t] /\ IdOf(t)' = IdOf(t)
  BY DEF OutInv, LockInv
<1>3. LockInv'
  <2>1. \A t \in Threads : lock = t => Due(job[t], IdOf(t))'
    BY <1>1, <1>2 DEF OutInv, LockInv, Due
  <2> QED
    BY <1>1, <2>1 DEF OutInv, LockInv
<1>4. FlushInv'
  BY <1>1, <1>2 DEF OutInv, FlushInv
<1>5. FrameInv'
  BY <1>1 DEF OutInv, FrameInv, Awaited
<1>6. FlushDue'
  BY <1>1 DEF OutInv, FlushDue
<1>7. ResultLast'
  BY <1>1 DEF OutInv, ResultLast
<1> QED
  BY <1>3, <1>4, <1>5, <1>6, <1>7 DEF OutInv

LEMMA ConcatOne == \A a, b, c, d \in Steps : <<a>> \o <<b, c, d>> = <<a, b, c, d>>
<1> SUFFICES ASSUME NEW a \in Steps, NEW b \in Steps, NEW c \in Steps, NEW d \in Steps
             PROVE  <<a>> \o <<b, c, d>> = <<a, b, c, d>>
  OBVIOUS
<1> DEFINE s == <<a>>
           t == <<b, c, d>>
           u == s \o t
           v == <<a, b, c, d>>
<1>1. s \in Seq(Steps) /\ t \in Seq(Steps) /\ v \in Seq(Steps)
  OBVIOUS
<1>2. Len(s) = 1 /\ s[1] = a /\ Len(t) = 3 /\ t[1] = b /\ t[2] = c /\ t[3] = d
  OBVIOUS
<1>3. Len(v) = 4 /\ v[1] = a /\ v[2] = b /\ v[3] = c /\ v[4] = d
  OBVIOUS
<1> HIDE DEF s, t, v
<1>4. /\ u \in Seq(Steps) /\ Len(u) = Len(s) + Len(t)
      /\ \A k \in 1 .. Len(s) + Len(t) : u[k] = IF k <= Len(s) THEN s[k] ELSE t[k - Len(s)]
  BY <1>1, ConcatProperties
<1> HIDE DEF u
<1>5. Len(u) = 4 /\ u[1] = s[1] /\ u[2] = t[2 - 1] /\ u[3] = t[3 - 1] /\ u[4] = t[4 - 1]
  BY <1>2, <1>4
<1>6. \A k \in 1 .. 4 : u[k] = v[k]
  <2> SUFFICES ASSUME NEW k \in 1 .. 4 PROVE u[k] = v[k]
    OBVIOUS
  <2>1. k \in {1, 2, 3, 4} /\ 2 - 1 = 1 /\ 3 - 1 = 2 /\ 4 - 1 = 3
    OBVIOUS
  <2> QED
    BY <1>2, <1>3, <1>5, <2>1
<1>7. u = v
  BY <1>1, <1>3, <1>4, <1>5, <1>6, SeqEqual
<1> QED
  BY <1>7 DEF s, t, u, v

LEMMA ScriptStarts ==
  ASSUME NEW j, NEW i \in Ids, NEW s \in Script(j, i)
  PROVE  /\ s \in Rest(j, i)
         /\ s # <<>> => Head(s) # Flush /\ Head(s).kind \notin {"body", "bulk"}
         /\ j = "result" => Len(s) = 2
         /\ j \in {"data", "slurp"} => s # <<>>
         /\ \/ s # <<>> /\ s[Len(s)].kind = "flush"
            \/ \A k \in 1 .. Len(s) : s[k].kind \in {"meta", "flush"}
<1>1. \/ j \in {"size", "sync"} /\ (s = <<Piece("meta", i)>> \/ s = <<>>)
      \/ j \in {"data", "slurp"} /\ \E b \in {"body", "bulk"} : s = Data(i, b)
      \/ j = "slurp" /\ \E b \in {"body", "bulk"} : s = <<Piece("meta", i)>> \o Data(i, b)
      \/ j = "result" /\ s = <<Piece("result", i), Flush>>
      \/ j = "pong" /\ s = <<Piece("pong", 0), Flush>>
  BY DEF Script
<1>2. CASE j \in {"size", "sync"} /\ (s = <<Piece("meta", i)>> \/ s = <<>>)
  <2>1. s = <<>> \/ (Len(s) = 1 /\ s[1] = Piece("meta", i) /\ Head(s) = Piece("meta", i))
    BY <1>2
  <2> QED
    BY <1>2, <2>1 DEF Rest, Piece, Flush
<1>3. CASE j \in {"data", "slurp"} /\ \E b \in {"body", "bulk"} : s = Data(i, b)
  <2>1. Len(s) = 3 /\ s # <<>> /\ Head(s) = Piece("head", i) /\ s[3] = Flush
    BY <1>3 DEF Data
  <2> QED
    BY <1>3, <2>1, PieceParts DEF Rest
<1>4. CASE j = "slurp" /\ \E b \in {"body", "bulk"} : s = <<Piece("meta", i)>> \o Data(i, b)
  <2>1. PICK b \in {"body", "bulk"} : s = <<Piece("meta", i)>> \o Data(i, b)
    BY <1>4
  <2> DEFINE m == Piece("meta", i)
             h == Piece("head", i)
             p == Piece(b, i)
  <2>2. m \in Steps /\ h \in Steps /\ p \in Steps /\ Flush \in Steps
    BY SessionAssumption DEF Piece, Flush, Steps, Pieces
  <2>3. s = <<m>> \o <<h, p, Flush>>
    BY <2>1 DEF Data
  <2>4. m.kind = "meta" /\ Flush.kind = "flush" /\ m # Flush
    BY PieceParts
  <2> HIDE DEF m, h, p
  <2>5. s = <<m, h, p, Flush>>
    BY <2>2, <2>3, ConcatOne
  <2>6. Len(s) = 4 /\ s # <<>> /\ Head(s) = m /\ s[4] = Flush
    BY <2>5
  <2>7. s \in Rest("slurp", i)
    BY <2>5 DEF Rest, m, h, p
  <2> QED
    BY <1>4, <2>4, <2>6, <2>7
<1>5. CASE j = "result" /\ s = <<Piece("result", i), Flush>>
  <2>1. Len(s) = 2 /\ s # <<>> /\ Head(s) = Piece("result", i) /\ s[2] = Flush
    BY <1>5
  <2> QED
    BY <1>5, <2>1, PieceParts DEF Rest
<1>6. CASE j = "pong" /\ s = <<Piece("pong", 0), Flush>>
  <2>1. Len(s) = 2 /\ s # <<>> /\ Head(s) = Piece("pong", 0) /\ s[2] = Flush
    BY <1>6
  <2> QED
    BY <1>6, <2>1, PieceParts DEF Rest
<1> QED
  BY <1>1, <1>2, <1>3, <1>4, <1>5, <1>6

LEMMA AcquireOut ==
  ASSUME TypeOK, OutInv, NEW t \in Threads, Acquire(t)
  PROVE  OutInv'
<1>0. t # Nobody /\ Nobody \notin Threads
  BY SessionAssumption
<1>1. /\ pc[t] = "acquire" /\ lock = Nobody /\ todo = <<>> /\ lock' = t
      /\ todo' \in Script(job[t], IdOf(t)) /\ IdOf(t) \in Ids /\ IdOf(t)' = IdOf(t)
      /\ UNCHANGED <<job, queue, sent, pipe, rx>> /\ sent = 0
  <2>1. frame.id \in Ids /\ sent \in Nat
    BY DEF TypeOK, ThreadTypeOK, OutputTypeOK, InFrames
  <2>2. sent = 0
    BY <2>1 DEF Acquire, OutInv, LockInv
  <2> QED
    BY <2>1, <2>2, SessionAssumption DEF Acquire, OutInv, LockInv, IdOf, mvars, cvars
<1>2. \A u \in Threads : pc'[u] = "output" <=> u = t
  BY <1>0, <1>1 DEF Acquire, Goto, OutInv, LockInv, TypeOK, ThreadTypeOK
<1>3. /\ todo' \in Rest(job[t], IdOf(t))
      /\ todo' # <<>> => Head(todo') # Flush /\ Head(todo').kind \notin {"body", "bulk"}
      /\ job[t] = "result" => Len(todo') = 2
      /\ \/ todo' # <<>> /\ todo'[Len(todo')].kind = "flush"
         \/ \A k \in 1 .. Len(todo') : todo'[k].kind \in {"meta", "flush"}
  BY <1>1, ScriptStarts
<1>4. LockInv'
  BY <1>0, <1>1, <1>2, <1>3 DEF LockInv, Due
<1>5. FlushInv'
  BY <1>0, <1>1, <1>3 DEF FlushInv
<1>6. FrameInv'
  <2>1. Awaited = None /\ Awaited' = None
    BY <1>1, <1>3 DEF Awaited, BodyFirst
  <2> QED
    BY <1>1, <2>1, UnreadSame DEF FrameInv, OutInv
<1>7. FlushDue'
  <2>1. \A k \in 1 .. Len(queue) : queue[k].kind = "meta"
    BY <1>1 DEF OutInv, FlushDue
  <2> QED
    BY <1>1, <1>3, <2>1 DEF FlushDue
<1>8. ResultLast'
  BY <1>1, UnreadSame DEF ResultLast, OutInv
<1> QED
  BY <1>4, <1>5, <1>6, <1>7, <1>8 DEF OutInv

LEMMA ReleaseOut ==
  ASSUME TypeOK, OutInv, NEW t \in Threads, pc[t] = "output", Unlock, rx' = rx, frame' = frame,
         pc'[t] # "output", \A u \in Threads \ {t} : pc'[u] = pc[u]
  PROVE  OutInv' /\ lock = t /\ todo = <<>>
<1>0. Nobody \notin Threads
  BY SessionAssumption
<1>1. lock = t /\ todo = <<>> /\ lock' = Nobody /\ UNCHANGED <<todo, queue, sent, pipe>> /\ Unread' = Unread
  BY UnreadSame DEF OutInv, LockInv, Unlock
<1>2. \A u \in Threads : pc'[u] # "output"
  BY <1>1 DEF OutInv, LockInv
<1>3. LockInv'
  BY <1>0, <1>1, <1>2 DEF OutInv, LockInv
<1>4. FlushInv'
  BY <1>0, <1>1 DEF FlushInv
<1>5. FrameInv' /\ FlushDue' /\ ResultLast'
  BY <1>1 DEF OutInv, FrameInv, Awaited, FlushDue, ResultLast
<1> QED
  BY <1>1, <1>3, <1>4, <1>5 DEF OutInv

\* What the client receives continues the stream of frames.
LEMMA ReceiveOut ==
  ASSUME TypeOK, OutInv, Receive
  PROVE  /\ OutInv' /\ Unread # <<>> /\ Unread' = Tail(Unread) /\ Head(Unread) = Unread[1]
         /\ Unread[1] \in Pieces
         /\ ReceiveBody(Unread[1]) \/ ReceiveFrame(Unread[1])
<1>1. /\ Unread # <<>> /\ Unread' = Tail(Unread) /\ Head(pipe) = Unread[1] /\ Unread[1] \in Pieces
      /\ Head(Unread) = Unread[1] /\ UNCHANGED <<pc, job, frame, lock, todo, queue, sent>>
  BY UnreadReceive DEF Receive, mvars
<1>2. Whole(Unread, rx) /\ Unread \in Seq(Pieces) /\ Len(Unread) \in Nat /\ Len(Unread) # 0
  BY <1>1, OutputFacts, EmptySeq DEF OutInv, FrameInv
<1>3. IF Unread[1].kind = "body" THEN rx = Unread[1].id ELSE rx = None
  <2>1. 1 \in 1 .. Len(Unread)
    BY <1>2
  <2> QED
    BY <1>2, <2>1 DEF Whole, Opens
<1>4. ReceiveBody(Unread[1]) \/ ReceiveFrame(Unread[1])
  BY <1>1, <1>3 DEF Receive, ReceiveJunk
<1>5. rx' = IF Unread[1].kind = "head" THEN Unread[1].id ELSE None
  BY <1>4 DEF ReceiveBody, ReceiveFrame
<1>6. FrameInv'
  BY <1>1, <1>2, <1>5, WholeTail DEF FrameInv, Awaited, OutInv
<1>7. LockInv'
  <2>1. \A t \in Threads : lock = t => Due(job[t], IdOf(t))'
    BY <1>1 DEF OutInv, LockInv, Due, IdOf
  <2> QED
    BY <1>1, <2>1 DEF OutInv, LockInv
<1>8. FlushInv' /\ FlushDue'
  BY <1>1 DEF OutInv, FlushInv, FlushDue, IdOf
<1>9. ResultLast'
  <2> DEFINE v == Tail(Unread)
  <2>1. Len(v) = Len(Unread) - 1 /\ \A k \in 1 .. Len(v) : v[k] = Unread[k + 1]
    BY <1>1, <1>2, HeadTailProperties
  <2>2. Unread' = v
    BY <1>1
  <2> HIDE DEF v
  <2>3. ASSUME NEW k \in 1 .. Len(v), NEW m \in 1 .. Len(v),
               k < m, v[k].kind = "result", v[m].kind = "body"
        PROVE  v[k].id # v[m].id
    <3>1. k + 1 \in 1 .. Len(Unread) /\ m + 1 \in 1 .. Len(Unread) /\ k + 1 < m + 1
      BY <1>2, <2>1, <2>3
    <3> QED
      BY <2>1, <2>3, <3>1 DEF OutInv, ResultLast
  <2> QED
    BY <2>2, <2>3 DEF ResultLast
<1> QED
  BY <1>1, <1>4, <1>6, <1>7, <1>8, <1>9 DEF OutInv

----------------------------------------------------------------------------
(* What cannot happen while the session runs.                              *)

Sane == Running /\ EndInv /\ JobInv /\ PairInv /\ TableInv /\ TallyInv /\ OutInv

LEMMA SaneIs == SInv /\ Running <=> Sane
BY DEF SInv, Sane, OutInv

\* A thread that is told to cancel has no work left.
LEMMA CancelledIdle ==
  ASSUME TypeOK, Sane, NEW i \in Ids, cancelled[i]
  PROVE  client[i] = "free" /\ ~TaskWorks(i)
<1>1. client[i] = "free"
  BY DEF Sane, Running, EndInv
<1> QED
  BY <1>1, TallyOnce DEF Sane

\* What is last in the queue is what the client reads last.
LEMMA QueueLast ==
  ASSUME TypeOK, queue # <<>>
  PROVE  Len(Unread) \in 1 .. Len(Unread) /\ Unread[Len(Unread)] = queue[Len(queue)]
<1> DEFINE r == SubSeq(queue, sent + 1, Len(queue))
<1>1. /\ pipe \in Seq(Pieces) /\ queue \in Seq(Pieces) /\ Len(queue) \in Nat /\ Len(pipe) \in Nat
      /\ sent \in 0 .. Len(queue) /\ sent < Len(queue) /\ r \in Seq(Pieces)
  BY OutputFacts
<1>2. /\ Len(r) = Len(queue) - sent /\ r[Len(queue) - sent] = queue[Len(queue)]
  <2>1. \A k \in sent + 1 .. Len(queue) : queue[k] \in Pieces
    BY <1>1, ElementOfSeq
  <2>2. /\ Len(r) = IF sent + 1 <= Len(queue) THEN Len(queue) - (sent + 1) + 1 ELSE 0
        /\ \A k \in 1 .. Len(queue) - (sent + 1) + 1 : r[k] = queue[sent + 1 + k - 1]
    BY <1>1, <2>1, SubSeqProperties
  <2> HIDE DEF r
  <2>3. /\ Len(queue) - sent \in 1 .. Len(queue) - (sent + 1) + 1
        /\ sent + 1 + (Len(queue) - sent) - 1 = Len(queue)
    BY <1>1
  <2> QED
    BY <1>1, <2>2, <2>3
<1> HIDE DEF r
<1>3. /\ Len(pipe \o r) = Len(pipe) + Len(r)
      /\ \A k \in 1 .. Len(pipe) + Len(r) : (pipe \o r)[k] = IF k <= Len(pipe) THEN pipe[k] ELSE r[k - Len(pipe)]
  BY <1>1, ConcatProperties
<1> DEFINE n == Len(pipe) + Len(r)
<1>4. n \in 1 .. n /\ ~(n <= Len(pipe)) /\ n - Len(pipe) = Len(queue) - sent
  BY <1>1, <1>2
<1> HIDE DEF n
<1>5. (pipe \o r)[n] = queue[Len(queue)] /\ Len(pipe \o r) = n
  BY <1>2, <1>3, <1>4 DEF n
<1> QED
  BY <1>4, <1>5 DEF Unread, r

\* A request that the client has the answer of has no thread that reads or that
\* is about to write.
LEMMA AnsweredQuiet ==
  ASSUME TypeOK, Sane, NEW i \in Ids, client[i] = "free"
  PROVE  ~TaskWorks(i) /\ ~(pc[i] = "output" /\ AtWrite)
<1>1. ~TaskWorks(i)
  BY TallyOnce DEF Sane
<1>2. ASSUME pc[i] = "output", AtWrite PROVE FALSE
  <2>1. todo # <<>> /\ lock = i /\ i \in Threads /\ i # Main /\ IdOf(i) = i
    BY <1>2, SessionAssumption DEF AtWrite, Sane, OutInv, LockInv, IdOf
  <2>2. job[i] = "result" /\ ~(Len(todo) > 1)
    BY <1>1, <1>2 DEF TaskWorks
  <2>3. Len(todo) = 1
    BY <2>1, <2>2, TodoType
  <2>4. queue # <<>> /\ queue[Len(queue)] = Piece("result", i)
    BY <2>1, <2>2, <2>3 DEF Sane, OutInv, FlushInv
  <2>5. Count(Unread, Of({"result"}, {i})) = 0
    BY TallyOnce DEF Sane
  <2>6. Unread[Len(Unread)] \notin Of({"result"}, {i})
    BY <2>4, <2>5, QueueLast, OutputFacts, CountType
  <2>7. Piece("result", i) \in Of({"result"}, {i})
    BY DEF Piece, Of
  <2> QED
    BY <2>4, <2>6, <2>7, QueueLast
<1> QED
  BY <1>1, <1>2

LEMMA NoUnwind ==
  ASSUME TypeOK, Sane, NEW i \in Ids
  PROVE  ~UnwindWrite(i) /\ ~LateWrite(i) /\ ~(pc[i] = "test" /\ cancelled[i])
<1>1. ~(pc[i] = "test" /\ cancelled[i])
  BY CancelledIdle DEF TaskWorks
<1>2. ~UnwindWrite(i)
  BY CancelledIdle, AnsweredQuiet DEF UnwindWrite
<1>3. ~LateWrite(i)
  BY DEF LateWrite, Sane, EndInv
<1> QED
  BY <1>1, <1>2, <1>3

\* The signals at the session's end find every thread at rest.
LEMMA TearDownQuiet ==
  ASSUME TypeOK, Sane, TearDownCancel
  PROVE  pc' = pc
<1>1. idx \in Ids /\ pc[Main] = "teardown"
  BY DEF TypeOK, ThreadTypeOK, TearDownCancel
<1>2. client[idx] = "free"
  BY <1>1 DEF Sane, Running, EndInv
<1>3. ~TaskWorks(idx) /\ ~(pc[idx] = "output" /\ AtWrite)
  BY <1>1, <1>2, AnsweredQuiet
<1>4. pc[idx] # "read"
  BY <1>3 DEF TaskWorks
<1>5. Interrupted(idx) = {pc[idx]}
  BY <1>3, <1>4 DEF Interrupted
<1>6. Goto(idx, pc[idx])
  BY <1>5 DEF TearDownCancel
<1> QED
  BY <1>1, <1>6 DEF Goto, TypeOK, ThreadTypeOK

LEMMA NoError ==
  ASSUME TypeOK, Sane
  PROVE  /\ \A t \in Threads : ~WriteFails(t)
         /\ pc[Main] = "handle" => ~HandleMissing /\ ~HandleCancel
         /\ pc[Main] = "handle" /\ HandleRequest => pc[frame.id] = "none" /\ box[frame.id] = "none"
         /\ ~Join
<1>1. \A t \in Threads : ~WriteFails(t)
  BY DEF WriteFails, Sane, Running
<1>2. ~Join
  BY DEF Join, Sane, EndInv
<1>3. frame.id \in Ids
  BY DEF TypeOK, ThreadTypeOK, InFrames
<1>4. ASSUME pc[Main] = "handle", HandleMissing PROVE FALSE
  <2>1. frame.type = "submit"
    BY <1>4 DEF HandleMissing, Sane, PairInv
  <2>2. Held(frame.id)
    BY <1>4, <2>1 DEF Held
  <2> QED
    BY <1>3, <1>4, <2>2 DEF Sane, TableInv, HandleMissing
<1>5. ASSUME pc[Main] = "handle", HandleRequest PROVE pc[frame.id] = "none" /\ box[frame.id] = "none"
  <2>1. Checked(frame.id) /\ ~Held(frame.id) /\ ~MainServes(frame.id)
    BY <1>5 DEF Checked, Held, MainServes, HandleRequest
  <2> QED
    BY <1>3, <2>1 DEF Sane, TableInv
<1>6. ~HandleCancel
  BY DEF HandleCancel, Sane, PairInv
<1> QED
  BY <1>1, <1>2, <1>4, <1>5, <1>6

----------------------------------------------------------------------------
(* The steps of a task thread.                                             *)

Others == EndInv /\ JobInv /\ PairInv /\ TableInv /\ TallyInv

LEMMA TallySame ==
  ASSUME NEW i, Unread' = Unread, inbox' = inbox, InHand(i)' <=> InHand(i),
         TaskWorks(i)' <=> TaskWorks(i), MainWorks(i)' <=> MainWorks(i)
  PROVE  Tally(i)' = Tally(i)
<1>1. /\ OneIf(InHand(i))' = OneIf(InHand(i)) /\ OneIf(TaskWorks(i))' = OneIf(TaskWorks(i))
      /\ OneIf(MainWorks(i))' = OneIf(MainWorks(i))
  BY DEF OneIf
<1>2. /\ Count(inbox, Requested(i))' = Count(inbox, Requested(i))
      /\ Count(Unread, Of({"result"}, {i}))' = Count(Unread, Of({"result"}, {i}))
  BY DEF Requested
<1> QED
  BY <1>1, <1>2 DEF Tally

\* A step that moves one task thread, and keeps its request at work or ended.
LEMMA OwnStep ==
  ASSUME TypeOK, Others, NEW i \in Ids, NEW p, NEW j,
         pc' = [pc EXCEPT ![i] = p], job' = [job EXCEPT ![i] = j],
         UNCHANGED <<cvars, ivars, mvars, box, cancelled>>, Unread' = Unread,
         pc[i] # "none", p \notin {"none", "dead", "write"},
         p = "window" => j \in {"data", "slurp"},
         p \in {"acquire", "output"} => j \in {"size", "data", "slurp", "result"},
         TaskWorks(i)' <=> TaskWorks(i),
         \A u \in Threads \ {i} : pc[u] = "output" => todo' = todo
  PROVE  Others'
<1>0. Main \notin Ids /\ i \in Threads /\ Main \in Threads /\ Main # i
  BY SessionAssumption
<1>1. /\ pc'[i] = p /\ job'[i] = j /\ \A u \in Threads \ {i} : pc'[u] = pc[u] /\ job'[u] = job[u]
      /\ UNCHANGED <<client, inbox, eof, frame, idx, status, box, cancelled>>
  BY <1>0 DEF TypeOK, ThreadTypeOK, cvars, ivars, mvars
<1>2. pc'[Main] = pc[Main] /\ job'[Main] = job[Main]
  BY <1>0, <1>1
<1>3. \A k \in Ids : k # i => pc'[k] = pc[k] /\ job'[k] = job[k]
  BY <1>1
<1>4. EndInv'
  BY <1>1, <1>2, <1>3 DEF Others, EndInv
<1>5. JobInv'
  BY <1>1, <1>2, <1>3 DEF Others, JobInv
<1>6. PairInv'
  BY <1>1 DEF Others, PairInv, Before
<1>7. TableInv'
  <2>1. \A k \in Ids : Held(k)' = Held(k) /\ MainServes(k)' = MainServes(k) /\ Checked(k)' = Checked(k)
    BY <1>1, <1>2 DEF Held, MainServes, Checked
  <2>2. pc'[i] # "none"
    BY <1>1
  <2>3. ~Held(i) /\ ~Checked(i)
    BY DEF Others, TableInv
  <2> QED
    BY <1>1, <1>2, <1>3, <2>1, <2>2, <2>3 DEF Others, TableInv
<1>8. TallyInv'
  <2> SUFFICES ASSUME NEW k \in Ids PROVE Tally(k)' = Tally(k)
    BY <1>1 DEF Others, TallyInv
  <2>1. InHand(k)' <=> InHand(k)
    BY <1>1, <1>2 DEF InHand
  <2>2. MainWorks(k)' <=> MainWorks(k)
    <3>1. pc[Main] = "output" => todo' = todo
      BY <1>0
    <3> QED
      BY <1>1, <1>2, <3>1 DEF MainWorks, MainServes
  <2>3. TaskWorks(k)' <=> TaskWorks(k)
    <3>1. CASE k # i
      <4>1. pc[k] = "output" => todo' = todo
        BY <3>1
      <4> QED
        BY <1>3, <3>1, <4>1 DEF TaskWorks
    <3> QED
      BY <3>1
  <2> QED
    BY <1>1, <2>1, <2>2, <2>3, TallySame
<1> QED
  BY <1>4, <1>5, <1>6, <1>7, <1>8 DEF Others

LEMMA OutputOthers ==
  ASSUME TypeOK, Others, OutInv, NEW t \in Threads, Output(t)
  PROVE  Others' /\ OutInv'
<1>0. Main \notin Ids
  BY SessionAssumption
<1>1. UNCHANGED <<cvars, ivars, pc, job, mvars, tvars>>
  BY OutputCases DEF OutInv
<1>2. t = Main => job[t] \notin {"data", "slurp"}
  BY DEF Output, Others, JobInv
<1>3. OutInv' /\ TallyInv'
  BY <1>0, <1>2, OutputOut DEF Others
<1>4. UNCHANGED <<client, inbox, eof, frame, idx, status, box, cancelled, pc, job>>
  BY <1>1 DEF cvars, ivars, mvars, tvars
<1>5. EndInv' /\ JobInv' /\ PairInv'
  BY <1>4 DEF Others, EndInv, JobInv, PairInv, Before
<1>6. TableInv'
  BY <1>4 DEF Others, TableInv, Held, MainServes, Checked
<1> QED
  BY <1>3, <1>5, <1>6 DEF Others

LEMMA TaskSane ==
  ASSUME TypeOK, Sane, NEW i \in Ids, Task(i)
  PROVE  Others' /\ OutInv'
<1>0. Main \notin Ids /\ i \in Threads /\ i # Main /\ IdOf(i) = i /\ Nobody \notin Threads
  BY SessionAssumption DEF IdOf
<1>1. Others /\ OutInv
  BY DEF Sane, Others
<1>2. pc \in [Threads -> MainPcs \cup TaskPcs] /\ job \in [Threads -> Jobs]
  BY DEF TypeOK, ThreadTypeOK
<1>3. ASSUME NEW p, NEW j, pc' = [pc EXCEPT ![i] = p], job' = [job EXCEPT ![i] = j],
             UNCHANGED <<cvars, ivars, mvars, box, cancelled, ovars>>,
             pc[i] \in {"begin", "read", "window", "test", "mutex", "mark"},
             p \in {"read", "window", "acquire", "test", "mutex", "done"},
             p = "done" <=> pc[i] = "mark",
             p = "window" => j \in {"data", "slurp"},
             p = "acquire" => j \in {"size", "data", "slurp", "result"}
      PROVE  Others' /\ OutInv'
  <2>1. UNCHANGED <<lock, todo, queue, sent, pipe>> /\ rx' = rx /\ frame' = frame
    BY <1>3 DEF ovars, cvars, mvars
  <2>2. Unread' = Unread
    BY <2>1, UnreadSame
  <2>3. pc'[i] = p /\ \A u \in Threads \ {i} : pc'[u] = pc[u] /\ job'[u] = job[u]
    BY <1>0, <1>2, <1>3
  <2>4. TaskWorks(i)' <=> TaskWorks(i)
    BY <1>3, <2>3 DEF TaskWorks
  <2>5. Others'
    BY <1>1, <1>3, <2>1, <2>2, <2>4, OwnStep
  <2>6. \A t \in Threads : pc'[t] = "output" <=> pc[t] = "output"
    BY <1>3, <2>3
  <2>7. \A t \in Threads : pc[t] = "output" => job'[t] = job[t] /\ IdOf(t)' = IdOf(t)
    BY <1>3, <2>1, <2>3 DEF IdOf
  <2>8. OutInv'
    BY <1>1, <1>3, <2>1, <2>6, <2>7, OthersOut
  <2> QED
    BY <2>5, <2>8
<1>4. job = [job EXCEPT ![i] = job[i]]
  BY <1>0, <1>2
<1>5. CASE TaskOpen(i)
  <2>1. CASE Goto(i, "test") /\ UNCHANGED <<job, left>>
    BY <1>3, <1>4, <1>5, <2>1 DEF TaskOpen, Goto
  <2>2. CASE WantLock(i, "size")
    BY <1>3, <1>5, <2>2 DEF TaskOpen, Goto, WantLock
  <2>3. CASE Goto(i, "read") /\ UNCHANGED job
    BY <1>3, <1>4, <1>5, <2>3 DEF TaskOpen, Goto
  <2>4. CASE Goto(i, "window") /\ job' = [job EXCEPT ![i] = "slurp"]
    BY <1>3, <1>5, <2>4 DEF TaskOpen, Goto
  <2> QED
    BY <1>5, <2>1, <2>2, <2>3, <2>4 DEF TaskOpen
<1>6. CASE TaskRead(i)
  <2>1. CASE Goto(i, "window") /\ job' = [job EXCEPT ![i] = "data"]
    BY <1>3, <1>6, <2>1 DEF TaskRead, Goto
  <2>2. CASE Goto(i, "test") /\ UNCHANGED job
    BY <1>3, <1>4, <1>6, <2>2 DEF TaskRead, Goto
  <2> QED
    BY <1>6, <2>1, <2>2 DEF TaskRead
<1>7. CASE TaskWindow(i)
  <2>1. job[i] \in {"data", "slurp"}
    BY <1>1, <1>7 DEF Others, JobInv, TaskWindow
  <2> QED
    BY <1>3, <1>4, <1>7, <2>1 DEF TaskWindow, Goto, tvars
<1>8. CASE TaskTest(i)
  <2>1. ~cancelled[i]
    BY <1>8, NoUnwind DEF TaskTest
  <2> QED
    BY <1>3, <1>4, <1>8, <2>1 DEF TaskTest, Goto, tvars
<1>9. CASE TaskMutex(i)
  BY <1>3, <1>9 DEF TaskMutex, WantLock, Goto, tvars
<1>10. CASE TaskMark(i)
  BY <1>3, <1>4, <1>10 DEF TaskMark, Goto, tvars
<1>11. CASE Output(i)
  BY <1>0, <1>1, <1>11, OutputOthers
<1>12. CASE TaskReleases(i)
  <2> DEFINE p == CASE job[i] = "slurp" -> "test" [] job[i] = "result" -> "mark" [] OTHER -> "read"
  <2>1. /\ pc[i] = "output" /\ Unlock /\ pc' = [pc EXCEPT ![i] = p] /\ job' = job
        /\ UNCHANGED <<cvars, ivars, mvars, tvars>>
    BY <1>12 DEF TaskReleases, Goto
  <2>2. p \in {"test", "mark", "read"} /\ (p = "mark" <=> job[i] = "result")
    OBVIOUS
  <2> HIDE DEF p
  <2>3. pc'[i] = p /\ \A u \in Threads \ {i} : pc'[u] = pc[u]
    BY <1>0, <1>2, <2>1
  <2>4. rx' = rx /\ frame' = frame /\ UNCHANGED <<todo, queue, sent, pipe, box, cancelled>>
    BY <2>1 DEF Unlock, cvars, mvars, tvars
  <2>5. OutInv' /\ todo = <<>>
    BY <1>0, <1>1, <2>1, <2>2, <2>3, <2>4, ReleaseOut
  <2>6. TaskWorks(i)' <=> TaskWorks(i)
    <3>1. ~(Len(todo) > 1)
      BY <2>5
    <3> QED
      BY <2>1, <2>2, <2>3, <3>1 DEF TaskWorks
  <2>7. Others'
    BY <1>1, <1>4, <2>1, <2>2, <2>4, <2>6, UnreadSame, OwnStep
  <2> QED
    BY <2>5, <2>7
<1>13. CASE Acquire(i)
  <2>1. /\ pc[i] = "acquire" /\ lock = Nobody /\ todo' \in Script(job[i], i)
        /\ pc' = [pc EXCEPT ![i] = "output"] /\ job' = job
        /\ UNCHANGED <<cvars, ivars, mvars, tvars, queue, sent, pipe>>
    BY <1>0, <1>13 DEF Acquire, Goto
  <2>2. OutInv'
    BY <1>0, <1>1, <1>13, AcquireOut
  <2>3. \A u \in Threads : pc[u] # "output"
    BY <1>0, <1>1, <2>1 DEF OutInv, LockInv
  <2>4. job[i] \in {"size", "data", "slurp", "result"}
    BY <1>1, <2>1 DEF Others, JobInv
  <2>5. job[i] = "result" => Len(todo') = 2
    BY <2>1, ScriptStarts
  <2>6. pc'[i] = "output"
    BY <1>0, <1>2, <2>1
  <2>7. TaskWorks(i)' <=> TaskWorks(i)
    BY <2>1, <2>5, <2>6 DEF TaskWorks
  <2>8. UNCHANGED <<box, cancelled>> /\ UNCHANGED <<cvars, ivars, mvars>> /\ Unread' = Unread
    BY <2>1, UnreadSame DEF tvars
  <2> DEFINE p == "output"
  <2>9. pc' = [pc EXCEPT ![i] = p] /\ p \notin {"none", "dead", "window", "write"}
    BY <2>1
  <2> HIDE DEF p
  <2>10. job' = [job EXCEPT ![i] = job[i]] /\ pc[i] # "none"
    BY <1>4, <2>1
  <2>11. \A u \in Threads \ {i} : pc[u] = "output" => todo' = todo
    BY <2>3
  <2>12. Others'
    BY <1>1, <2>4, <2>7, <2>8, <2>9, <2>10, <2>11, OwnStep
  <2> QED
    BY <2>2, <2>12
<1> QED
  BY <1>0, <1>5, <1>6, <1>7, <1>8, <1>9, <1>10, <1>11, <1>12, <1>13, NoUnwind, NoError DEF Task, TaskStep

----------------------------------------------------------------------------
(* The steps of the main thread.                                           *)

LEMMA MainFacts ==
  ASSUME TypeOK
  PROVE  /\ Main \notin Ids /\ Main \in Threads /\ Ids \subseteq Threads /\ Nobody \notin Threads
         /\ frame.id \in Ids /\ idx \in Ids /\ NIds - 1 \in Ids /\ 0 \in Ids /\ NIds \in Nat
         /\ pc \in [Threads -> MainPcs \cup TaskPcs] /\ job \in [Threads -> Jobs]
         /\ box \in [Ids -> AllKinds \cup {"none"}] /\ cancelled \in [Ids -> BOOLEAN]
         /\ frame \in InFrames /\ inbox \in Seq(InFrames) /\ Len(inbox) \in Nat
<1>1. frame \in InFrames /\ idx \in Ids /\ inbox \in Seq(InFrames)
  BY DEF TypeOK, ThreadTypeOK, InputTypeOK
<1>2. frame.id \in Ids /\ Len(inbox) \in Nat
  BY <1>1, LenProperties DEF InFrames
<1> QED
  BY <1>1, <1>2, SessionAssumption DEF TypeOK, ThreadTypeOK, TableTypeOK

\* A step that leaves the output alone, and does not change what the thread at
\* its output works on.
LEMMA MainOut ==
  ASSUME TypeOK, OutInv, UNCHANGED <<cvars, ovars>>, pc[Main] # "output", pc'[Main] # "output",
         \A i \in Ids : (pc'[i] = "output" <=> pc[i] = "output") /\ (pc[i] = "output" => job'[i] = job[i])
  PROVE  OutInv'
<1>1. \A t \in Threads : pc'[t] = "output" <=> pc[t] = "output"
  OBVIOUS
<1>2. \A t \in Threads : pc[t] = "output" => job'[t] = job[t] /\ IdOf(t)' = IdOf(t)
  BY MainFacts DEF IdOf
<1> QED
  BY <1>1, <1>2, OthersOut DEF cvars

LEMMA InFrameParts ==
  ASSUME NEW f \in InFrames, NEW i \in Ids, f.type = "request" => f.kind \in AllKinds
  PROVE  f \in Requested(i) <=> f.type = "request" /\ f.id = i
BY DEF InFrames, Requested

LEMMA TakeFrameSane ==
  ASSUME TypeOK, Sane, TakeFrame
  PROVE  Others' /\ OutInv'
<1> DEFINE h == Head(inbox)
           r == Tail(inbox)
<1>1. /\ pc[Main] = "idle" /\ inbox # <<>> /\ frame' = h /\ inbox' = r /\ idx' = 0
      /\ pc'[Main] = "check" /\ \A i \in Ids : pc'[i] = pc[i]
      /\ UNCHANGED <<client, eof, job, status, box, cancelled>> /\ UNCHANGED <<cvars, ovars>>
  BY MainFacts DEF TakeFrame, Goto, cvars, tvars
<1>2. /\ Len(inbox) \in Nat \ {0} /\ h = inbox[1] /\ h \in InFrames /\ r \in Seq(InFrames)
      /\ Len(r) = Len(inbox) - 1 /\ \A k \in 1 .. Len(r) : r[k] = inbox[k + 1]
  BY <1>1, MainFacts, HeadTailProperties, EmptySeq, ElementOfSeq
<1>3. /\ h.type # "cancel" /\ (h.type = "request" => h.kind \in AllKinds)
      /\ h.type = "submit" <=> frame.type = "request"
      /\ h.type = "submit" => h.id = frame.id
  <2>1. 1 \in 1 .. Len(inbox) /\ Before(1) = frame
    BY <1>2 DEF Before
  <2> QED
    BY <1>2, <2>1 DEF Sane, PairInv
<1> HIDE DEF h, r
<1>4. EndInv'
  BY <1>1 DEF Sane, EndInv
<1>5. JobInv'
  BY <1>1 DEF Sane, JobInv
<1>6. PairInv'
  <2>1. ASSUME NEW k \in 1 .. Len(r) + 1 PROVE Before(k)' = Before(k + 1)
    <3>1. CASE k = 1
      <4>1. k + 1 # 1 /\ (k + 1) - 1 = 1
        BY <3>1
      <4> QED
        BY <1>1, <1>2, <3>1, <4>1 DEF Before
    <3>2. CASE k # 1
      <4>1. k - 1 \in 1 .. Len(r) /\ (k - 1) + 1 = k /\ (k + 1) - 1 = k /\ k + 1 # 1
        BY <1>2, <3>2
      <4>2. r[k - 1] = inbox[k]
        BY <1>2, <4>1
      <4> QED
        BY <1>1, <3>2, <4>1, <4>2 DEF Before
    <3> QED
      BY <3>1, <3>2
  <2>2. ASSUME NEW k \in 1 .. Len(r)
        PROVE  /\ r[k].type # "cancel"
               /\ r[k].type = "request" => r[k].kind \in AllKinds
               /\ r[k].type = "submit" <=> Before(k)'.type = "request"
               /\ r[k].type = "submit" => r[k].id = Before(k)'.id
    <3>1. k + 1 \in 1 .. Len(inbox) /\ k \in 1 .. Len(r) + 1
      BY <1>2
    <3>2. r[k] = inbox[k + 1] /\ Before(k)' = Before(k + 1)
      BY <1>2, <2>1, <3>1
    <3> QED
      BY <3>1, <3>2 DEF Sane, PairInv
  <2>3. ASSUME NEW n, n = Len(r) + 1 PROVE Before(n)'.type # "request"
    <3>1. n \in 1 .. Len(r) + 1 /\ n + 1 = Len(inbox) + 1
      BY <1>2, <2>3
    <3>2. Before(n)' = Before(n + 1)
      BY <2>1, <3>1
    <3> QED
      BY <3>1, <3>2 DEF Sane, PairInv
  <2>4. Before(Len(inbox) + 1)'.type # "request"
    BY <1>1, <2>3 DEF Before
  <2>5. \A k \in 1 .. Len(inbox') : r[k] = inbox'[k] /\ k \in 1 .. Len(r)
    BY <1>1
  <2> QED
    BY <1>1, <1>3, <2>2, <2>4, <2>5 DEF PairInv
<1>7. TableInv'
  <2>1. \A i \in Ids : ~MainServes(i) /\ ~MainServes(i)' /\ ~Checked(i)'
    BY <1>1, MainFacts DEF MainServes, Checked
  <2>2. \A i \in Ids : Held(i)' <=> Held(i)
    BY <1>1, <1>3 DEF Held
  <2> QED
    BY <1>1, <2>1, <2>2 DEF Sane, TableInv
<1>8. TallyInv'
  <2> SUFFICES ASSUME NEW i \in Ids PROVE Tally(i)' = Tally(i)
    BY <1>1 DEF Sane, TallyInv
  <2> DEFINE a == Count(inbox, Requested(i))
             b == OneIf(InHand(i))
             c == OneIf(TaskWorks(i))
             d == OneIf(MainWorks(i))
             e == Count(Unread, Of({"result"}, {i}))
             x == OneIf(h \in Requested(i))
  <2>1. a = x + a' /\ a' = Count(r, Requested(i))
    <3>1. Requested(i)' = Requested(i)
      BY DEF Requested
    <3>2. a = x + Count(r, Requested(i))
      BY <1>1, MainFacts, CountTail DEF h, r
    <3> QED
      BY <1>1, <3>1, <3>2
  <2>2. b \in {0, 1} /\ x \in {0, 1} /\ a \in Nat /\ c \in {0, 1} /\ d \in {0, 1} /\ e \in Nat
    BY TallyTypes DEF OneIf
  <2>20. a' \in Nat
    BY <1>2, <2>1, CountType
  <2>3. c' = c /\ d' = d /\ e' = e
    <3>1. TaskWorks(i)' <=> TaskWorks(i)
      BY <1>1 DEF TaskWorks, ovars
    <3>2. ~MainWorks(i) /\ ~MainWorks(i)'
      BY <1>1 DEF MainWorks, MainServes
    <3> QED
      BY <1>1, <3>1, <3>2, UnreadSame DEF OneIf, ovars
  <2>4. b' = b + x
    <3>1. h \in Requested(i) <=> h.type = "request" /\ h.id = i
      BY <1>2, <1>3, InFrameParts
    <3>2. InHand(i) <=> frame.type = "request" /\ frame.id = i
      BY <1>1 DEF InHand
    <3>3. InHand(i)' <=> h.id = i /\ h.type \in {"request", "submit"}
      BY <1>1 DEF InHand
    <3>4. /\ InHand(i)' <=> InHand(i) \/ h \in Requested(i)
          /\ ~(InHand(i) /\ h \in Requested(i))
      BY <1>3, <3>1, <3>2, <3>3
    <3> QED
      BY <3>4 DEF OneIf
  <2>5. Tally(i) = a + b + c + d + e /\ Tally(i)' = a' + b' + c' + d' + e'
    BY DEF Tally
  <2> HIDE DEF a, b, c, d, e, x
  <2>6. Tally(i)' = a' + (b + x) + c + d + e
    BY <2>3, <2>4, <2>5
  <2> DEFINE a1 == a'
  <2>7. Tally(i)' = a1 + (b + x) + c + d + e /\ a = x + a1 /\ a1 \in Nat
    BY <2>1, <2>6, <2>20
  <2> HIDE DEF a1
  <2> QED
    BY <2>2, <2>5, <2>7
<1>9. OutInv'
  <2> USE DEF Sane
  <2> QED
    BY <1>1, MainOut
<1> QED
  BY <1>4, <1>5, <1>6, <1>7, <1>8, <1>9 DEF Others

LEMMA CheckTaskSane ==
  ASSUME TypeOK, Sane, CheckTask
  PROVE  Others' /\ OutInv'
<1> DEFINE next == IF idx = NIds - 1 THEN "handle" ELSE "check"
<1>1. /\ pc[Main] = "check" /\ pc'[Main] = next /\ ~HoldsMutex(idx) /\ idx \in Ids
      /\ idx' = IF idx = NIds - 1 THEN 0 ELSE idx + 1
      /\ UNCHANGED <<client, inbox, eof, job, frame, status>> /\ UNCHANGED <<cvars, ovars>>
  BY MainFacts DEF CheckTask, Goto, cvars, ivars
<1>2. \A i \in Ids : /\ pc'[i] = IF i = idx /\ pc[i] = "done" THEN "none" ELSE pc[i]
                     /\ box'[i] = IF i = idx /\ pc[i] = "done" THEN "none" ELSE box[i]
                     /\ cancelled'[i] => cancelled[i]
  BY MainFacts DEF CheckTask, Goto, Clear
<1>3. next \in {"check", "handle"}
  OBVIOUS
<1>4. EndInv'
  BY <1>1, <1>2, <1>3 DEF Sane, EndInv
<1>5. JobInv'
  BY <1>1, <1>2, <1>3 DEF Sane, JobInv
<1>6. PairInv'
  BY <1>1 DEF Sane, PairInv, Before
<1>7. TableInv'
  <2> SUFFICES ASSUME NEW i \in Ids
               PROVE  /\ box'[i] # "none" => pc'[i] # "none" \/ Held(i)'
                      /\ Held(i)' => box'[i] # "none" /\ pc'[i] = "none"
                      /\ Checked(i)' => pc'[i] = "none"
    BY DEF TableInv
  <2>1. ~MainServes(i) /\ (Held(i)' <=> Held(i))
    BY <1>1, <1>3 DEF MainServes, Held
  <2>2. box'[i] # "none" => pc'[i] # "none" \/ Held(i)'
    BY <1>2, <2>1 DEF Sane, TableInv
  <2>3. Held(i)' => box'[i] # "none" /\ pc'[i] = "none"
    BY <1>2, <2>1 DEF Sane, TableInv
  <2>4. ASSUME Checked(i)' PROVE pc'[i] = "none"
    <3>1. frame.type = "request" /\ frame.id = i /\ (i = idx \/ Checked(i))
      BY <1>1, <2>4, MainFacts DEF Checked
    <3>2. CASE Checked(i)
      BY <1>2, <3>2 DEF Sane, TableInv
    <3>3. CASE i = idx
      <4>1. InHand(i)
        BY <3>1 DEF InHand
      <4>2. ~TaskWorks(i)
        BY <4>1, TallyOnce DEF Sane
      <4>3. pc[i] \notin {"mark", "output", "dead", "write"}
        BY <1>1, <3>3, <4>2 DEF HoldsMutex, TaskWorks, Sane, EndInv
      <4>4. pc[i] \in TaskPcs
        BY DEF TypeOK, ThreadTypeOK
      <4>5. pc[i] \in {"none", "done"}
        BY <4>2, <4>3, <4>4 DEF TaskWorks, TaskPcs
      <4> QED
        BY <1>2, <3>3, <4>5
    <3> QED
      BY <3>1, <3>2, <3>3
  <2> QED
    BY <2>2, <2>3, <2>4
<1>8. TallyInv'
  <2> SUFFICES ASSUME NEW i \in Ids PROVE Tally(i)' = Tally(i)
    BY <1>1 DEF Sane, TallyInv
  <2>1. InHand(i)' <=> InHand(i)
    BY <1>1, <1>3 DEF InHand
  <2>2. TaskWorks(i)' <=> TaskWorks(i)
    BY <1>1, <1>2 DEF TaskWorks, ovars
  <2>3. MainWorks(i)' <=> MainWorks(i)
    BY <1>1, <1>3 DEF MainWorks, MainServes
  <2> QED
    BY <1>1, <2>1, <2>2, <2>3, TallySame, UnreadSame DEF ovars
<1>9. OutInv'
  <2> USE DEF Sane
  <2>1. pc[Main] # "output" /\ pc'[Main] # "output"
    BY <1>1, <1>3
  <2>2. \A i \in Ids : pc'[i] = "output" <=> pc[i] = "output"
    BY <1>2
  <2> QED
    BY <1>1, <2>1, <2>2, MainOut
<1> QED
  BY <1>4, <1>5, <1>6, <1>7, <1>8, <1>9 DEF Others

\* A step of the main thread that leaves the requests where they are.
LEMMA MainKeeps ==
  ASSUME TypeOK, Sane, UNCHANGED <<cvars, ivars, frame, ovars, status>>,
         pc[Main] \notin {"output", "idle"},
         pc'[Main] \in {"idle", "acquire", "teardown", "exited"},
         status = "none" <=> pc'[Main] \notin {"teardown", "exited"},
         pc'[Main] = "acquire" => job'[Main] \in {"sync", "result", "pong"} /\ frame.type # "request",
         \A i \in Ids : job'[i] = job[i],
         \A i \in Ids : cancelled'[i] => cancelled[i] \/ status # "none",
         \A i \in Ids : pc'[i] \notin {"dead", "write", "window", "acquire", "output"} \/ pc'[i] = pc[i],
         \A i \in Ids : pc'[i] = "output" <=> pc[i] = "output",
         \A i \in Ids : box'[i] # "none" =>
           pc'[i] # "none" \/ Held(i)' \/ (MainServes(i)' /\ job'[Main] = "sync"),
         \A i \in Ids : Held(i)' => box'[i] # "none" /\ pc'[i] = "none",
         \A i \in Ids : Tally(i)' = Tally(i)
  PROVE  Others' /\ OutInv'
<1>1. UNCHANGED <<client, inbox, eof, frame, status, cvars, ovars>>
  BY DEF cvars, ivars
<1>2. EndInv'
  BY <1>1 DEF Sane, EndInv
<1>3. JobInv'
  BY DEF Sane, JobInv
<1>4. PairInv'
  BY <1>1 DEF Sane, PairInv, Before
<1>5. TableInv'
  <2>1. \A i \in Ids : ~Checked(i)'
    BY DEF Checked
  <2> QED
    BY <2>1 DEF TableInv
<1>6. TallyInv'
  BY <1>1 DEF Sane, TallyInv
<1>7. OutInv'
  BY <1>1, MainOut DEF Sane
<1> QED
  BY <1>2, <1>3, <1>4, <1>5, <1>6, <1>7 DEF Others

LEMMA HandleSane ==
  ASSUME TypeOK, Sane, Handle
  PROVE  Others' /\ OutInv'
<1> DEFINE f == frame.id
<1>0. /\ pc[Main] = "handle" /\ f \in Ids /\ UNCHANGED <<cvars, ivars, ovars>> /\ Unread' = Unread
      /\ UNCHANGED <<client, inbox, eof, todo>> /\ f # Main
  BY MainFacts, UnreadSame DEF Handle, cvars, ivars, ovars
<1>1. /\ \A i \in Ids : Held(i) <=> frame.id = i /\ frame.type = "submit"
      /\ \A i \in Ids : InHand(i) <=> frame.id = i /\ frame.type \in {"request", "submit"}
      /\ \A i \in Ids : ~MainServes(i) /\ ~MainWorks(i)
      /\ status = "none"
  BY <1>0 DEF Held, InHand, MainServes, MainWorks, Sane, EndInv
<1>2. \A i \in Ids : /\ Held(i) => box[i] # "none" /\ pc[i] = "none"
                     /\ box[i] # "none" => pc[i] # "none" \/ Held(i)
  BY <1>1 DEF Sane, TableInv
<1>3. CASE HandlePing
  <2>1. /\ frame.type = "ping" /\ pc'[Main] = "acquire" /\ job'[Main] = "pong"
        /\ \A i \in Ids : pc'[i] = pc[i] /\ job'[i] = job[i]
        /\ UNCHANGED <<frame, status, box, cancelled>>
    BY <1>3, MainFacts DEF HandlePing, WantLock, Goto, mvars, tvars
  <2>2. \A i \in Ids : ~Held(i) /\ ~Held(i)' /\ ~InHand(i) /\ ~InHand(i)' /\ ~MainWorks(i)'
    BY <2>1 DEF Held, InHand, MainWorks
  <2>3. \A i \in Ids : TaskWorks(i)' <=> TaskWorks(i)
    BY <1>0, <2>1 DEF TaskWorks
  <2>4. \A i \in Ids : Tally(i)' = Tally(i)
    BY <1>0, <1>1, <2>2, <2>3, TallySame
  <2>61. \A i \in Ids : (cancelled'[i] => cancelled[i] \/ status # "none")
    BY <2>1
  <2>62. \A i \in Ids : pc'[i] \notin {"dead", "write", "window", "acquire", "output"} \/ pc'[i] = pc[i]
    BY <2>1
  <2>63. \A i \in Ids : (pc'[i] = "output" <=> pc[i] = "output")
    BY <2>1
  <2>64. \A i \in Ids : box'[i] # "none" =>
           pc'[i] # "none" \/ Held(i)' \/ (MainServes(i)' /\ job'[Main] = "sync")
    BY <1>1, <1>2, <2>1, <2>2
  <2>65. \A i \in Ids : Held(i)' => box'[i] # "none" /\ pc'[i] = "none"
    BY <2>1, <2>2
  <2>66. /\ pc[Main] \notin {"output", "idle"} /\ pc'[Main] \in {"idle", "acquire", "teardown", "exited"}
         /\ status = "none" <=> pc'[Main] \notin {"teardown", "exited"}
         /\ pc'[Main] = "acquire" => job'[Main] \in {"sync", "result", "pong"} /\ frame.type # "request"
         /\ UNCHANGED <<cvars, ivars, frame, ovars, status>>
         /\ \A i \in Ids : job'[i] = job[i]
    BY <1>0, <1>1, <2>1
  <2> QED
    BY <2>61, <2>62, <2>63, <2>64, <2>65, <2>66, <2>4, MainKeeps
<1>4. CASE HandleAck
  <2>1. /\ frame.type = "ack" /\ pc'[Main] = "idle"
        /\ \A i \in Ids : pc'[i] = pc[i] /\ job'[i] = job[i]
        /\ UNCHANGED <<frame, status, box, cancelled>>
    BY <1>4, MainFacts DEF HandleAck, Goto, mvars, tvars
  <2>2. \A i \in Ids : ~Held(i) /\ ~Held(i)' /\ ~InHand(i) /\ ~InHand(i)' /\ ~MainWorks(i)'
    BY <2>1 DEF Held, InHand, MainWorks, MainServes
  <2>3. \A i \in Ids : TaskWorks(i)' <=> TaskWorks(i)
    BY <1>0, <2>1 DEF TaskWorks
  <2>4. \A i \in Ids : Tally(i)' = Tally(i)
    BY <1>0, <1>1, <2>2, <2>3, TallySame
  <2>61. \A i \in Ids : (cancelled'[i] => cancelled[i] \/ status # "none")
    BY <2>1
  <2>62. \A i \in Ids : pc'[i] \notin {"dead", "write", "window", "acquire", "output"} \/ pc'[i] = pc[i]
    BY <2>1
  <2>63. \A i \in Ids : (pc'[i] = "output" <=> pc[i] = "output")
    BY <2>1
  <2>64. \A i \in Ids : box'[i] # "none" =>
           pc'[i] # "none" \/ Held(i)' \/ (MainServes(i)' /\ job'[Main] = "sync")
    BY <1>1, <1>2, <2>1, <2>2
  <2>65. \A i \in Ids : Held(i)' => box'[i] # "none" /\ pc'[i] = "none"
    BY <2>1, <2>2
  <2>66. /\ pc[Main] \notin {"output", "idle"} /\ pc'[Main] \in {"idle", "acquire", "teardown", "exited"}
         /\ status = "none" <=> pc'[Main] \notin {"teardown", "exited"}
         /\ pc'[Main] = "acquire" => job'[Main] \in {"sync", "result", "pong"} /\ frame.type # "request"
         /\ UNCHANGED <<cvars, ivars, frame, ovars, status>>
         /\ \A i \in Ids : job'[i] = job[i]
    BY <1>0, <1>1, <2>1
  <2> QED
    BY <2>61, <2>62, <2>63, <2>64, <2>65, <2>66, <2>4, MainKeeps
<1>5. CASE HandleRequest
  <2>0. pc[f] = "none" /\ box[f] = "none"
    BY <1>0, <1>5, NoError
  <2>1. /\ frame.type = "request" /\ frame.kind \in AllKinds
        /\ pc'[Main] = "idle" /\ box'[f] = frame.kind
        /\ \A i \in Ids : pc'[i] = pc[i] /\ job'[i] = job[i] /\ (i # f => box'[i] = box[i])
        /\ UNCHANGED <<frame, status, cancelled>>
    BY <1>0, <1>5, <2>0, MainFacts DEF HandleRequest, Goto, Sane, PairInv
  <2>2. frame.kind # "none"
    BY <2>1 DEF AllKinds
  <2>3. \A i \in Ids : Held(i)' <=> i = f
    BY <2>1 DEF Held
  <2>4. \A i \in Ids : (InHand(i)' <=> InHand(i)) /\ ~MainWorks(i)'
    BY <2>1 DEF InHand, MainWorks, MainServes
  <2>5. \A i \in Ids : TaskWorks(i)' <=> TaskWorks(i)
    BY <1>0, <2>1 DEF TaskWorks
  <2>6. \A i \in Ids : Tally(i)' = Tally(i)
    BY <1>0, <1>1, <2>4, <2>5, TallySame
  <2>7. \A i \in Ids : ~Held(i)
    BY <1>1, <2>1
  <2>61. \A i \in Ids : (cancelled'[i] => cancelled[i] \/ status # "none")
    BY <2>1
  <2>62. \A i \in Ids : pc'[i] \notin {"dead", "write", "window", "acquire", "output"} \/ pc'[i] = pc[i]
    BY <2>1
  <2>63. \A i \in Ids : (pc'[i] = "output" <=> pc[i] = "output")
    BY <2>1
  <2>64. \A i \in Ids : box'[i] # "none" =>
           pc'[i] # "none" \/ Held(i)' \/ (MainServes(i)' /\ job'[Main] = "sync")
    BY <1>1, <1>2, <2>0, <2>1, <2>2, <2>3, <2>7
  <2>65. \A i \in Ids : Held(i)' => box'[i] # "none" /\ pc'[i] = "none"
    BY <2>0, <2>1, <2>2, <2>3, <2>7
  <2>66. /\ pc[Main] \notin {"output", "idle"} /\ pc'[Main] \in {"idle", "acquire", "teardown", "exited"}
         /\ status = "none" <=> pc'[Main] \notin {"teardown", "exited"}
         /\ pc'[Main] = "acquire" => job'[Main] \in {"sync", "result", "pong"} /\ frame.type # "request"
         /\ UNCHANGED <<cvars, ivars, frame, ovars, status>>
         /\ \A i \in Ids : job'[i] = job[i]
    BY <1>0, <1>1, <2>1
  <2> QED
    BY <2>61, <2>62, <2>63, <2>64, <2>65, <2>66, <2>6, MainKeeps
<1>6. CASE SubmitRead
  <2>1. /\ frame.type = "submit" /\ pc'[Main] = "idle" /\ pc'[f] = "begin"
        /\ \A i \in Ids : job'[i] = job[i] /\ (i # f => pc'[i] = pc[i])
        /\ UNCHANGED <<frame, status, box, cancelled>>
    BY <1>0, <1>6, MainFacts DEF SubmitRead, mvars, tvars
  <2>2. InHand(f) /\ Held(f) /\ pc[f] = "none"
    BY <1>0, <1>1, <1>2, <2>1
  <2>3. \A i \in Ids : ~Held(i)' /\ ~InHand(i)' /\ ~MainWorks(i)'
    BY <2>1 DEF Held, InHand, MainWorks, MainServes
  <2>4. ~TaskWorks(f) /\ TaskWorks(f)'
    BY <2>1, <2>2 DEF TaskWorks
  <2>5. ASSUME NEW i \in Ids PROVE Tally(i)' = Tally(i)
    <3>1. CASE i # f
      <4>1. ~InHand(i) /\ (TaskWorks(i)' <=> TaskWorks(i))
        BY <1>0, <1>1, <2>1, <3>1 DEF TaskWorks
      <4> QED
        BY <1>0, <1>1, <2>3, <4>1, TallySame
    <3>2. CASE i = f
      <4> DEFINE a == Count(inbox, Requested(i))
                 e == Count(Unread, Of({"result"}, {i}))
      <4>1. Tally(i) = a + 1 + 0 + 0 + e
        BY <1>0, <1>1, <2>2, <2>4, <3>2 DEF Tally, OneIf
      <4>2. a' = a /\ e' = e /\ a \in Nat /\ e \in Nat
        BY <1>0, TallyTypes DEF Requested
      <4>3. Tally(i)' = a' + 0 + 1 + 0 + e'
        BY <1>0, <2>1, <2>3, <2>4, <3>2 DEF Tally, OneIf
      <4> HIDE DEF a, e
      <4> QED
        BY <4>1, <4>2, <4>3
    <3> QED
      BY <3>1, <3>2
  <2>61. \A i \in Ids : (cancelled'[i] => cancelled[i] \/ status # "none")
    BY <2>1
  <2>62. \A i \in Ids : pc'[i] \notin {"dead", "write", "window", "acquire", "output"} \/ pc'[i] = pc[i]
    BY <2>1
  <2>63. \A i \in Ids : (pc'[i] = "output" <=> pc[i] = "output")
    BY <2>1, <2>2
  <2>64. \A i \in Ids : box'[i] # "none" =>
           pc'[i] # "none" \/ Held(i)' \/ (MainServes(i)' /\ job'[Main] = "sync")
    BY <1>1, <1>2, <2>1, <2>2, <2>3
  <2>65. \A i \in Ids : Held(i)' => box'[i] # "none" /\ pc'[i] = "none"
    BY <2>1, <2>2, <2>3
  <2>66. /\ pc[Main] \notin {"output", "idle"} /\ pc'[Main] \in {"idle", "acquire", "teardown", "exited"}
         /\ status = "none" <=> pc'[Main] \notin {"teardown", "exited"}
         /\ pc'[Main] = "acquire" => job'[Main] \in {"sync", "result", "pong"} /\ frame.type # "request"
         /\ UNCHANGED <<cvars, ivars, frame, ovars, status>>
         /\ \A i \in Ids : job'[i] = job[i]
    BY <1>0, <1>1, <2>1
  <2> QED
    BY <2>61, <2>62, <2>63, <2>64, <2>65, <2>66, <2>5, MainKeeps
<1>7. CASE SubmitSync
  <2>1. /\ frame.type = "submit" /\ pc'[Main] = "acquire"
        /\ \A i \in Ids : /\ job'[i] = job[i] /\ pc'[i] = pc[i] /\ (cancelled'[i] => cancelled[i])
                          /\ box'[i] # "none" => box[i] # "none"
        /\ \/ job'[Main] = "sync"
           \/ job'[Main] = "result" /\ box'[f] = "none"
        /\ UNCHANGED <<frame, status>>
    <3>1. /\ frame.type = "submit" /\ pc' = [pc EXCEPT ![Main] = "acquire"] /\ UNCHANGED <<frame, status>>
          /\ \/ job' = [job EXCEPT ![Main] = "sync"] /\ UNCHANGED <<box, cancelled>>
             \/ job' = [job EXCEPT ![Main] = "result"] /\ Clear(f)
      BY <1>7 DEF SubmitSync, WantLock, Goto, mvars
    <3>2. pc'[Main] = "acquire" /\ \A i \in Ids : job'[i] = job[i] /\ pc'[i] = pc[i]
      BY <3>1, MainFacts
    <3>3. CASE job' = [job EXCEPT ![Main] = "sync"] /\ UNCHANGED <<box, cancelled>>
      BY <3>1, <3>2, <3>3, MainFacts
    <3>4. CASE job' = [job EXCEPT ![Main] = "result"] /\ Clear(f)
      <4>1. job'[Main] = "result"
        BY <3>4, MainFacts
      <4>2. /\ box'[f] = "none"
            /\ \A i \in Ids : (cancelled'[i] => cancelled[i]) /\ (box'[i] # "none" => box[i] # "none")
        BY <3>4, MainFacts DEF Clear
      <4> QED
        BY <3>1, <3>2, <4>1, <4>2
    <3> QED
      BY <3>1, <3>3, <3>4
  <2>2. InHand(f) /\ Held(f) /\ pc[f] = "none"
    BY <1>0, <1>1, <1>2, <2>1
  <2>3. /\ \A i \in Ids : ~Held(i)' /\ ~InHand(i)' /\ (MainServes(i)' <=> i = f)
        /\ \A i \in Ids : MainWorks(i)' <=> i = f
    BY <2>1 DEF Held, InHand, MainWorks, MainServes
  <2>4. \A i \in Ids : TaskWorks(i)' <=> TaskWorks(i)
    BY <1>0, <2>1 DEF TaskWorks
  <2>5. ASSUME NEW i \in Ids PROVE Tally(i)' = Tally(i)
    <3>1. CASE i # f
      <4>1. ~InHand(i)
        BY <1>1, <3>1
      <4> QED
        BY <1>0, <1>1, <2>3, <2>4, <3>1, <4>1, TallySame
    <3>2. CASE i = f
      <4> DEFINE a == Count(inbox, Requested(i))
                 c == OneIf(TaskWorks(i))
                 e == Count(Unread, Of({"result"}, {i}))
      <4>1. Tally(i) = a + 1 + c + 0 + e
        BY <1>0, <1>1, <2>2, <3>2 DEF Tally, OneIf
      <4>2. a' = a /\ e' = e /\ c' = c /\ a \in Nat /\ e \in Nat /\ c \in {0, 1}
        BY <1>0, <2>4, TallyTypes DEF Requested, OneIf
      <4>3. Tally(i)' = a' + 0 + c' + 1 + e'
        BY <1>0, <2>3, <3>2 DEF Tally, OneIf
      <4> HIDE DEF a, c, e
      <4> QED
        BY <4>1, <4>2, <4>3
    <3> QED
      BY <3>1, <3>2
  <2>6. \A i \in Ids : box'[i] # "none" => pc'[i] # "none" \/ (MainServes(i)' /\ job'[Main] = "sync")
    BY <1>1, <1>2, <2>1, <2>3
  <2>61. \A i \in Ids : (cancelled'[i] => cancelled[i] \/ status # "none")
    BY <2>1
  <2>62. \A i \in Ids : pc'[i] \notin {"dead", "write", "window", "acquire", "output"} \/ pc'[i] = pc[i]
    BY <2>1
  <2>63. \A i \in Ids : (pc'[i] = "output" <=> pc[i] = "output")
    BY <2>1
  <2>64. \A i \in Ids : box'[i] # "none" =>
           pc'[i] # "none" \/ Held(i)' \/ (MainServes(i)' /\ job'[Main] = "sync")
    BY <1>1, <1>2, <2>1, <2>3, <2>6
  <2>65. \A i \in Ids : Held(i)' => box'[i] # "none" /\ pc'[i] = "none"
    BY <2>1, <2>3, <2>6
  <2>66. /\ pc[Main] \notin {"output", "idle"} /\ pc'[Main] \in {"idle", "acquire", "teardown", "exited"}
         /\ status = "none" <=> pc'[Main] \notin {"teardown", "exited"}
         /\ pc'[Main] = "acquire" => job'[Main] \in {"sync", "result", "pong"} /\ frame.type # "request"
         /\ UNCHANGED <<cvars, ivars, frame, ovars, status>>
         /\ \A i \in Ids : job'[i] = job[i]
    BY <1>0, <1>1, <2>1
  <2> QED
    BY <2>61, <2>62, <2>63, <2>64, <2>65, <2>66, <2>5, MainKeeps
<1> QED
  BY <1>0, <1>3, <1>4, <1>5, <1>6, <1>7, NoError DEF Handle

LEMMA MainReleasesSane ==
  ASSUME TypeOK, Sane, MainReleases
  PROVE  Others' /\ OutInv'
<1> DEFINE f == frame.id
<1>1. /\ pc[Main] = "output" /\ Unlock /\ f \in Ids /\ UNCHANGED <<client, inbox, eof, frame, status>>
      /\ rx' = rx /\ UNCHANGED <<todo, queue, sent, pipe>> /\ Unread' = Unread /\ f # Main
      /\ job[Main] \in {"sync", "result", "pong"} /\ frame.type # "request" /\ status = "none"
  BY MainFacts, UnreadSame DEF MainReleases, Unlock, cvars, ivars, mvars, Sane, JobInv, EndInv
<1>2. /\ \A i \in Ids : pc'[i] = pc[i] /\ job'[i] = job[i] /\ (cancelled'[i] => cancelled[i])
                        /\ (box'[i] # "none" => box[i] # "none")
      /\ \/ job[Main] = "sync" /\ pc'[Main] = "acquire" /\ job'[Main] = "result" /\ box'[f] = "none"
         \/ job[Main] # "sync" /\ pc'[Main] = "idle" /\ job'[Main] = job[Main]
  <2>1. CASE job[Main] = "sync"
    <3>1. /\ pc' = [pc EXCEPT ![Main] = "acquire"] /\ job' = [job EXCEPT ![Main] = "result"] /\ Clear(f)
      BY <2>1 DEF MainReleases, WantLock, Goto
    <3>2. /\ pc'[Main] = "acquire" /\ job'[Main] = "result"
          /\ \A i \in Ids : pc'[i] = pc[i] /\ job'[i] = job[i]
      BY <3>1, MainFacts
    <3>3. /\ box'[f] = "none"
          /\ \A i \in Ids : (cancelled'[i] => cancelled[i]) /\ (box'[i] # "none" => box[i] # "none")
      BY <3>1, MainFacts DEF Clear
    <3> QED
      BY <2>1, <3>2, <3>3
  <2>2. CASE job[Main] # "sync"
    <3>1. pc' = [pc EXCEPT ![Main] = "idle"] /\ UNCHANGED <<job, box, cancelled>>
      BY <2>2 DEF MainReleases, Goto
    <3> QED
      BY <2>2, <3>1, MainFacts
  <2> QED
    BY <2>1, <2>2
<1>3. OutInv' /\ todo = <<>>
  <2>1. Main \in Threads /\ OutInv
    BY MainFacts DEF Sane
  <2>2. pc'[Main] # "output" /\ \A u \in Threads \ {Main} : pc'[u] = pc[u]
    BY <1>2
  <2> QED
    BY <1>1, <2>1, <2>2, ReleaseOut
<1>4. EndInv'
  BY <1>1, <1>2 DEF Sane, EndInv
<1>5. JobInv'
  BY <1>1, <1>2 DEF Sane, JobInv
<1>6. PairInv'
  BY <1>1 DEF Sane, PairInv, Before
<1>7. /\ \A i \in Ids : ~Held(i) /\ ~Held(i)' /\ ~Checked(i)' /\ ~InHand(i) /\ ~InHand(i)'
      /\ \A i \in Ids : MainServes(i) <=> i = f
  BY <1>1, <1>2 DEF Held, Checked, InHand, MainServes
<1>8. TableInv'
  <2>1. \A i \in Ids : box'[i] # "none" => pc'[i] # "none"
    BY <1>1, <1>2, <1>7 DEF Sane, TableInv
  <2> QED
    BY <1>7, <2>1 DEF TableInv
<1>9. TallyInv'
  <2> SUFFICES ASSUME NEW i \in Ids PROVE Tally(i)' = Tally(i)
    BY <1>1 DEF Sane, TallyInv
  <2>1. TaskWorks(i)' <=> TaskWorks(i)
    BY <1>1, <1>2 DEF TaskWorks
  <2>2. ~(Len(todo) > 1)
    BY <1>3
  <2>3. MainWorks(i)' <=> MainWorks(i)
    BY <1>1, <1>2, <2>2 DEF MainWorks, MainServes
  <2> QED
    BY <1>1, <1>7, <2>1, <2>3, TallySame
<1> QED
  BY <1>3, <1>4, <1>5, <1>6, <1>8, <1>9 DEF Others

LEMMA EndOfInputSane ==
  ASSUME TypeOK, Sane, EndOfInput
  PROVE  /\ status' = "eof" /\ pc'[Main] = "teardown"
         /\ ~HalfCloses => Others' /\ OutInv'
<1>1. /\ pc[Main] = "idle" /\ pc'[Main] = "teardown" /\ \A i \in Ids : pc'[i] = pc[i]
      /\ inbox = <<>> /\ eof /\ status' = "eof"
      /\ UNCHANGED <<client, inbox, eof, job, frame, box, cancelled>> /\ UNCHANGED <<cvars, ovars>>
  BY MainFacts DEF EndOfInput, EndWith, Goto, cvars, ivars, tvars, Sane, Running
<1>2. frame.type # "request"
  <2>1. Before(Len(inbox) + 1) = frame
    BY <1>1 DEF Before
  <2> QED
    BY <2>1 DEF Sane, PairInv
<1> SUFFICES ASSUME ~HalfCloses PROVE Others' /\ OutInv'
  BY <1>1
<1>3. EndInv'
  BY <1>1 DEF Sane, EndInv
<1>4. JobInv'
  BY <1>1 DEF Sane, JobInv
<1>5. PairInv'
  BY <1>1 DEF Sane, PairInv, Before
<1>6. \A i \in Ids : /\ ~Held(i) /\ ~Held(i)' /\ ~Checked(i)' /\ ~InHand(i) /\ ~InHand(i)'
                     /\ ~MainServes(i) /\ ~MainServes(i)'
  BY <1>1, <1>2 DEF Held, Checked, InHand, MainServes
<1>7. TableInv'
  BY <1>1, <1>6 DEF Sane, TableInv
<1>8. TallyInv'
  <2> SUFFICES ASSUME NEW i \in Ids PROVE Tally(i)' = Tally(i)
    BY <1>1 DEF Sane, TallyInv
  <2>1. TaskWorks(i)' <=> TaskWorks(i)
    BY <1>1 DEF TaskWorks, ovars
  <2>2. MainWorks(i)' <=> MainWorks(i)
    BY <1>6 DEF MainWorks
  <2> QED
    BY <1>1, <1>6, <2>1, <2>2, TallySame, UnreadSame DEF ovars
<1>9. OutInv'
  BY <1>1, MainOut DEF Sane
<1> QED
  BY <1>3, <1>4, <1>5, <1>7, <1>8, <1>9 DEF Others

LEMMA TearDownSane ==
  ASSUME TypeOK, Sane, TearDownCancel \/ TearDownClear
  PROVE  Others' /\ OutInv'
<1>1. /\ pc[Main] = "teardown" /\ pc'[Main] \in {"teardown", "exited"} /\ idx \in Ids /\ status # "none"
      /\ UNCHANGED <<cvars, ivars, frame, ovars, status>> /\ job' = job
  BY MainFacts, TearDownQuiet DEF TearDownCancel, TearDownClear, mvars, Sane, EndInv
<1>2. \A i \in Ids : /\ pc'[i] = pc[i] \/ (pc'[i] = "none" /\ pc[i] \in {"none", "done"})
                     /\ box'[i] # "none" => box[i] # "none" /\ pc'[i] = pc[i]
  <2>1. CASE TearDownCancel
    BY <2>1, TearDownQuiet DEF TearDownCancel
  <2>2. CASE TearDownClear
    <3>1. pc[idx] \in {"none", "done"}
      BY <1>1, <2>2 DEF TearDownClear, Ended, Sane, EndInv
    <3>2. /\ pc'[idx] = "none" /\ box'[idx] = "none"
          /\ \A i \in Ids : i # idx => pc'[i] = pc[i] /\ box'[i] = box[i]
      BY <1>1, <2>2, MainFacts DEF TearDownClear, Clear
    <3> QED
      BY <3>1, <3>2
  <2> QED
    BY <2>1, <2>2
<1>3. \A i \in Ids : ~Held(i) /\ ~Held(i)' /\ ~MainServes(i) /\ (InHand(i)' <=> InHand(i))
                     /\ ~MainWorks(i) /\ ~MainWorks(i)'
  BY <1>1 DEF Held, MainServes, InHand, MainWorks
<1>4. \A i \in Ids : box'[i] # "none" => pc'[i] # "none"
  BY <1>2, <1>3 DEF Sane, TableInv
<1>5. ASSUME NEW i \in Ids PROVE Tally(i)' = Tally(i)
  <2>1. TaskWorks(i)' <=> TaskWorks(i)
    BY <1>1, <1>2 DEF TaskWorks, ovars
  <2> QED
    BY <1>1, <1>3, <2>1, TallySame, UnreadSame DEF ovars, ivars
<1>6. /\ \A i \in Ids : (cancelled'[i] => cancelled[i] \/ status # "none")
      /\ \A i \in Ids : pc'[i] \notin {"dead", "write", "window", "acquire", "output"} \/ pc'[i] = pc[i]
  BY <1>1, <1>2
<1>7. \A i \in Ids : pc'[i] = "output" <=> pc[i] = "output"
  BY <1>2
<1>8. /\ \A i \in Ids : box'[i] # "none" => pc'[i] # "none" \/ Held(i)' \/ (MainServes(i)' /\ job'[Main] = "sync")
      /\ \A i \in Ids : Held(i)' => box'[i] # "none" /\ pc'[i] = "none"
  BY <1>3, <1>4
<1>9. /\ pc[Main] \notin {"output", "idle"} /\ pc'[Main] \in {"idle", "acquire", "teardown", "exited"}
      /\ status = "none" <=> pc'[Main] \notin {"teardown", "exited"}
      /\ pc'[Main] = "acquire" => job'[Main] \in {"sync", "result", "pong"} /\ frame.type # "request"
      /\ \A i \in Ids : job'[i] = job[i]
  BY <1>1
<1> QED
  BY <1>1, <1>5, <1>6, <1>7, <1>8, <1>9, MainKeeps

LEMMA MainAcquireSane ==
  ASSUME TypeOK, Sane, Acquire(Main)
  PROVE  Others' /\ OutInv'
<1>1. /\ pc[Main] = "acquire" /\ lock = Nobody /\ todo' \in Script(job[Main], IdOf(Main)) /\ IdOf(Main) \in Ids
      /\ pc'[Main] = "output" /\ \A i \in Ids : pc'[i] = pc[i]
      /\ UNCHANGED <<client, inbox, eof, job, frame, status, box, cancelled>> /\ Unread' = Unread
      /\ job[Main] \in {"sync", "result", "pong"} /\ frame.type # "request"
  BY MainFacts, UnreadSame DEF Acquire, Goto, cvars, ivars, mvars, tvars, Sane, JobInv, IdOf
<1>2. OutInv'
  BY MainFacts, AcquireOut DEF Sane
<1>3. \A i \in Ids : pc[i] # "output"
  BY <1>1, MainFacts DEF Sane, OutInv, LockInv
<1>4. EndInv'
  BY <1>1 DEF Sane, EndInv
<1>5. JobInv'
  BY <1>1 DEF Sane, JobInv
<1>6. PairInv'
  BY <1>1 DEF Sane, PairInv, Before
<1>7. /\ \A i \in Ids : ~Held(i) /\ ~Held(i)' /\ ~Checked(i)' /\ ~InHand(i) /\ ~InHand(i)'
      /\ \A i \in Ids : MainServes(i)' <=> MainServes(i)
  BY <1>1 DEF Held, Checked, InHand, MainServes
<1>8. TableInv'
  BY <1>1, <1>7 DEF Sane, TableInv
<1>9. TallyInv'
  <2> SUFFICES ASSUME NEW i \in Ids PROVE Tally(i)' = Tally(i)
    BY <1>1 DEF Sane, TallyInv
  <2>1. TaskWorks(i)' <=> TaskWorks(i)
    BY <1>1, <1>3 DEF TaskWorks
  <2>2. job[Main] = "result" => Len(todo') = 2
    BY <1>1, ScriptStarts
  <2>3. MainWorks(i)' <=> MainWorks(i)
    <3>1. job[Main] = "result" => Len(todo') > 1
      BY <2>2
    <3> QED
      BY <1>1, <3>1 DEF MainWorks, MainServes
  <2> QED
    BY <1>1, <1>7, <2>1, <2>3, TallySame
<1> QED
  BY <1>2, <1>4, <1>5, <1>6, <1>8, <1>9 DEF Others

LEMMA MainSane ==
  ASSUME TypeOK, Sane, MainThread
  PROVE  /\ status' \in {"none", "eof"} /\ (status' = "eof" => pc'[Main] \in {"teardown", "exited"})
         /\ status' = "none" \/ ~HalfCloses => Others' /\ OutInv'
<1>1. Main \in Threads /\ Others /\ OutInv
  BY MainFacts DEF Sane, Others
<1>2. ASSUME Others'
      PROVE  status' \in {"none", "eof"} /\ (status' = "eof" => pc'[Main] \in {"teardown", "exited"})
  BY <1>2 DEF Others, EndInv
<1>3. CASE TakeFrame
  BY <1>2, <1>3, TakeFrameSane
<1>4. CASE CheckTask
  BY <1>2, <1>4, CheckTaskSane
<1>5. CASE Handle
  BY <1>2, <1>5, HandleSane
<1>6. CASE Output(Main)
  BY <1>1, <1>2, <1>6, OutputOthers
<1>7. CASE MainReleases
  BY <1>2, <1>7, MainReleasesSane
<1>8. CASE EndOfInput
  BY <1>8, EndOfInputSane
<1>9. CASE TearDownCancel \/ TearDownClear
  BY <1>2, <1>9, TearDownSane
<1>10. CASE Acquire(Main)
  BY <1>2, <1>10, MainAcquireSane
<1> QED
  BY <1>1, <1>3, <1>4, <1>5, <1>6, <1>7, <1>8, <1>9, <1>10, NoError DEF MainThread, MainStep

----------------------------------------------------------------------------
(* The steps of the client.                                                *)

\* One more frame from the client.
LEMMA PairAppend ==
  ASSUME TypeOK, PairInv, frame' = frame, NEW f \in InFrames, inbox' = Append(inbox, f),
         f.type \in {"ack", "ping"}
  PROVE  PairInv' /\ \A i : Count(inbox, Requested(i))' = Count(inbox, Requested(i))
<1> DEFINE n == Len(inbox)
<1>1. /\ n \in Nat /\ Len(inbox') = n + 1 /\ inbox'[n + 1] = f
      /\ \A k \in 1 .. n : inbox'[k] = inbox[k] /\ inbox \in Seq(InFrames)
  BY MainFacts, AppendProperties
<1> HIDE DEF n
<1>2. \A k \in 1 .. n + 1 : Before(k)' = Before(k)
  <2> SUFFICES ASSUME NEW k \in 1 .. n + 1 PROVE Before(k)' = Before(k)
    OBVIOUS
  <2>1. k = 1 \/ k - 1 \in 1 .. n
    BY <1>1
  <2> QED
    BY <1>1, <2>1 DEF Before
<1>3. Before(n + 1).type # "request"
  BY DEF PairInv, n
<1>4. ASSUME NEW k \in 1 .. n + 1
      PROVE  /\ inbox'[k].type # "cancel"
             /\ inbox'[k].type = "request" => inbox'[k].kind \in AllKinds
             /\ inbox'[k].type = "submit" <=> Before(k)'.type = "request"
             /\ inbox'[k].type = "submit" => inbox'[k].id = Before(k)'.id
  <2>1. CASE k = n + 1
    <3>1. Before(k)' = Before(k) /\ Before(k).type # "request" /\ inbox'[k] = f
      BY <1>1, <1>2, <1>3, <2>1
    <3> QED
      BY <3>1
  <2>2. CASE k \in 1 .. n
    <3>1. Before(k)' = Before(k) /\ inbox'[k] = inbox[k]
      BY <1>1, <1>2, <2>2
    <3> QED
      BY <2>2, <3>1 DEF PairInv, n
  <2> QED
    BY <1>1, <2>1, <2>2
<1>5. Before(Len(inbox) + 1)'.type # "request"
  <2>1. (n + 1) + 1 # 1 /\ (n + 1) + 1 - 1 = n + 1
    BY <1>1
  <2> QED
    BY <1>1, <2>1 DEF Before
<1>6. PairInv'
  <2>1. frame.type # "cancel" /\ (frame.type = "request" => frame.kind \in AllKinds)
    BY DEF PairInv
  <2> QED
    BY <1>1, <1>4, <1>5, <2>1 DEF PairInv
<1>7. ASSUME NEW i PROVE Count(inbox, Requested(i))' = Count(inbox, Requested(i))
  <2>1. f \notin Requested(i) /\ Requested(i)' = Requested(i)
    BY DEF Requested
  <2>2. Count(Append(inbox, f), Requested(i)) = Count(inbox, Requested(i)) + 0
    BY <2>1, MainFacts, CountAppend DEF OneIf
  <2>3. Count(inbox, Requested(i)) \in Nat
    BY MainFacts, CountType
  <2> QED
    BY <2>1, <2>2, <2>3
<1> QED
  BY <1>6, <1>7

\* A step of the client that moves nothing in the server.
LEMMA ClientOut ==
  ASSUME TypeOK, OutInv, UNCHANGED <<pc, job, mvars, tvars, ovars>>, rx' = rx
  PROVE  OutInv'
BY OthersOut DEF mvars, IdOf

LEMMA ClientTable ==
  ASSUME TableInv, JobInv, UNCHANGED <<pc, job, mvars, tvars>>
  PROVE  TableInv' /\ JobInv'
BY DEF TableInv, JobInv, Held, MainServes, Checked, mvars, tvars

LEMMA AskSane ==
  ASSUME TypeOK, Sane, NEW i \in Ids, NEW kind \in Kinds, Ask(i, kind),
         UNCHANGED <<pc, job, mvars, tvars, ovars, inFlight>>
  PROVE  Others' /\ OutInv'
<1> DEFINE n == Len(inbox)
           q == InFrame("request", i, kind)
           s == InFrame("submit", i, "none")
<1>1. /\ q \in InFrames /\ q.type = "request" /\ q.id = i /\ q.kind \in AllKinds
      /\ s \in InFrames /\ s.type = "submit" /\ s.id = i
  BY SessionAssumption DEF InFrame, InFrames
<1>2. /\ ~eof /\ client[i] = "free" /\ client' = [client EXCEPT ![i] = "open"]
      /\ inbox' = inbox \o <<q, s>> /\ UNCHANGED <<rx, eof, frame, idx, status, box, cancelled, todo>>
      /\ Unread' = Unread
  BY UnreadSame DEF Ask, Sending, mvars, tvars, ovars
<1> HIDE DEF q, s
<1>3. /\ n \in Nat /\ inbox \in Seq(InFrames) /\ <<q, s>> \in Seq(InFrames) /\ Len(<<q, s>>) = 2
      /\ <<q, s>>[1] = q /\ <<q, s>>[2] = s
  BY <1>1, MainFacts
<1>4. /\ Len(inbox') = n + 2 /\ inbox'[n + 1] = q /\ inbox'[n + 2] = s
      /\ \A k \in 1 .. n : inbox'[k] = inbox[k]
  <2> DEFINE t == <<q, s>>
  <2>1. /\ Len(t) = 2 /\ t[1] = q /\ t[2] = s /\ t \in Seq(InFrames) /\ inbox' = inbox \o t
    BY <1>2, <1>3
  <2> HIDE DEF t
  <2>2. /\ Len(inbox') = n + Len(t)
        /\ \A k \in 1 .. n + Len(t) : inbox'[k] = IF k <= n THEN inbox[k] ELSE t[k - n]
    BY <1>3, <2>1, ConcatProperties
  <2>3. n + 1 \in 1 .. n + 2 /\ ~(n + 1 <= n) /\ n + 1 - n = 1
    BY <1>3
  <2>4. n + 2 \in 1 .. n + 2 /\ ~(n + 2 <= n) /\ n + 2 - n = 2
    BY <1>3
  <2>5. \A k \in 1 .. n : k \in 1 .. n + 2 /\ k <= n
    BY <1>3
  <2> HIDE DEF n
  <2>6. Len(inbox') = n + 2 /\ \A k \in 1 .. n + 2 : inbox'[k] = IF k <= n THEN inbox[k] ELSE t[k - n]
    BY <2>1, <2>2
  <2>7. inbox'[n + 1] = t[1]
    <3> DEFINE m == n + 1
    <3>1. m \in 1 .. n + 2 /\ ~(m <= n) /\ m - n = 1
      BY <1>3, <2>3
    <3> HIDE DEF m
    <3>2. inbox'[m] = t[m - n]
      BY <2>6, <3>1
    <3>3. inbox'[m] = t[1]
      BY <3>1, <3>2
    <3> QED
      BY <3>3 DEF m
  <2>8. inbox'[n + 2] = t[2]
    <3> DEFINE m == n + 2
    <3>1. m \in 1 .. n + 2 /\ ~(m <= n) /\ m - n = 2
      BY <1>3, <2>4
    <3> HIDE DEF m
    <3>2. inbox'[m] = t[m - n]
      BY <2>6, <3>1
    <3>3. inbox'[m] = t[2]
      BY <3>1, <3>2
    <3> QED
      BY <3>3 DEF m
  <2>9. \A k \in 1 .. n : inbox'[k] = inbox[k]
    BY <2>5, <2>6
  <2> QED
    BY <2>1, <2>6, <2>7, <2>8, <2>9
<1> HIDE DEF n
<1>5. \A k \in 1 .. n + 1 : Before(k)' = Before(k)
  <2> SUFFICES ASSUME NEW k \in 1 .. n + 1 PROVE Before(k)' = Before(k)
    OBVIOUS
  <2>1. k = 1 \/ k - 1 \in 1 .. n
    BY <1>3
  <2> QED
    BY <1>2, <1>4, <2>1 DEF Before
<1>6. PairInv'
  <2>1. ASSUME NEW k \in 1 .. n + 2
        PROVE  /\ inbox'[k].type # "cancel"
               /\ inbox'[k].type = "request" => inbox'[k].kind \in AllKinds
               /\ inbox'[k].type = "submit" <=> Before(k)'.type = "request"
               /\ inbox'[k].type = "submit" => inbox'[k].id = Before(k)'.id
    <3>1. CASE k \in 1 .. n
      <4>1. Before(k)' = Before(k) /\ inbox'[k] = inbox[k]
        BY <1>3, <1>4, <1>5, <3>1
      <4> QED
        BY <3>1, <4>1 DEF Sane, PairInv, n
    <3>2. CASE k = n + 1
      <4>1. k \in 1 .. n + 1
        BY <1>3, <3>2
      <4>2. Before(k)' = Before(k) /\ inbox'[k] = q
        BY <1>4, <1>5, <3>2, <4>1
      <4>3. Before(n + 1).type # "request"
        BY DEF Sane, PairInv, n
      <4> QED
        BY <1>1, <3>2, <4>2, <4>3
    <3>3. CASE k = n + 2
      <4>1. k # 1 /\ k - 1 = n + 1
        BY <1>3, <3>3
      <4>2. Before(k)' = q /\ inbox'[k] = s
        BY <1>4, <3>3, <4>1 DEF Before
      <4> QED
        BY <1>1, <4>2
    <3> QED
      BY <1>3, <3>1, <3>2, <3>3
  <2>2. Before(Len(inbox) + 1)'.type # "request"
    <3>1. (n + 2) + 1 # 1 /\ (n + 2) + 1 - 1 = n + 2
      BY <1>3
    <3>2. Before(Len(inbox) + 1)' = s
      BY <1>4, <3>1 DEF Before
    <3> QED
      BY <1>1, <3>2
  <2>3. frame.type # "cancel" /\ (frame.type = "request" => frame.kind \in AllKinds)
    BY DEF Sane, PairInv
  <2> QED
    BY <1>2, <1>4, <2>1, <2>2, <2>3 DEF PairInv
<1>7. EndInv'
  BY <1>2 DEF Sane, EndInv
<1>8. TableInv' /\ JobInv' /\ OutInv'
  BY <1>2, ClientOut, ClientTable DEF Sane
<1>9. TallyInv'
  <2> SUFFICES ASSUME NEW k \in Ids PROVE Tally(k)' = OneIf(client[k] # "free")'
    BY DEF TallyInv
  <2> DEFINE a == Count(inbox, Requested(k))
             b == OneIf(InHand(k))
             c == OneIf(TaskWorks(k))
             d == OneIf(MainWorks(k))
             e == Count(Unread, Of({"result"}, {k}))
  <2>1. a \in Nat /\ b \in {0, 1} /\ c \in {0, 1} /\ d \in {0, 1} /\ e \in Nat
    BY TallyTypes
  <2>2. b' = b /\ c' = c /\ d' = d /\ e' = e
    BY <1>2 DEF InHand, TaskWorks, MainWorks, MainServes
  <2>3. a' = a + OneIf(k = i)
    <3>1. inbox' = Append(Append(inbox, q), s)
      BY <1>1, <1>2, MainFacts
    <3>2. Append(inbox, q) \in Seq(InFrames)
      BY <1>1, MainFacts, AppendProperties
    <3>3. Count(Append(inbox, q), Requested(k)) = a + OneIf(q \in Requested(k))
      BY <1>1, MainFacts, CountAppend
    <3>4. /\ Count(Append(Append(inbox, q), s), Requested(k))
               = Count(Append(inbox, q), Requested(k)) + OneIf(s \in Requested(k))
      BY <1>1, <3>2, CountAppend
    <3>5. (q \in Requested(k) <=> k = i) /\ s \notin Requested(k) /\ Requested(k)' = Requested(k)
      BY <1>1, InFrameParts DEF Requested
    <3>6. a' = Count(Append(Append(inbox, q), s), Requested(k))
      BY <3>1, <3>5
    <3> HIDE DEF a
    <3> QED
      BY <2>1, <3>3, <3>4, <3>5, <3>6 DEF OneIf
  <2>4. Tally(k) = a + b + c + d + e /\ Tally(k)' = a' + b' + c' + d' + e'
    BY DEF Tally
  <2>5. Tally(k) = OneIf(client[k] # "free")
    BY DEF Sane, TallyInv
  <2>6. OneIf(client[k] # "free")' = IF k = i THEN 1 ELSE OneIf(client[k] # "free")
    BY <1>2 DEF OneIf, TypeOK, ClientTypeOK
  <2>7. k = i => OneIf(client[k] # "free") = 0
    BY <1>2 DEF OneIf
  <2> HIDE DEF a, b, c, d, e
  <2>8. Tally(k)' = (a + OneIf(k = i)) + b + c + d + e
    BY <2>2, <2>3, <2>4
  <2>9. Tally(k)' = Tally(k) + OneIf(k = i)
    BY <2>1, <2>4, <2>8 DEF OneIf
  <2> QED
    BY <2>5, <2>6, <2>7, <2>9 DEF OneIf
<1> QED
  BY <1>6, <1>7, <1>8, <1>9 DEF Others

\* The client sends a frame that asks for no answer, or for a pong.
LEMMA SmallFrameSane ==
  ASSUME TypeOK, Sane, UNCHANGED <<client, rx, eof, pc, job, mvars, tvars, ovars>>,
         NEW f \in InFrames, f.type \in {"ack", "ping"},
         inbox' = inbox \/ inbox' = Append(inbox, f)
  PROVE  Others' /\ OutInv'
<1>1. UNCHANGED <<frame, idx, status, box, cancelled, todo>> /\ Unread' = Unread
  BY UnreadSame DEF mvars, tvars, ovars
<1>2. PairInv' /\ \A i : Count(inbox, Requested(i))' = Count(inbox, Requested(i))
  <2>1. CASE inbox' = inbox
    BY <1>1, <2>1 DEF Sane, PairInv, Before, Requested
  <2>2. CASE inbox' = Append(inbox, f)
    BY <1>1, <2>2, PairAppend DEF Sane
  <2> QED
    BY <2>1, <2>2
<1>3. EndInv'
  BY <1>1 DEF Sane, EndInv
<1>4. TableInv' /\ JobInv' /\ OutInv'
  BY <1>1, ClientOut, ClientTable DEF Sane
<1>5. TallyInv'
  <2> SUFFICES ASSUME NEW i \in Ids PROVE Tally(i)' = Tally(i)
    BY DEF Sane, TallyInv
  <2>1. /\ OneIf(InHand(i))' = OneIf(InHand(i)) /\ OneIf(TaskWorks(i))' = OneIf(TaskWorks(i))
        /\ OneIf(MainWorks(i))' = OneIf(MainWorks(i))
        /\ Count(Unread, Of({"result"}, {i}))' = Count(Unread, Of({"result"}, {i}))
    BY <1>1 DEF InHand, TaskWorks, MainWorks, MainServes
  <2> QED
    BY <1>2, <2>1 DEF Tally
<1> QED
  BY <1>2, <1>3, <1>4, <1>5 DEF Others

LEMMA CloseSane ==
  ASSUME TypeOK, Sane, Close, UNCHANGED <<pc, job, mvars, tvars, ovars>>
  PROVE  Others' /\ OutInv'
<1>1. /\ UNCHANGED <<frame, idx, status, box, cancelled, todo, client, rx, inbox>> /\ Unread' = Unread
      /\ eof'
  BY UnreadSame DEF mvars, tvars, ovars, Close, cvars
<1>2. rx # Broken
  BY DEF Sane, OutInv, FrameInv, Whole
<1>3. EndInv'
  BY <1>1, <1>2 DEF Sane, EndInv, Close
<1>4. PairInv'
  BY <1>1 DEF Sane, PairInv, Before
<1>5. TableInv' /\ JobInv' /\ OutInv'
  BY <1>1, ClientOut, ClientTable DEF Sane
<1>6. TallyInv'
  <2> SUFFICES ASSUME NEW i \in Ids PROVE Tally(i)' = Tally(i)
    BY <1>1 DEF Sane, TallyInv
  <2> QED
    BY <1>1, TallySame DEF InHand, TaskWorks, MainWorks, MainServes
<1> QED
  BY <1>3, <1>4, <1>5, <1>6 DEF Others

LEMMA ReceiveSane ==
  ASSUME TypeOK, Sane, Receive
  PROVE  Others' /\ OutInv'
<1> DEFINE p == Unread[1]
<1>1. /\ OutInv' /\ Unread # <<>> /\ Unread' = Tail(Unread) /\ Head(Unread) = p /\ p \in Pieces
      /\ (ReceiveBody(p) \/ ReceiveFrame(p)) /\ Unread \in Seq(Pieces)
  BY ReceiveOut, OutputFacts DEF Sane
<1>2. UNCHANGED <<inbox, eof, pc, job, frame, idx, status, box, cancelled, todo, mvars, tvars>>
  BY DEF Receive, mvars, tvars, ivars
<1>3. client' = IF p.kind = "result" THEN [client EXCEPT ![p.id] = "free"] ELSE client
  BY <1>1 DEF ReceiveBody, ReceiveFrame
<1> HIDE DEF p
<1>4. client \in [Ids -> {"free", "open", "cancelling"}] /\ p.id \in Ids
  BY <1>1 DEF TypeOK, ClientTypeOK, Pieces
<1>5. EndInv'
  <2>1. \A i \in Ids : client[i] = "free" => client'[i] = "free"
    BY <1>3, <1>4
  <2> QED
    BY <1>2, <2>1 DEF Sane, EndInv
<1>6. PairInv'
  BY <1>2 DEF Sane, PairInv, Before
<1>7. TableInv' /\ JobInv'
  BY <1>2, ClientTable DEF Sane
<1>8. TallyInv'
  <2> SUFFICES ASSUME NEW i \in Ids PROVE Tally(i)' = OneIf(client[i] # "free")'
    BY DEF TallyInv
  <2> DEFINE a == Count(inbox, Requested(i))
             b == OneIf(InHand(i))
             c == OneIf(TaskWorks(i))
             d == OneIf(MainWorks(i))
             e == Count(Unread, Of({"result"}, {i}))
             x == OneIf(p.kind = "result" /\ p.id = i)
  <2>1. a \in Nat /\ b \in {0, 1} /\ c \in {0, 1} /\ d \in {0, 1} /\ e \in Nat /\ x \in {0, 1}
    BY TallyTypes DEF OneIf
  <2>2. a' = a /\ b' = b /\ c' = c /\ d' = d
    BY <1>2 DEF InHand, TaskWorks, MainWorks, MainServes, Requested
  <2>3. e = x + e' /\ e' = Count(Tail(Unread), Of({"result"}, {i}))
    <3>1. p \in Of({"result"}, {i}) <=> p.kind = "result" /\ p.id = i
      BY <1>1, OfPiece
    <3>2. e = OneIf(p \in Of({"result"}, {i})) + Count(Tail(Unread), Of({"result"}, {i}))
      BY <1>1, CountTail
    <3> QED
      BY <1>1, <3>1, <3>2
  <2>4. Tally(i) = a + b + c + d + e /\ Tally(i)' = a' + b' + c' + d' + e'
    BY DEF Tally
  <2> DEFINE m == e'
             o == OneIf(client[i] # "free")
  <2>5. m \in Nat
    <3>1. Tail(Unread) \in Seq(Pieces)
      BY <1>1, HeadTailProperties
    <3> QED
      BY <2>3, <3>1, CountType
  <2>6. o' = IF x = 1 THEN 0 ELSE o
    BY <1>3, <1>4 DEF OneIf
  <2>7. Tally(i) = o /\ o \in {0, 1}
    BY DEF Sane, TallyInv, OneIf
  <2>8. Tally(i)' = a + b + c + d + m /\ e = x + m
    BY <2>2, <2>3, <2>4
  <2> HIDE DEF a, b, c, d, e, x, m, o
  <2>9. Tally(i)' = IF x = 1 THEN 0 ELSE o
    BY <2>1, <2>4, <2>5, <2>7, <2>8
  <2> QED
    BY <2>6, <2>9 DEF o
<1> QED
  BY <1>1, <1>5, <1>6, <1>7, <1>8 DEF Others

----------------------------------------------------------------------------
(* The invariant holds.                                                    *)

LEMMA InitSane == Init => SInv
<1> SUFFICES ASSUME Init PROVE Others /\ OutInv
  BY DEF SInv, OutInv, Others
<1>0. Main \notin Ids /\ Nobody \notin Threads /\ 0 \in Ids
  BY SessionAssumption
<1>1. /\ pc[Main] = "idle" /\ \A i \in Ids : pc[i] = "none" /\ box[i] = "none" /\ ~cancelled[i] /\ client[i] = "free"
      /\ \A t \in Threads : pc[t] # "output" /\ job[t] = "none"
      /\ frame.type = "ping" /\ inbox = <<>> /\ ~eof /\ status = "none" /\ rx = None
      /\ lock = Nobody /\ todo = <<>> /\ queue = <<>> /\ sent = 0 /\ pipe = <<>>
  BY <1>0 DEF Init, InFrame
<1>2. Unread = <<>>
  <2>1. SubSeq(queue, sent + 1, Len(queue)) = <<>>
    BY <1>1, SubSeqEmpty
  <2> QED
    BY <1>1, <2>1 DEF Unread
<1>3. EndInv /\ JobInv
  BY <1>1 DEF EndInv, JobInv
<1>4. PairInv
  BY <1>1 DEF PairInv, Before
<1>5. TableInv
  BY <1>1 DEF TableInv, Held, Checked
<1>6. TallyInv
  <2> SUFFICES ASSUME NEW i \in Ids PROVE Tally(i) = OneIf(client[i] # "free")
    BY DEF TallyInv
  <2>1. Count(inbox, Requested(i)) = 0 /\ Count(Unread, Of({"result"}, {i})) = 0
    BY <1>1, <1>2, CountEmpty
  <2>2. ~InHand(i) /\ ~TaskWorks(i) /\ ~MainWorks(i)
    BY <1>1 DEF InHand, TaskWorks, MainWorks, MainServes
  <2> QED
    BY <1>1, <2>1, <2>2 DEF Tally, OneIf
<1>7. LockInv /\ FlushInv
  BY <1>0, <1>1 DEF LockInv, FlushInv
<1>8. FrameInv
  <2>1. Awaited = None
    BY <1>1 DEF Awaited, BodyFirst
  <2>2. rx # Broken /\ Len(Unread) = 0
    BY <1>1, <1>2
  <2> QED
    BY <1>1, <2>1, <2>2 DEF FrameInv, Whole, Opens
<1>9. FlushDue /\ ResultLast
  BY <1>1, <1>2 DEF FlushDue, ResultLast
<1> QED
  BY <1>3, <1>4, <1>5, <1>6, <1>7, <1>8, <1>9 DEF Others, OutInv

LEMMA RunningBack ==
  ASSUME TypeOK, [Next]_vars
  PROVE  (rx' # Gone => rx # Gone) /\ (status' = "none" => status = "none")
<1>1. CASE UNCHANGED vars
  BY <1>1 DEF vars, cvars, mvars
<1>2. CASE \E i \in Ids : Task(i)
  <2>1. PICK i \in Ids : Task(i)
    BY <1>2
  <2>2. rx' = rx /\ (status' = status \/ status' = "EPIPE")
    BY <2>1 DEF Task, TaskStep, TaskOpen, TaskRead, TaskTest, TaskMutex, Output, WriteFails, TaskReleases,
                TaskMark, UnwindWrite, LateWrite, TaskWindow, Acquire, cvars, mvars
  <2> QED
    BY <2>2
<1>3. CASE MainThread
  <2>1. rx' = rx
    BY <1>3 DEF MainThread, MainStep, TakeFrame, CheckTask, Handle, Join, Output, WriteFails, MainReleases,
                EndOfInput, TearDownCancel, TearDownClear, Acquire, cvars
  <2>2. CASE Handle
    <3>1. status' = status \/ status' \in {"EEXIST", "ESRCH"}
      BY <2>2 DEF Handle, HandlePing, HandleAck, HandleRequest, HandleMissing, SubmitRead, SubmitSync,
                  HandleCancel, EndWith, mvars
    <3> QED
      BY <2>1, <3>1
  <2>3. CASE ~Handle
    <3>1. status' = status \/ status' \in {"EPIPE", "eof", "ECONNRESET"}
      BY <1>3, <2>3 DEF MainThread, MainStep, TakeFrame, CheckTask, Join, Output, WriteFails, MainReleases,
                        EndOfInput, EndWith, TearDownCancel, TearDownClear, Acquire, mvars
    <3> QED
      BY <2>1, <3>1
  <2> QED
    BY <2>2, <2>3
<1>4. CASE Request \/ Acknowledge
  <2>1. status' = status
    BY <1>4 DEF Request, Acknowledge, mvars
  <2>2. rx' = rx
    BY <1>4 DEF Request, Acknowledge, Ask, Cancel, Ping, Close, SendAck, cvars
  <2> QED
    BY <2>1, <2>2
<1>5. CASE Receive \/ Vanish
  <2>1. status' = status
    BY <1>5 DEF Receive, Vanish, mvars
  <2>2. rx # Gone
    BY <1>5 DEF Receive, Vanish
  <2> QED
    BY <2>1, <2>2
<1> QED
  BY <1>1, <1>2, <1>3, <1>4, <1>5 DEF Next, Exited

LEMMA NextSane ==
  ASSUME TypeOK, Sane, [Next]_vars, Cancels = {}
  PROVE  /\ rx' # Gone => /\ status' \in {"none", "eof"}
                          /\ status' = "eof" => pc'[Main] \in {"teardown", "exited"}
         /\ Running' => Others' /\ OutInv'
<1>0. Others /\ OutInv
  BY DEF Sane, Others
<1>1. ASSUME Others'
      PROVE  status' \in {"none", "eof"} /\ (status' = "eof" => pc'[Main] \in {"teardown", "exited"})
  BY <1>1 DEF Others, EndInv
<1>2. CASE UNCHANGED vars
  <2>1. UNCHANGED <<client, inbox, eof, pc, job, frame, idx, status, box, cancelled, rx, todo>>
        /\ UNCHANGED <<pc, job, mvars, tvars, ovars, cvars>> /\ Unread' = Unread
    BY <1>2, UnreadSame DEF vars, cvars, ivars, mvars, tvars, ovars
  <2>2. EndInv' /\ PairInv'
    BY <1>0, <2>1 DEF Others, EndInv, PairInv, Before
  <2>3. TableInv' /\ JobInv' /\ OutInv'
    BY <1>0, <2>1, ClientOut, ClientTable DEF Others
  <2>4. TallyInv'
    <3> SUFFICES ASSUME NEW i \in Ids PROVE Tally(i)' = Tally(i)
      BY <1>0, <2>1 DEF Others, TallyInv
    <3> QED
      BY <2>1, TallySame DEF InHand, TaskWorks, MainWorks, MainServes
  <2> QED
    BY <1>1, <2>2, <2>3, <2>4 DEF Others
<1>3. CASE \E i \in Ids : Task(i)
  BY <1>1, <1>3, TaskSane
<1>4. CASE MainThread
  BY <1>4, MainSane DEF Running
<1>5. CASE Request
  <2>0. UNCHANGED <<pc, job, mvars, tvars, ovars, inFlight>>
    BY <1>5 DEF Request
  <2>1. CASE \E i \in Ids : \E kind \in Kinds : Ask(i, kind)
    BY <1>1, <2>0, <2>1, AskSane
  <2>2. CASE Ping
    <3>1. InFrame("ping", 0, "none") \in InFrames /\ InFrame("ping", 0, "none").type = "ping"
      BY SessionAssumption DEF InFrame, InFrames
    <3> QED
      BY <1>1, <2>0, <2>2, <3>1, SmallFrameSane DEF Ping
  <2>3. CASE Close
    BY <1>1, <2>0, <2>3, CloseSane
  <2> QED
    BY <1>5, <2>1, <2>2, <2>3 DEF Request, Cancel
<1>6. CASE Acknowledge
  <2>1. InFrame("ack", 0, "none") \in InFrames /\ InFrame("ack", 0, "none").type = "ack"
    BY SessionAssumption DEF InFrame, InFrames
  <2>2. /\ UNCHANGED <<client, rx, eof, pc, job, mvars, tvars, ovars>>
        /\ inbox' = inbox \/ inbox' = Append(inbox, InFrame("ack", 0, "none"))
    BY <1>6 DEF Acknowledge, SendAck
  <2> QED
    BY <1>1, <2>1, <2>2, SmallFrameSane
<1>7. CASE Receive
  BY <1>1, <1>7, ReceiveSane
<1>8. CASE Vanish
  BY <1>8 DEF Vanish, Running
<1> QED
  BY <1>2, <1>3, <1>4, <1>5, <1>6, <1>7, <1>8 DEF Next, Exited

LEMMA NextSInv ==
  ASSUME TypeOK, SInv, [Next]_vars, Cancels = {}
  PROVE  SInv'
<1> SUFFICES ASSUME Running' PROVE Others' /\ OutInv'
  BY DEF SInv, Others, OutInv
<1>1. Running
  BY RunningBack DEF Running
<1> QED
  BY <1>1, NextSane, SaneIs

----------------------------------------------------------------------------
(* What the client, and the code, may rely on.                             *)

\* The invariant that the theorems below follow from: while the session runs, the
\* holder of send_lock is part way through its script, every unanswered request
\* is in exactly one place, and what is unread is a stream of whole frames.
THEOREM InvariantHolds ==
  ASSUME Cancels = {}
  PROVE  Spec => [](TypeOK /\ SInv)
<1>1. Init => TypeOK /\ SInv
  BY InitType, InitSane
<1>2. TypeOK /\ SInv /\ [Next]_vars => (TypeOK /\ SInv)'
  BY NextType, NextSInv
<1> QED
  BY <1>1, <1>2, PTL DEF Spec

SurviveInv ==
  rx # Gone => /\ status \in {"none", "eof"}
               /\ status = "eof" => pc[Main] \in {"teardown", "exited"}

LEMMA EndedStays ==
  ASSUME TypeOK, SurviveInv, [Next]_vars, status = "eof", rx' # Gone
  PROVE  SurviveInv'
<1>1. rx # Gone /\ pc[Main] \in {"teardown", "exited"}
  BY RunningBack DEF SurviveInv
<1> SUFFICES status' = "eof" /\ pc'[Main] \in {"teardown", "exited"}
  BY DEF SurviveInv
<1>2. CASE UNCHANGED <<pc, status>>
  BY <1>1, <1>2
<1>3. CASE \E i \in Ids : Task(i)
  <2>1. PICK i \in Ids : Task(i)
    BY <1>3
  <2>2. status' = status
    BY <1>1, <2>1 DEF Task, TaskStep, TaskOpen, TaskRead, TaskTest, TaskMutex, Output, WriteFails, TaskReleases,
                TaskMark, UnwindWrite, LateWrite, TaskWindow, Acquire, mvars
  <2>3. \/ \E p : pc' = [pc EXCEPT ![i] = p]
        \/ pc' = pc
    BY <1>1, <2>1 DEF Task, TaskStep, TaskOpen, TaskRead, TaskTest, TaskMutex, Output, WriteFails, TaskReleases,
                TaskMark, UnwindWrite, LateWrite, TaskWindow, Acquire, Goto, WantLock
  <2>4. pc'[Main] = pc[Main]
    BY <2>3, MainFacts
  <2> QED
    BY <1>1, <2>2, <2>4
<1>4. CASE MainThread
  <2>1. TearDownCancel \/ TearDownClear
    BY <1>1, <1>4 DEF MainThread, MainStep, TakeFrame, CheckTask, Handle, Join, Output, WriteFails,
                      MainReleases, EndOfInput, Acquire
  <2>2. status' = status /\ pc'[Main] \in {pc[Main], "exited"}
    <3>1. CASE TearDownCancel
      BY <3>1, MainFacts DEF TearDownCancel, Goto, mvars
    <3>2. CASE TearDownClear
      BY <3>2, MainFacts DEF TearDownClear, mvars
    <3> QED
      BY <2>1, <3>1, <3>2
  <2> QED
    BY <1>1, <2>2
<1> QED
  BY <1>2, <1>3, <1>4 DEF Next, Request, Acknowledge, Receive, Vanish, Exited, vars, mvars

LEMMA NextSurvive ==
  ASSUME TypeOK, SInv, SurviveInv, [Next]_vars, Cancels = {}
  PROVE  SurviveInv'
<1> SUFFICES ASSUME rx' # Gone PROVE SurviveInv'
  BY DEF SurviveInv
<1>1. rx # Gone
  BY RunningBack
<1>2. CASE Running
  BY <1>2, NextSane, SaneIs DEF SurviveInv
<1>3. CASE ~Running
  <2>1. status = "eof"
    BY <1>1, <1>3 DEF Running, SurviveInv
  <2> QED
    BY <2>1, EndedStays
<1> QED
  BY <1>2, <1>3

\* A client that cancels nothing, and uses an id again only when it has had its
\* result, never makes frame_handler end the session: check_tasks has emptied a
\* box by the time the next request for it is handled.
THEOREM SessionNeverDropped ==
  ASSUME Cancels = {}
  PROVE  Spec => []SessionSurvives
<1>1. Init => SurviveInv
  BY SessionAssumption DEF Init, SurviveInv
<1>2. TypeOK /\ SInv /\ SurviveInv /\ [Next]_vars => SurviveInv'
  BY NextSurvive
<1>3. SurviveInv => SessionSurvives
  BY DEF SurviveInv, SessionSurvives
<1> QED
  BY <1>1, <1>2, <1>3, InvariantHolds, PTL DEF Spec

LEMMA WholeUnbroken == ASSUME TypeOK, FrameInv PROVE FramesUnbroken
<1> DEFINE r == SubSeq(queue, sent + 1, Len(queue))
<1>1. /\ pipe \in Seq(Pieces) /\ r \in Seq(Pieces) /\ Len(pipe) \in Nat /\ Len(r) \in Nat
      /\ Len(Unread) = Len(pipe) + Len(r)
      /\ \A k \in 1 .. Len(pipe) + Len(r) : Unread[k] = IF k <= Len(pipe) THEN pipe[k] ELSE r[k - Len(pipe)]
  <2>1. pipe \in Seq(Pieces) /\ r \in Seq(Pieces)
    BY OutputFacts
  <2> QED
    BY <2>1, ConcatProperties, LenProperties DEF Unread
<1> HIDE DEF r
<1>2. \A k \in 1 .. Len(pipe) : k \in 1 .. Len(Unread) /\ Unread[k] = pipe[k]
  BY <1>1
<1>3. ASSUME NEW k \in 1 .. Len(pipe)
      PROVE  LET open == IF k = 1 THEN rx ELSE IF pipe[k-1].kind = "head" THEN pipe[k-1].id ELSE None
             IN  IF pipe[k].kind = "body" THEN open = pipe[k].id ELSE open = None
  <2>1. k = 1 \/ k - 1 \in 1 .. Len(pipe)
    BY <1>1
  <2>2. Opens(Unread, rx, k) = IF k = 1 THEN rx ELSE IF pipe[k-1].kind = "head" THEN pipe[k-1].id ELSE None
    BY <1>2, <2>1 DEF Opens
  <2> QED
    BY <1>2, <2>2 DEF FrameInv, Whole
<1> QED
  BY <1>3 DEF FramesUnbroken, FrameInv, Whole

\* While the session runs, whatever the client does but cancel: "A single message
\* frame must be sent unbroken by other data" (NOTES/protocol.md), although the
\* head and the body of one go through the queue, or past it, by separate
\* writes of threads that take turns; and nothing waits in the queue for a flush
\* that nobody is about to make.
THEOREM StreamWhileRunning ==
  ASSUME Cancels = {}
  PROVE  Spec => [](Running => FramesUnbroken /\ NothingStranded)
<1>1. TypeOK /\ SInv => (Running => FramesUnbroken /\ NothingStranded)
  <2> SUFFICES ASSUME TypeOK, SInv, Running PROVE FramesUnbroken /\ NothingStranded
    OBVIOUS
  <2>1. NothingStranded
    BY DEF SInv, FlushDue, LockInv, NothingStranded
  <2> QED
    BY <2>1, WholeUnbroken DEF SInv
<1> QED
  BY <1>1, InvariantHolds, PTL

GoneInv == (rx = Gone => pipe = <<>>) /\ (rx = Gone => Vanishes)

LEMMA NextGone ==
  ASSUME TypeOK, GoneInv, [Next]_vars
  PROVE  GoneInv'
<1>0. \A i \in Ids : i # Gone
  BY SessionAssumption
<1>1. CASE UNCHANGED vars
  BY <1>1 DEF vars, cvars, ovars, GoneInv
<1>2. CASE (\E t \in Threads : Output(t)) \/ (\E i \in Ids : LateWrite(i))
  BY <1>2 DEF Output, Add, AddFlushes, FlushNothing, Write, LateWrite, WriteOnce, cvars, GoneInv
<1>3. CASE (\E i \in Ids : Task(i) /\ ~Output(i) /\ ~LateWrite(i)) \/ (MainThread /\ ~Output(Main))
  <2>1. UNCHANGED <<rx, pipe>>
    BY <1>3 DEF Task, TaskStep, TaskOpen, TaskRead, TaskTest, TaskMutex, WriteFails, TaskReleases,
                TaskMark, UnwindWrite, TaskWindow, Acquire, Unlock, MainThread, MainStep,
                TakeFrame, CheckTask, Handle, Join, MainReleases, EndOfInput, TearDownCancel, TearDownClear,
                cvars, ovars
  <2> QED
    BY <2>1 DEF GoneInv
<1>4. CASE Request \/ Acknowledge
  <2>1. UNCHANGED <<rx, pipe>>
    BY <1>4 DEF Request, Acknowledge, Ask, Cancel, Ping, Close, SendAck, cvars, ovars
  <2> QED
    BY <2>1 DEF GoneInv
<1>5. CASE Receive
  <2>1. rx' # Gone
    <3>1. Head(pipe) \in Pieces
      BY <1>5, UnreadReceive DEF Receive
    <3> QED
      BY <1>0, <1>5, <3>1 DEF Receive, ReceiveBody, ReceiveFrame, ReceiveJunk, Pieces
  <2> QED
    BY <2>1 DEF GoneInv
<1>6. CASE Vanish
  BY <1>6 DEF Vanish, GoneInv
<1> QED
  BY <1>1, <1>2, <1>3, <1>4, <1>5, <1>6 DEF Next, Exited

LEMMA GoneHolds == Spec => []GoneInv
<1>1. Init => GoneInv
  BY DEF Init, GoneInv
<1>2. TypeOK /\ GoneInv /\ [Next]_vars => GoneInv'
  BY NextGone
<1> QED
  BY <1>1, <1>2, TypeCorrect, PTL DEF Spec

\* A client that cancels nothing and waits for its answers reads unbroken frames,
\* even if it vanishes.
THEOREM FramesStayUnbroken ==
  ASSUME Cancels = {}, ~HalfCloses
  PROVE  Spec => []FramesUnbroken
<1>1. GoneInv /\ rx = Gone => FramesUnbroken
  BY DEF GoneInv, FramesUnbroken
<1>2. GoneInv /\ (Running => FramesUnbroken /\ NothingStranded) => FramesUnbroken
  BY <1>1 DEF Running
<1> QED
  BY <1>2, GoneHolds, StreamWhileRunning, PTL

\* A result, data or a pong never stays in the queue when the thread that put it
\* there has released send_lock.
THEOREM NothingLeftBehind ==
  ASSUME Cancels = {}, ~HalfCloses, ~Vanishes
  PROVE  Spec => []NothingStranded
<1>1. GoneInv /\ (Running => FramesUnbroken /\ NothingStranded) => NothingStranded
  BY DEF GoneInv, Running
<1> QED
  BY <1>1, GoneHolds, StreamWhileRunning, PTL

----------------------------------------------------------------------------
(* The session implements Requests.                                        *)

Results(i) == Count(Unread, Of({"result"}, {i}))
Bodies(i)  == Count(Unread, Of({"body"}, {i}))

LEMMA PhaseIs ==
  /\ Phase = [i \in Ids |-> IF client[i] = "free" THEN "free"
                            ELSE IF Results(i) = 0 THEN "waiting" ELSE "answered"]
  /\ Coming = [i \in Ids |-> Bodies(i)]
BY DEF Phase, Coming, Results, Bodies

LEMMA PhaseNext ==
  /\ Phase' = [i \in Ids |-> IF client'[i] = "free" THEN "free"
                             ELSE IF Results(i)' = 0 THEN "waiting" ELSE "answered"]
  /\ Coming' = [i \in Ids |-> Bodies(i)']
BY DEF Phase, Coming, Results, Bodies

LEMMA CountsSame ==
  ASSUME Unread' = Unread
  PROVE  Coming' = Coming /\ (client' = client => Phase' = Phase)
BY DEF Phase, Coming

\* The pieces that a thread adds to what is unread.
LEMMA OutputGives ==
  ASSUME TypeOK, Sane, NEW t \in Threads, Output(t)
  PROVE  R!RNext \/ UNCHANGED <<Phase, Coming>>
<1> DEFINE i == IdOf(t)
<1>0. lock = t /\ todo # <<>> /\ i \in Ids /\ client' = client /\ pc[t] = "output" /\ Unread \in Seq(Pieces)
  BY OutputCases, HolderNext, OutputFacts DEF Sane, OutInv, cvars, Output
<1>1. ASSUME Unread' = Unread PROVE R!RNext \/ UNCHANGED <<Phase, Coming>>
  BY <1>0, <1>1, CountsSame
<1>2. ASSUME NEW x \in Pieces, Unread' = Append(Unread, x)
      PROVE  \A k \in Ids : /\ Results(k)' = IF x.kind = "result" /\ x.id = k THEN Results(k) + 1 ELSE Results(k)
                            /\ Bodies(k)' = IF x.kind = "body" /\ x.id = k THEN Bodies(k) + 1 ELSE Bodies(k)
                            /\ Results(k) \in Nat /\ Bodies(k) \in Nat
  <2> SUFFICES ASSUME NEW k \in Ids
               PROVE  /\ Results(k)' = IF x.kind = "result" /\ x.id = k THEN Results(k) + 1 ELSE Results(k)
                      /\ Bodies(k)' = IF x.kind = "body" /\ x.id = k THEN Bodies(k) + 1 ELSE Bodies(k)
                      /\ Results(k) \in Nat /\ Bodies(k) \in Nat
    OBVIOUS
  <2>1. /\ Count(Append(Unread, x), Of({"result"}, {k})) = Results(k) + OneIf(x \in Of({"result"}, {k}))
        /\ Count(Append(Unread, x), Of({"body"}, {k})) = Bodies(k) + OneIf(x \in Of({"body"}, {k}))
    BY <1>0, CountAppend DEF Results, Bodies
  <2>10. Results(k) \in Nat /\ Bodies(k) \in Nat
    BY <1>0, CountType DEF Results, Bodies
  <2>11. /\ Results(k)' = Count(Append(Unread, x), Of({"result"}, {k}))
         /\ Bodies(k)' = Count(Append(Unread, x), Of({"body"}, {k}))
    BY <1>2 DEF Results, Bodies
  <2>2. /\ x \in Of({"result"}, {k}) <=> x.kind = "result" /\ x.id = k
        /\ x \in Of({"body"}, {k}) <=> x.kind = "body" /\ x.id = k
    BY OfPiece
  <2> QED
    BY <2>1, <2>2, <2>10, <2>11 DEF OneIf
<1>3. ASSUME NEW x \in Pieces, Unread' = Append(Unread, x), x.kind \notin {"body", "result"}
      PROVE  R!RNext \/ UNCHANGED <<Phase, Coming>>
  <2>1. \A k \in Ids : Results(k)' = Results(k) /\ Bodies(k)' = Bodies(k)
    BY <1>2, <1>3
  <2> QED
    BY <1>0, <2>1, PhaseIs, PhaseNext
<1>4. ASSUME TaskWorks(i) \/ MainWorks(i) PROVE client[i] # "free" /\ Results(i) = 0
  BY <1>0, <1>4, TallyOnce DEF Sane, Results
<1>5. ASSUME NEW x \in Pieces, Unread' = Append(Unread, x), x.kind = "body", x.id = i,
             job[t] \in {"data", "slurp"}
      PROVE  R!RNext
  <2>1. TaskWorks(i)
    BY <1>0, <1>5 DEF Sane, JobInv, TaskWorks, IdOf
  <2>2. client[i] # "free" /\ Results(i) = 0
    BY <1>4, <2>1
  <2>3. \A k \in Ids : Results(k)' = Results(k) /\ Bodies(k)' = IF k = i THEN Bodies(k) + 1 ELSE Bodies(k)
    BY <1>2, <1>5
  <2>4. Phase[i] = "waiting" /\ Phase' = Phase
    BY <1>0, <2>2, <2>3, PhaseIs, PhaseNext
  <2>5. Coming' = [k \in Ids |-> IF k = i THEN Bodies(k) + 1 ELSE Bodies(k)]
    BY <2>3, PhaseIs, PhaseNext
  <2> HIDE DEF i
  <2>6. Coming' = [Coming EXCEPT ![i] = @ + 1]
    BY <1>0, <2>5, PhaseIs
  <2> QED
    BY <1>0, <2>4, <2>6 DEF R!RNext, R!Give
<1>6. ASSUME NEW x \in Pieces, Unread' = Append(Unread, x), x.kind = "result", x.id = i,
             job[t] = "result", Len(todo) > 1
      PROVE  R!RNext
  <2>1. TaskWorks(i) \/ MainWorks(i)
    BY <1>0, <1>6 DEF TaskWorks, MainWorks, MainServes, IdOf
  <2>2. client[i] # "free" /\ Results(i) = 0
    BY <1>4, <2>1
  <2>3. \A k \in Ids : Bodies(k)' = Bodies(k) /\ Results(k)' = IF k = i THEN 1 ELSE Results(k)
    BY <1>2, <1>6, <2>2
  <2>4. Phase[i] = "waiting" /\ Coming' = Coming
    BY <1>0, <2>2, <2>3, PhaseIs, PhaseNext
  <2>5. Phase' = [k \in Ids |-> IF client[k] = "free" THEN "free"
                                ELSE IF (IF k = i THEN 1 ELSE Results(k)) = 0 THEN "waiting" ELSE "answered"]
    BY <1>0, <2>3, PhaseIs, PhaseNext
  <2> HIDE DEF i
  <2>6. ASSUME NEW k \in Ids PROVE Phase'[k] = IF k = i THEN "answered" ELSE Phase[k]
    <3>1. CASE k = i
      BY <2>2, <2>5, <3>1
    <3>2. CASE k # i
      BY <2>5, <3>2, PhaseIs
    <3> QED
      BY <3>1, <3>2
  <2>7. Phase' = [Phase EXCEPT ![i] = "answered"]
    BY <1>0, <2>5, <2>6, PhaseIs
  <2> QED
    BY <1>0, <2>4, <2>7 DEF R!RNext, R!Answer
<1>7. CASE Add /\ Head(todo) \in Pieces /\ Head(todo).kind # "flush" /\ sent = 0
  <2>1. Unread' = Append(Unread, Head(todo))
    BY <1>7, UnreadAdd
  <2>2. todo \in Rest(job[t], i)
    BY <1>0, <1>7, HolderNext, PieceParts DEF Sane, OutInv
  <2>3. CASE Head(todo).kind = "body"
    <3>1. Head(todo).id = i /\ job[t] \in {"data", "slurp"}
      BY <1>0, <2>2, <2>3, RestStep, PieceParts
    <3> QED
      BY <1>5, <1>7, <2>1, <2>3, <3>1
  <2>4. CASE Head(todo).kind = "result"
    <3>1. Head(todo).id = i /\ job[t] = "result" /\ Len(todo) = 2
      BY <1>0, <2>2, <2>4, RestStep, PieceParts
    <3>2. Len(todo) > 1
      BY <3>1
    <3> QED
      BY <1>6, <1>7, <2>1, <2>4, <3>1, <3>2
  <2> QED
    BY <1>3, <1>7, <2>1, <2>3, <2>4
<1>8. CASE WriteBulk /\ AtWrite /\ Head(todo).kind = "bulk"
  <2>1. todo \in Rest(job[t], i)
    BY <1>0, <1>8, HolderNext, PieceParts DEF Sane, OutInv
  <2>2. Head(todo).id = i /\ job[t] \in {"data", "slurp"}
    BY <1>0, <1>8, <2>1, RestStep, PieceParts
  <2> QED
    BY <1>5, <1>8, <2>2, UnreadBulk, PieceParts
<1>9. CASE AddFlushes \/ FlushNothing
  BY <1>1, <1>9, UnreadSame DEF AddFlushes, FlushNothing
<1>10. CASE WriteQueued /\ AtWrite
  BY <1>1, <1>10, UnreadFlush
<1> QED
  BY <1>7, <1>8, <1>9, <1>10, OutputCases DEF Sane, OutInv

\* The client reads a body, or a result: the data of a request is all read.
LEMMA ReceiveTakes ==
  ASSUME TypeOK, Sane, Receive
  PROVE  R!RNext \/ UNCHANGED <<Phase, Coming>>
<1> DEFINE p == Unread[1]
           i == p.id
<1>1. /\ Unread # <<>> /\ Unread' = Tail(Unread) /\ Head(Unread) = p /\ p \in Pieces
      /\ (ReceiveBody(p) \/ ReceiveFrame(p)) /\ Unread \in Seq(Pieces)
  BY ReceiveOut, OutputFacts DEF Sane
<1>2. client' = IF p.kind = "result" THEN [client EXCEPT ![p.id] = "free"] ELSE client
  BY <1>1 DEF ReceiveBody, ReceiveFrame
<1>3. i \in Ids /\ client \in [Ids -> {"free", "open", "cancelling"}]
  BY <1>1 DEF Pieces, TypeOK, ClientTypeOK
<1>4. ASSUME NEW k \in Ids
      PROVE  /\ Results(k) = Results(k)' + (IF p.kind = "result" /\ p.id = k THEN 1 ELSE 0)
             /\ Bodies(k) = Bodies(k)' + (IF p.kind = "body" /\ p.id = k THEN 1 ELSE 0)
             /\ Results(k)' \in Nat /\ Bodies(k)' \in Nat
  <2>0. Tail(Unread) \in Seq(Pieces)
    BY <1>1, HeadTailProperties
  <2>1. /\ Results(k) = OneIf(p \in Of({"result"}, {k})) + Count(Tail(Unread), Of({"result"}, {k}))
        /\ Bodies(k) = OneIf(p \in Of({"body"}, {k})) + Count(Tail(Unread), Of({"body"}, {k}))
    BY <1>1, CountTail DEF Results, Bodies
  <2>2. /\ p \in Of({"result"}, {k}) <=> p.kind = "result" /\ p.id = k
        /\ p \in Of({"body"}, {k}) <=> p.kind = "body" /\ p.id = k
    BY <1>1, OfPiece
  <2>3. /\ Count(Tail(Unread), Of({"result"}, {k})) \in Nat
        /\ Count(Tail(Unread), Of({"body"}, {k})) \in Nat
    BY <2>0, CountType
  <2>4. Results(k)' = Count(Tail(Unread), Of({"result"}, {k})) /\ Bodies(k)' = Count(Tail(Unread), Of({"body"}, {k}))
    BY <1>1 DEF Results, Bodies
  <2> DEFINE a == Count(Tail(Unread), Of({"result"}, {k}))
             b == Count(Tail(Unread), Of({"body"}, {k}))
             x == OneIf(p \in Of({"result"}, {k}))
             y == OneIf(p \in Of({"body"}, {k}))
  <2>5. /\ x = IF p.kind = "result" /\ p.id = k THEN 1 ELSE 0
        /\ y = IF p.kind = "body" /\ p.id = k THEN 1 ELSE 0
    BY <2>2 DEF OneIf
  <2> HIDE DEF a, b, x, y, p
  <2>6. Results(k) = x + a /\ Bodies(k) = y + b /\ a \in Nat /\ b \in Nat /\ x \in {0, 1} /\ y \in {0, 1}
    BY <2>1, <2>3, <2>5 DEF a, b, x, y, p
  <2>7. x + a = a + x /\ y + b = b + y
    BY <2>6
  <2> QED
    BY <2>4, <2>5, <2>6, <2>7 DEF a, b
<1> HIDE DEF p
<1>5. CASE p.kind = "body"
  <2>1. \A k \in Ids : Results(k)' = Results(k) /\ Bodies(k)' = IF k = i THEN Bodies(k) - 1 ELSE Bodies(k)
    BY <1>4, <1>5
  <2>2. Bodies(i) > 0
    BY <1>3, <1>4, <1>5
  <2>3. Phase' = Phase /\ Coming[i] > 0
    BY <1>2, <1>3, <1>5, <2>1, <2>2, PhaseIs, PhaseNext
  <2>4. Coming' = [k \in Ids |-> IF k = i THEN Bodies(k) - 1 ELSE Bodies(k)]
    BY <2>1, PhaseIs, PhaseNext
  <2> HIDE DEF i
  <2>5. Coming' = [Coming EXCEPT ![i] = @ - 1]
    BY <1>3, <2>4, PhaseIs
  <2> QED
    BY <1>3, <2>3, <2>5 DEF R!RNext, R!Take
<1>6. CASE p.kind = "result"
  <2>1. \A k \in Ids : Bodies(k)' = Bodies(k) /\ (k # i => Results(k)' = Results(k))
    BY <1>4, <1>6
  <2>2. Results(i) > 0
    BY <1>3, <1>4, <1>6
  <2>3. client[i] # "free"
    BY <1>3, <2>2, TallyOnce DEF Sane, Results
  <2>4. Bodies(i) = 0
    <3>1. ASSUME NEW m \in 1 .. Len(Unread) PROVE Unread[m] \notin Of({"body"}, {i})
      <4>1. CASE m = 1
        BY <1>6, <4>1 DEF Of, p
      <4>2. CASE m # 1
        <5>1. 1 \in 1 .. Len(Unread) /\ 1 < m
          BY <4>2
        <5>2. Unread[m].kind = "body" => Unread[m].id # i
          BY <1>6, <5>1 DEF Sane, OutInv, ResultLast, p
        <5> QED
          BY <5>2 DEF Of
      <4> QED
        BY <4>1, <4>2
    <3> QED
      BY <1>1, <3>1, CountType DEF Bodies
  <2>5. Phase[i] = "answered" /\ Coming[i] = 0 /\ Coming' = Coming
    BY <1>3, <2>1, <2>2, <2>3, <2>4, PhaseIs, PhaseNext
  <2>6. client' = [client EXCEPT ![i] = "free"]
    BY <1>2, <1>6
  <2> HIDE DEF i
  <2>7. \A k \in Ids : client'[k] = IF k = i THEN "free" ELSE client[k]
    BY <1>3, <2>6
  <2>8. Phase' = [k \in Ids |-> IF client'[k] = "free" THEN "free"
                                ELSE IF Results(k)' = 0 THEN "waiting" ELSE "answered"]
    BY PhaseIs, PhaseNext
  <2>9. \A k \in Ids : Phase'[k] = IF k = i THEN "free" ELSE Phase[k]
    BY <2>1, <2>7, <2>8, PhaseIs
  <2>10. Phase' = [Phase EXCEPT ![i] = "free"]
    BY <1>3, <2>8, <2>9, PhaseIs
  <2> QED
    BY <1>3, <2>5, <2>10 DEF R!RNext, R!Accept
<1>7. CASE p.kind \notin {"body", "result"}
  <2>1. \A k \in Ids : Results(k)' = Results(k) /\ Bodies(k)' = Bodies(k)
    BY <1>4, <1>7
  <2> QED
    BY <1>2, <1>7, <2>1, PhaseIs, PhaseNext
<1> QED
  BY <1>5, <1>6, <1>7

LEMMA AskAsks ==
  ASSUME TypeOK, Sane, NEW i \in Ids, NEW kind, Ask(i, kind), UNCHANGED ovars
  PROVE  R!RNext
<1>1. /\ client[i] = "free" /\ client' = [client EXCEPT ![i] = "open"] /\ Unread' = Unread
      /\ client \in [Ids -> {"free", "open", "cancelling"}]
  BY UnreadSame DEF Ask, ovars, TypeOK, ClientTypeOK
<1>2. Results(i) = 0
  BY <1>1, TallyOnce DEF Sane, Results
<1>3. \A k \in Ids : Results(k)' = Results(k) /\ client'[k] = IF k = i THEN "open" ELSE client[k]
  BY <1>1 DEF Results
<1>4. Phase' = [k \in Ids |-> IF client'[k] = "free" THEN "free"
                              ELSE IF Results(k)' = 0 THEN "waiting" ELSE "answered"]
  BY PhaseIs, PhaseNext
<1>5. \A k \in Ids : Phase'[k] = IF k = i THEN "waiting" ELSE Phase[k]
  BY <1>2, <1>3, <1>4, PhaseIs
<1>6. Phase' = [Phase EXCEPT ![i] = "waiting"]
  BY <1>4, <1>5, PhaseIs
<1>7. Phase[i] = "free" /\ Coming' = Coming
  BY <1>1, CountsSame, PhaseIs
<1> QED
  BY <1>6, <1>7 DEF R!RNext, R!Ask

LEMMA NextKeeps ==
  ASSUME TypeOK, Sane, [Next]_vars, Cancels = {}, rx' # Gone
  PROVE  R!RNext \/ UNCHANGED <<Phase, Coming>>
<1>1. ASSUME UNCHANGED <<client, queue, sent, pipe>> PROVE UNCHANGED <<Phase, Coming>>
  BY <1>1, UnreadSame, CountsSame
<1>2. CASE UNCHANGED vars
  BY <1>1, <1>2 DEF vars, cvars, ovars
<1>3. CASE \E t \in Threads : Output(t)
  BY <1>3, OutputGives
<1>4. CASE \E i \in Ids : Task(i) /\ ~Output(i)
  <2>1. PICK i \in Ids : Task(i) /\ ~Output(i)
    BY <1>4
  <2>2. ~UnwindWrite(i) /\ ~LateWrite(i) /\ ~WriteFails(i)
    BY NoUnwind, NoError
  <2>3. UNCHANGED <<client, queue, sent, pipe>>
    BY <2>1, <2>2 DEF Task, TaskStep, TaskOpen, TaskRead, TaskTest, TaskMutex, TaskReleases, TaskMark,
                TaskWindow, Acquire, Unlock, cvars, ovars
  <2> QED
    BY <1>1, <2>3
<1>5. CASE MainThread /\ ~Output(Main)
  <2>1. ~WriteFails(Main)
    BY NoError
  <2>2. UNCHANGED <<client, queue, sent, pipe>>
    BY <1>5, <2>1 DEF MainThread, MainStep, TakeFrame, CheckTask, Handle, Join, MainReleases, EndOfInput,
                      TearDownCancel, TearDownClear, Acquire, Unlock, cvars, ovars
  <2> QED
    BY <1>1, <2>2
<1>6. CASE Request
  <2>1. CASE \E i \in Ids : \E kind \in Kinds : Ask(i, kind)
    BY <1>6, <2>1, AskAsks DEF Request
  <2>2. CASE Ping \/ Close
    <3>1. UNCHANGED <<client, queue, sent, pipe>>
      BY <1>6, <2>2 DEF Request, Ping, Close, cvars, ovars
    <3> QED
      BY <1>1, <3>1
  <2> QED
    BY <1>6, <2>1, <2>2 DEF Request, Cancel
<1>7. CASE Acknowledge
  <2>1. UNCHANGED <<client, queue, sent, pipe>>
    BY <1>7 DEF Acknowledge, SendAck, ovars
  <2> QED
    BY <1>1, <2>1
<1>8. CASE Receive
  BY <1>8, ReceiveTakes
<1>9. CASE Vanish
  BY <1>9 DEF Vanish
<1> QED
  BY <1>2, <1>3, <1>4, <1>5, <1>6, <1>7, <1>8, <1>9 DEF Next, Exited

\* "Either way, an end-of-message or error frame indicates that processing of the
\* request is complete and the sender is free to reuse the ID for another
\* request" (NOTES/protocol.md): the threads that share the queue implement
\* Requests, for a client that stays and cancels nothing.
THEOREM SessionKeepsPromise ==
  ASSUME Cancels = {}, ~HalfCloses, ~Vanishes
  PROVE  Spec => KeepsPromise
<1>1. Init => R!RInit
  <2> SUFFICES ASSUME Init PROVE R!RInit
    OBVIOUS
  <2>1. Unread = <<>> /\ client = [i \in Ids |-> "free"]
    <3>1. queue = <<>> /\ sent = 0 /\ pipe = <<>>
      BY DEF Init
    <3>2. SubSeq(queue, sent + 1, Len(queue)) = <<>>
      BY <3>1, SubSeqEmpty
    <3> QED
      BY <3>1, <3>2 DEF Unread, Init
  <2>2. \A i \in Ids : Results(i) = 0 /\ Bodies(i) = 0
    BY <2>1, CountEmpty DEF Results, Bodies
  <2> QED
    BY <2>1, <2>2, PhaseIs DEF R!RInit
<1>2. TypeOK /\ SInv /\ GoneInv /\ GoneInv' /\ [Next]_vars => [R!RNext]_(R!avars)
  <2> SUFFICES ASSUME TypeOK, SInv, GoneInv, GoneInv', [Next]_vars
               PROVE  R!RNext \/ UNCHANGED <<Phase, Coming>>
    BY DEF R!avars
  <2>1. rx # Gone /\ rx' # Gone
    BY DEF GoneInv
  <2>2. Sane
    BY <2>1, SaneIs DEF Running
  <2> QED
    BY <2>1, <2>2, NextKeeps
<1> QED
  BY <1>1, <1>2, InvariantHolds, GoneHolds, PTL DEF Spec, KeepsPromise, R!RSpec

----------------------------------------------------------------------------
(* The window of data in flight.                                           *)

Holding   == {i \in Ids : pc[i] = "acquire" /\ job[i] \in {"data", "slurp"}}
AckFrame  == {InFrame("ack", 0, "none")}
AckInHand == pc[Main] \in {"check", "handle"} /\ frame \in AckFrame

\* Where a data frame that is counted may be: with a task that waits for
\* send_lock, in a script, on its way, in the client's handler, and as an ack on
\* its way back or in the main thread's hands.
InTasks  == Cardinality(Holding)
InScript == Count(todo, Of({"body", "bulk"}, Ids))
OnWay    == Count(Unread, Of({"body"}, Ids))
AtClient == OneIf(ackDue)
InAcks   == Count(inbox, AckFrame)
AtMain   == OneIf(AckInHand)

Used == InTasks + InScript + OnWay + AtClient + InAcks + AtMain

\* The client acknowledges all it reads before it shuts down its side, as it then
\* has all its answers, and an answer comes after the data.
AcksOnly(s) == \A k \in 1 .. Len(s) : s[k].type = "ack" => s[k] \in AckFrame

AckInv ==
  /\ frame.type = "ack" => frame \in AckFrame
  /\ AcksOnly(inbox)
  /\ eof => ~ackDue
  /\ \A i \in Ids : client[i] = "free" => Bodies(i) = 0

WindowInv == Window # 0 => inFlight = Used /\ inFlight <= Window

LEMMA UsedTypes ==
  ASSUME TypeOK
  PROVE  /\ IsFiniteSet(Holding) /\ InTasks \in Nat /\ InScript \in Nat /\ OnWay \in Nat
         /\ AtClient \in {0, 1} /\ InAcks \in Nat /\ AtMain \in {0, 1}
<1>1. IsFiniteSet(Ids)
  BY FS_Interval, SessionAssumption
<1>2. IsFiniteSet(Holding)
  BY <1>1, FS_Subset DEF Holding
<1>3. todo \in Seq(Steps) /\ inbox \in Seq(InFrames) /\ Unread \in Seq(Pieces)
  BY OutputFacts DEF TypeOK, OutputTypeOK, InputTypeOK
<1> QED
  BY <1>2, <1>3, FS_CardinalityType, CountType
  DEF InTasks, InScript, OnWay, AtClient, InAcks, AtMain, OneIf

LEMMA UsedNext ==
  ASSUME NEW h, NEW t, NEW u, NEW a, NEW c, NEW d,
         InTasks' = h, InScript' = t, OnWay' = u, AtClient' = a, InAcks' = c, AtMain' = d
  PROVE  Used' = h + t + u + a + c + d
BY DEF Used

\* A script has at most one body.
LEMMA ScriptBodies ==
  ASSUME NEW j, NEW i \in Ids, NEW s \in Script(j, i)
  PROVE  Count(s, Of({"body", "bulk"}, Ids)) = IF j \in {"data", "slurp"} THEN 1 ELSE 0
<1> DEFINE B == Of({"body", "bulk"}, Ids)
<1>0. \A k, m : Piece(k, m) \in B <=> k \in {"body", "bulk"} /\ m \in Ids
  BY DEF Piece, Of
<1>1. Flush \notin B
  BY DEF Flush, Piece, Of
<1>2. s \in Seq(Steps) /\ s \in Rest(j, i)
  BY ScriptType, ScriptStarts
<1>3. \A b \in {"body", "bulk"} :
        /\ Data(i, b) \in Seq(Steps) /\ <<Piece(b, i), Flush>> \in Seq(Steps)
        /\ <<Flush>> \in Seq(Steps)
  <2> SUFFICES ASSUME NEW b \in {"body", "bulk"}
               PROVE  /\ Data(i, b) \in Seq(Steps) /\ <<Piece(b, i), Flush>> \in Seq(Steps)
                      /\ <<Flush>> \in Seq(Steps)
    OBVIOUS
  <2>1. Piece("head", i) \in Steps /\ Piece(b, i) \in Steps /\ Flush \in Steps
    BY SessionAssumption DEF Piece, Flush, Steps, Pieces
  <2> QED
    BY <2>1 DEF Data
<1>4. OneIf(TRUE) = 1 /\ OneIf(FALSE) = 0
  BY DEF OneIf
<1>9. 0 + 0 = 0 /\ 1 + 0 = 1 /\ 0 + 1 = 1
  OBVIOUS
<1> HIDE DEF B
<1>5. ASSUME NEW r \in Seq(Steps), r # <<>> PROVE Count(r, B) = OneIf(Head(r) \in B) + Count(Tail(r), B)
  BY <1>5, CountTail
<1>6. \A b \in {"body", "bulk"} : Count(<<Piece(b, i), Flush>>, B) = 1 /\ Count(Data(i, b), B) = 1
  <2> SUFFICES ASSUME NEW b \in {"body", "bulk"}
               PROVE  Count(<<Piece(b, i), Flush>>, B) = 1 /\ Count(Data(i, b), B) = 1
    OBVIOUS
  <2>1. Count(<<Flush>>, B) = OneIf(FALSE) + Count(<<>>, B)
    <3>1. <<Flush>> # <<>> /\ Head(<<Flush>>) = Flush /\ Tail(<<Flush>>) = <<>>
      BY RestOf
    <3>2. (Flush \in B) = FALSE
      BY <1>1
    <3> QED
      BY <1>3, <1>5, <3>1, <3>2
  <2>2. Count(<<Piece(b, i), Flush>>, B) = OneIf(TRUE) + Count(<<Flush>>, B)
    <3> DEFINE v == <<Piece(b, i), Flush>>
    <3>1. v # <<>> /\ Head(v) = Piece(b, i) /\ Tail(v) = <<Flush>> /\ v \in Seq(Steps)
      BY <1>3, RestOf
    <3>2. (Piece(b, i) \in B) = TRUE
      BY <1>0
    <3> HIDE DEF v
    <3>3. Count(v, B) = OneIf(TRUE) + Count(<<Flush>>, B)
      BY <1>5, <3>1, <3>2
    <3> QED
      BY <3>3 DEF v
  <2>3. Count(Data(i, b), B) = OneIf(FALSE) + Count(<<Piece(b, i), Flush>>, B)
    <3>1. /\ Data(i, b) # <<>> /\ Head(Data(i, b)) = Piece("head", i)
          /\ Tail(Data(i, b)) = <<Piece(b, i), Flush>> /\ Data(i, b) \in Seq(Steps)
      BY <1>3, RestOf
    <3>2. (Piece("head", i) \in B) = FALSE
      BY <1>0
    <3> QED
      BY <1>5, <3>1, <3>2
  <2>4. Count(<<Flush>>, B) = 0
    BY <1>4, <1>9, <2>1, CountEmpty, Zenon
  <2>5. Count(<<Piece(b, i), Flush>>, B) = 1
    BY <1>4, <1>9, <2>2, <2>4, Zenon
  <2>6. Count(Data(i, b), B) = 1
    BY <1>4, <1>9, <2>3, <2>5, Zenon
  <2> QED
    BY <2>5, <2>6
<1>7. CASE s = <<>>
  BY <1>7, CountEmpty, ScriptStarts
<1>8. CASE s # <<>>
  <2>1. Head(s) # Flush /\ Head(s).kind \notin {"body", "bulk"}
    BY <1>8, ScriptStarts
  <2>2. (Head(s) \in B) = FALSE
    <3>1. Head(s) \in B => Head(s).kind \in {"body", "bulk"}
      BY DEF B, Of
    <3> QED
      BY <2>1, <3>1
  <2>3. Count(s, B) = 0 + Count(Tail(s), B)
    BY <1>2, <1>4, <1>5, <1>8, <2>2
  <2>4. /\ j \in {"data", "slurp"} => \E b \in {"body", "bulk"} : Tail(s) \in {Data(i, b), <<Piece(b, i), Flush>>}
        /\ j \notin {"data", "slurp"} => Tail(s) \in {<<>>, <<Flush>>}
    BY <1>2, <1>8, <2>1, RestStep, PieceParts
  <2>5. Count(<<Flush>>, B) = 0
    <3>1. <<Flush>> # <<>> /\ Head(<<Flush>>) = Flush /\ Tail(<<Flush>>) = <<>>
      BY RestOf
    <3>2. (Flush \in B) = FALSE
      BY <1>1
    <3>3. Count(<<Flush>>, B) = OneIf(FALSE) + Count(<<>>, B)
      BY <1>3, <1>5, <3>1, <3>2
    <3> QED
      BY <1>4, <1>9, <3>3, CountEmpty, Zenon
  <2>6. CASE j \in {"data", "slurp"}
    <3>1. Count(Tail(s), B) = 1
      BY <1>6, <2>4, <2>6
    <3> QED
      BY <1>9, <2>3, <2>6, <3>1 DEF B
  <2>7. CASE j \notin {"data", "slurp"}
    <3>1. Count(Tail(s), B) = 0
      BY <2>4, <2>5, <2>7, CountEmpty
    <3> QED
      BY <1>9, <2>3, <2>7, <3>1 DEF B
  <2> QED
    BY <2>6, <2>7
<1> QED
  BY <1>7, <1>8 DEF B

LEMMA HoldingSame ==
  ASSUME \A k \in Ids : (pc'[k] = "acquire" <=> pc[k] = "acquire") /\ (pc[k] = "acquire" => job'[k] = job[k])
  PROVE  InTasks' = InTasks
BY DEF InTasks, Holding

\* A step that moves no data.
LEMMA UsedSame ==
  ASSUME TypeOK, InTasks' = InTasks, InScript' = InScript, Unread' = Unread, ackDue' = ackDue,
         InAcks' = InAcks, AckInHand' <=> AckInHand
  PROVE  Used' = Used
<1>1. OnWay' = OnWay /\ AtClient' = AtClient /\ AtMain' = AtMain
  BY DEF OnWay, AtClient, AtMain, OneIf
<1> QED
  BY <1>1 DEF Used

\* A body goes from the script to the queue, or past it to the pipe.
LEMMA OutputWindow ==
  ASSUME TypeOK, Sane, NEW t \in Threads, Output(t)
  PROVE  Used' = Used
<1> DEFINE S == Of({"body", "bulk"}, Ids)
           W == Of({"body"}, Ids)
<1>0. /\ lock = t /\ todo # <<>> /\ IdOf(t) \in Ids /\ Unread \in Seq(Pieces) /\ todo \in Seq(Steps)
      /\ UNCHANGED <<pc, job, frame, inbox, ackDue>>
      /\ Head(todo) \in Steps /\ Tail(todo) \in Seq(Steps)
  BY OutputCases, HolderNext, OutputFacts, TodoType DEF Sane, OutInv, cvars, ivars, mvars
<1>1. /\ InTasks' = InTasks /\ AtClient' = AtClient /\ InAcks' = InAcks /\ AtMain' = AtMain
      /\ AckInHand' = AckInHand
  BY <1>0, HoldingSame DEF AtClient, InAcks, AtMain, AckInHand, AckFrame
<1>2. /\ InScript = OneIf(Head(todo) \in S) + Count(Tail(todo), S)
      /\ Count(Tail(todo), S) \in Nat /\ InScript \in Nat /\ OnWay \in Nat
  BY <1>0, CountTail, CountType, UsedTypes DEF InScript
<1>3. Flush \notin S
  BY DEF Flush, Piece, Of
<1>4. ASSUME Unread' = Unread, todo' = Tail(todo), Head(todo) = Flush PROVE Used' = Used
  <2>1. OneIf(Head(todo) \in S) = 0
    BY <1>3, <1>4 DEF OneIf
  <2>2. InScript' = Count(Tail(todo), S)
    BY <1>4 DEF InScript
  <2>3. InScript' = InScript
    BY <1>2, <2>1, <2>2
  <2> QED
    BY <1>0, <1>1, <1>4, <2>3, UsedSame
<1>5. ASSUME NEW x \in Pieces, Unread' = Append(Unread, x), todo' = Tail(todo),
             (x \in W) = (Head(todo) \in S)
      PROVE  Used' = Used
  <2> DEFINE y == OneIf(x \in W)
             c == Count(Tail(todo), S)
             o == OnWay
  <2>1. Count(Append(Unread, x), W) = o + y
    BY <1>0, CountAppend DEF OnWay
  <2>2. OnWay' = o + y
    BY <1>5, <2>1 DEF OnWay
  <2>3. InScript' = c /\ InScript = y + c /\ y \in {0, 1}
    BY <1>2, <1>5 DEF InScript, OneIf
  <2>4. Used' = InTasks + c + (o + y) + AtClient + InAcks + AtMain
    BY <1>1, <2>2, <2>3, UsedNext
  <2>5. Used = InTasks + (y + c) + o + AtClient + InAcks + AtMain
    BY <2>3 DEF Used
  <2>6. c \in Nat /\ o \in Nat
    BY <1>2
  <2> HIDE DEF y, c, o
  <2> QED
    BY <2>3, <2>4, <2>5, <2>6, UsedTypes
<1>6. ASSUME NEW x \in Steps PROVE x \in S <=> x.kind \in {"body", "bulk"}
  BY DEF Steps, Pieces, Of
<1>7. ASSUME NEW x \in Pieces PROVE x \in W <=> x.kind = "body"
  BY DEF Pieces, Of
<1>8. CASE Add /\ Head(todo) \in Pieces /\ sent = 0
  <2>1. Unread' = Append(Unread, Head(todo)) /\ todo' = Tail(todo)
    BY <1>8, UnreadAdd DEF Add
  <2>2. Head(todo).kind # "bulk"
    BY <1>8 DEF Pieces
  <2>3. (Head(todo) \in W) = (Head(todo) \in S)
    BY <1>0, <1>6, <1>7, <1>8, <2>2
  <2> QED
    BY <1>5, <1>8, <2>1, <2>3
<1>9. CASE AddFlushes
  <2>1. todo' = <<Flush>> \o todo /\ Unread' = Unread
    BY <1>9, UnreadSame DEF AddFlushes
  <2> DEFINE v == <<Flush>> \o todo
  <2>2. v \in Seq(Steps)
    <3>1. <<Flush>> \in Seq(Steps)
      BY SessionAssumption DEF Flush, Piece, Steps
    <3> QED
      BY <1>0, <3>1, ConcatProperties
  <2>3. v # <<>> /\ Head(v) = Flush /\ Tail(v) = todo
    BY <2>1, FlushFirst
  <2> HIDE DEF v
  <2>4. Count(v, S) = OneIf(Head(v) \in S) + Count(todo, S)
    BY <2>2, <2>3, CountTail
  <2>5. OneIf(Head(v) \in S) = 0
    BY <1>3, <2>3 DEF OneIf
  <2>6. InScript' = Count(v, S) /\ InScript = Count(todo, S)
    BY <2>1 DEF InScript, v
  <2>7. InScript' = InScript
    BY <1>2, <2>4, <2>5, <2>6
  <2> QED
    BY <1>0, <1>1, <2>1, <2>7, UsedSame
<1>10. CASE FlushNothing /\ Head(todo) = Flush
  BY <1>4, <1>10, UnreadSame DEF FlushNothing
<1>11. CASE WriteQueued /\ AtWrite /\ Head(todo) = Flush
  <2>1. Unread' = Unread /\ (todo' = Tail(todo) \/ todo' = todo)
    BY <1>11, UnreadFlush DEF WriteQueued
  <2>2. CASE todo' = todo
    BY <1>0, <1>1, <2>1, <2>2, UsedSame DEF InScript
  <2> QED
    BY <1>4, <1>11, <2>1, <2>2
<1>12. CASE WriteBulk /\ AtWrite /\ Head(todo).kind = "bulk"
  <2> DEFINE x == Piece("body", Head(todo).id)
  <2>1. Unread' = Append(Unread, x) /\ x \in Pieces /\ todo' = Tail(todo) /\ x.kind = "body"
    BY <1>12, UnreadBulk, PieceParts DEF WriteBulk
  <2> HIDE DEF x
  <2>2. (x \in W) = (Head(todo) \in S)
    BY <1>0, <1>6, <1>7, <1>12, <2>1
  <2> QED
    BY <1>5, <2>1, <2>2
<1> QED
  BY <1>8, <1>9, <1>10, <1>11, <1>12, OutputCases DEF Sane, OutInv

LEMMA TaskWindowUsed ==
  ASSUME TypeOK, Sane, NEW i \in Ids, Task(i), Window # 0, inFlight = Used, inFlight <= Window
  PROVE  inFlight' = Used' /\ inFlight' <= Window
<1>0. Main \notin Ids /\ i \in Threads /\ i # Main /\ IdOf(i) = i /\ inFlight \in Int /\ Window \in Nat
  BY SessionAssumption DEF IdOf, TypeOK
<1>1. pc \in [Threads -> MainPcs \cup TaskPcs] /\ job \in [Threads -> Jobs]
  BY DEF TypeOK, ThreadTypeOK
<1>2. ASSUME NEW p, NEW j, pc' = [pc EXCEPT ![i] = p], job' = [job EXCEPT ![i] = j],
             UNCHANGED <<rx, ackDue, inbox, frame, todo, queue, sent, pipe, inFlight>>,
             pc[i] # "acquire", p = "acquire" => j \notin {"data", "slurp"}
      PROVE  inFlight' = Used' /\ inFlight' <= Window
  <2>1. /\ pc'[i] = p /\ job'[i] = j /\ pc'[Main] = pc[Main]
        /\ \A u \in Ids : u # i => pc'[u] = pc[u] /\ job'[u] = job[u]
    BY <1>0, <1>1, <1>2
  <2>2. Holding' = Holding
    BY <1>2, <2>1 DEF Holding
  <2>3. Used' = Used
    BY <1>2, <2>1, <2>2, UsedSame, UnreadSame DEF InTasks, InScript, InAcks, AckFrame, AckInHand
  <2> QED
    BY <1>2, <2>3
<1>3. job = [job EXCEPT ![i] = job[i]]
  BY <1>0, <1>1
<1>4. CASE TaskOpen(i)
  <2>1. UNCHANGED <<rx, ackDue, inbox, frame, todo, queue, sent, pipe, inFlight>> /\ pc[i] = "begin"
    BY <1>4 DEF TaskOpen, cvars, ivars, mvars, ovars
  <2>2. \/ pc' = [pc EXCEPT ![i] = "test"] /\ job' = job
        \/ pc' = [pc EXCEPT ![i] = "acquire"] /\ job' = [job EXCEPT ![i] = "size"]
        \/ pc' = [pc EXCEPT ![i] = "read"] /\ job' = job
        \/ pc' = [pc EXCEPT ![i] = "window"] /\ job' = [job EXCEPT ![i] = "slurp"]
    BY <1>4 DEF TaskOpen, Goto, WantLock
  <2> QED
    BY <1>2, <1>3, <2>1, <2>2
<1>5. CASE TaskRead(i)
  <2>1. UNCHANGED <<rx, ackDue, inbox, frame, todo, queue, sent, pipe, inFlight>> /\ pc[i] = "read"
    BY <1>5 DEF TaskRead, cvars, ivars, mvars, ovars
  <2>2. \/ pc' = [pc EXCEPT ![i] = "test"] /\ job' = job
        \/ pc' = [pc EXCEPT ![i] = "window"] /\ job' = [job EXCEPT ![i] = "data"]
    BY <1>5 DEF TaskRead, Goto
  <2> QED
    BY <1>2, <1>3, <2>1, <2>2
<1>6. CASE TaskWindow(i)
  <2>1. /\ UNCHANGED <<rx, ackDue, inbox, frame, job, todo, queue, sent, pipe>> /\ pc[i] = "window"
        /\ pc' = [pc EXCEPT ![i] = "acquire"] /\ inFlight' = inFlight + 1 /\ inFlight < Window
    BY <1>6 DEF TaskWindow, cvars, ivars, mvars, ovars, Goto
  <2>2. job[i] \in {"data", "slurp"}
    BY <2>1 DEF Sane, JobInv
  <2>3. /\ pc'[i] = "acquire" /\ pc'[Main] = pc[Main]
        /\ \A u \in Ids : u # i => pc'[u] = pc[u]
    BY <1>0, <1>1, <2>1
  <2>4. Holding' = Holding \cup {i} /\ i \notin Holding
    BY <2>1, <2>2, <2>3 DEF Holding
  <2>5. Cardinality(Holding \cup {i}) = InTasks + 1
    BY <2>4, UsedTypes, FS_AddElement DEF InTasks
  <2>6. InTasks' = InTasks + 1
    BY <2>4, <2>5 DEF InTasks
  <2>7. InScript' = InScript /\ OnWay' = OnWay /\ AtClient' = AtClient /\ InAcks' = InAcks /\ AtMain' = AtMain
    BY <2>1, <2>3, UnreadSame DEF InScript, OnWay, AtClient, InAcks, AtMain, AckFrame, AckInHand
  <2>8. Used' = (InTasks + 1) + InScript + OnWay + AtClient + InAcks + AtMain
    BY <2>6, <2>7, UsedNext
  <2>9. Used' = Used + 1
    BY <2>8, UsedTypes DEF Used
  <2> QED
    BY <1>0, <2>1, <2>9
<1>7. CASE TaskTest(i)
  <2>1. /\ UNCHANGED <<rx, ackDue, inbox, frame, todo, queue, sent, pipe, inFlight>> /\ pc[i] = "test"
        /\ job' = job
    BY <1>7 DEF TaskTest, cvars, ivars, mvars, ovars
  <2>2. pc' = [pc EXCEPT ![i] = IF cancelled[i] THEN "dead" ELSE "mutex"]
    BY <1>7 DEF TaskTest, Goto
  <2> QED
    BY <1>2, <1>3, <2>1, <2>2
<1>8. CASE TaskMutex(i)
  <2>1. UNCHANGED <<rx, ackDue, inbox, frame, todo, queue, sent, pipe, inFlight>> /\ pc[i] = "mutex"
    BY <1>8 DEF TaskMutex, cvars, ivars, mvars, ovars
  <2>2. pc' = [pc EXCEPT ![i] = "acquire"] /\ job' = [job EXCEPT ![i] = "result"]
    BY <1>8 DEF TaskMutex, WantLock, Goto
  <2> QED
    BY <1>2, <1>3, <2>1, <2>2
<1>9. CASE TaskMark(i)
  <2>1. /\ UNCHANGED <<rx, ackDue, inbox, frame, todo, queue, sent, pipe, inFlight>> /\ pc[i] = "mark"
        /\ job' = job
    BY <1>9 DEF TaskMark, cvars, ivars, mvars, ovars
  <2>2. pc' = [pc EXCEPT ![i] = "done"]
    BY <1>9 DEF TaskMark, Goto
  <2> QED
    BY <1>2, <1>3, <2>1, <2>2
<1>10. CASE TaskReleases(i)
  <2>1. /\ UNCHANGED <<rx, ackDue, inbox, frame, todo, queue, sent, pipe, inFlight>> /\ pc[i] = "output"
        /\ job' = job
    BY <1>10 DEF TaskReleases, Unlock, cvars, ivars, mvars
  <2> DEFINE p == CASE job[i] = "slurp" -> "test" [] job[i] = "result" -> "mark" [] OTHER -> "read"
  <2>2. pc' = [pc EXCEPT ![i] = p] /\ p # "acquire"
    BY <1>10 DEF TaskReleases, Goto
  <2> HIDE DEF p
  <2> QED
    BY <1>2, <1>3, <2>1, <2>2
<1>11. CASE Output(i)
  <2>1. inFlight' = inFlight
    BY <1>11 DEF Output
  <2> QED
    BY <1>0, <1>11, <2>1, OutputWindow
<1>12. CASE Acquire(i)
  <2>1. /\ UNCHANGED <<rx, ackDue, inbox, frame, job, queue, sent, pipe, inFlight>> /\ pc[i] = "acquire"
        /\ pc' = [pc EXCEPT ![i] = "output"] /\ todo' \in Script(job[i], i) /\ todo = <<>>
    BY <1>0, <1>12 DEF Acquire, cvars, ivars, mvars, Goto, Sane, OutInv, LockInv
  <2>2. /\ pc'[i] = "output" /\ pc'[Main] = pc[Main]
        /\ \A u \in Ids : u # i => pc'[u] = pc[u]
    BY <1>0, <1>1, <2>1
  <2>3. OnWay' = OnWay /\ AtClient' = AtClient /\ InAcks' = InAcks /\ AtMain' = AtMain /\ InScript = 0
    BY <2>1, <2>2, UnreadSame, CountEmpty DEF InScript, OnWay, AtClient, InAcks, AtMain, AckFrame, AckInHand
  <2>4. InScript' = IF job[i] \in {"data", "slurp"} THEN 1 ELSE 0
    BY <2>1, ScriptBodies DEF InScript
  <2>5. CASE job[i] \in {"data", "slurp"}
    <3>1. Holding' = Holding \ {i} /\ i \in Holding
      BY <2>1, <2>2, <2>5 DEF Holding
    <3>2. Cardinality(Holding \ {i}) = InTasks - 1
      BY <3>1, UsedTypes, FS_RemoveElement DEF InTasks
    <3>3. InTasks' = InTasks - 1 /\ InScript' = 1
      BY <2>4, <2>5, <3>1, <3>2 DEF InTasks
    <3>4. Used' = (InTasks - 1) + 1 + OnWay + AtClient + InAcks + AtMain
      BY <2>3, <3>3, UsedNext
    <3>5. Used' = Used
      BY <2>3, <3>4, UsedTypes DEF Used
    <3> QED
      BY <2>1, <3>5
  <2>6. CASE job[i] \notin {"data", "slurp"}
    <3>1. Holding' = Holding
      BY <2>1, <2>2, <2>6 DEF Holding
    <3>2. Used' = Used
      BY <2>1, <2>2, <2>3, <2>4, <2>6, <3>1, UsedSame, UnreadSame DEF InTasks, AckInHand, AckFrame
    <3> QED
      BY <2>1, <3>2
  <2> QED
    BY <2>5, <2>6
<1> QED
  BY <1>0, <1>4, <1>5, <1>6, <1>7, <1>8, <1>9, <1>10, <1>11, <1>12, NoUnwind, NoError DEF Task, TaskStep

\* A step of the main thread that moves no data and no ack.
LEMMA MainUsedSame ==
  ASSUME TypeOK, UNCHANGED <<ackDue, inbox, todo, queue, sent, pipe>>,
         \A k \in Ids : (pc'[k] = "acquire" <=> pc[k] = "acquire") /\ job'[k] = job[k],
         AckInHand' <=> AckInHand
  PROVE  Used' = Used
<1>1. InTasks' = InTasks
  BY HoldingSame
<1>2. InScript' = InScript /\ InAcks' = InAcks
  BY DEF InScript, InAcks, AckFrame
<1> QED
  BY <1>1, <1>2, UsedSame, UnreadSame

LEMMA TakeFrameUsed ==
  ASSUME TypeOK, TakeFrame
  PROVE  Used' = Used
<1> DEFINE h == Head(inbox)
           r == Tail(inbox)
           a == Count(r, AckFrame)
           x == OneIf(h \in AckFrame)
<1>1. /\ pc[Main] = "idle" /\ inbox # <<>> /\ frame' = h /\ inbox' = r /\ pc'[Main] = "check"
      /\ \A i \in Ids : pc'[i] = pc[i] /\ job'[i] = job[i]
      /\ UNCHANGED <<ackDue, todo, queue, sent, pipe>>
  BY MainFacts DEF TakeFrame, Goto, cvars, ovars
<1>2. inbox \in Seq(InFrames) /\ r \in Seq(InFrames)
  BY <1>1, MainFacts, HeadTailProperties
<1>3. InAcks = x + a /\ a \in Nat /\ x \in {0, 1}
  BY <1>1, <1>2, CountTail, CountType DEF InAcks, OneIf
<1>4. InAcks' = a /\ AtMain' = x /\ AtMain = 0
  BY <1>1 DEF InAcks, AtMain, AckInHand, AckFrame, OneIf
<1>5. InTasks' = InTasks
  BY <1>1, HoldingSame
<1>6. InScript' = InScript /\ OnWay' = OnWay /\ AtClient' = AtClient
  BY <1>1, UnreadSame DEF InScript, OnWay, AtClient
<1>7. Used' = InTasks + InScript + OnWay + AtClient + a + x
  BY <1>4, <1>5, <1>6, UsedNext
<1> HIDE DEF a, x
<1> QED
  BY <1>3, <1>4, <1>7, UsedTypes DEF Used

\* An ack that is handled gives its data frame's place in the window back.
LEMMA HandleUsed ==
  ASSUME TypeOK, Sane, Handle, AckInv, Window # 0
  PROVE  \/ Used' = Used /\ inFlight' = inFlight
         \/ Used' = Used - 1 /\ inFlight' = inFlight - 1
<1>1. pc[Main] = "handle" /\ UNCHANGED <<ackDue, inbox, todo, queue, sent, pipe>>
  BY DEF Handle, cvars, ivars, ovars
<1>2. CASE HandleAck
  <2>1. /\ frame.type = "ack" /\ frame' = frame /\ inFlight' = inFlight - 1 /\ pc'[Main] = "idle"
        /\ \A i \in Ids : pc'[i] = pc[i] /\ job'[i] = job[i]
    BY <1>2, MainFacts DEF HandleAck, Goto, mvars
  <2>2. AtMain = 1 /\ AtMain' = 0
    BY <1>1, <2>1 DEF AckInv, AtMain, AckInHand, OneIf
  <2>3. /\ InTasks' = InTasks /\ InScript' = InScript /\ OnWay' = OnWay /\ AtClient' = AtClient
        /\ InAcks' = InAcks
    BY <1>1, <2>1, HoldingSame, UnreadSame DEF InScript, OnWay, AtClient, InAcks, AckFrame
  <2>4. Used' = InTasks + InScript + OnWay + AtClient + InAcks + 0
    BY <2>2, <2>3, UsedNext
  <2>5. Used' = Used - 1
    BY <2>2, <2>4, UsedTypes DEF Used
  <2> QED
    BY <2>1, <2>5
<1>3. CASE ~HandleAck
  <2>1. /\ frame.type # "ack" /\ frame' = frame /\ inFlight' = inFlight
        /\ \A i \in Ids : job'[i] = job[i]
    BY <1>1, <1>3, NoError, MainFacts DEF Handle, HandlePing, HandleRequest, EndWith, SubmitRead, SubmitSync,
                                         WantLock, mvars
  <2>2. \A i \in Ids : pc'[i] = "acquire" <=> pc[i] = "acquire"
    <3>1. CASE SubmitRead
      <4>1. pc[frame.id] = "none"
        <5>1. Held(frame.id)
          BY <1>1, <3>1 DEF Held, SubmitRead
        <5> QED
          BY <5>1, MainFacts DEF Sane, TableInv
      <4> QED
        BY <3>1, <4>1, MainFacts DEF SubmitRead
    <3>2. CASE ~SubmitRead
      BY <1>1, <1>3, <3>2, NoError, MainFacts
      DEF Handle, HandlePing, HandleRequest, EndWith, SubmitSync, WantLock, Goto
    <3> QED
      BY <3>1, <3>2
  <2>3. ~AckInHand /\ ~AckInHand'
    BY <2>1 DEF AckInHand, AckFrame, InFrame
  <2> QED
    BY <1>1, <2>1, <2>2, <2>3, MainUsedSame
<1> QED
  BY <1>2, <1>3

LEMMA MainWindowUsed ==
  ASSUME TypeOK, Sane, MainThread, AckInv, Window # 0, inFlight = Used, inFlight <= Window
  PROVE  inFlight' = Used' /\ inFlight' <= Window
<1>0. inFlight \in Int /\ Window \in Nat
  BY SessionAssumption DEF TypeOK
<1> SUFFICES \/ Used' = Used /\ inFlight' = inFlight
             \/ Used' = Used - 1 /\ inFlight' = inFlight - 1
  BY <1>0
<1>1. CASE TakeFrame
  BY <1>1, TakeFrameUsed DEF TakeFrame
<1>2. CASE CheckTask
  <2>1. /\ UNCHANGED <<ackDue, inbox, todo, queue, sent, pipe, inFlight, frame, job>>
        /\ pc[Main] = "check" /\ pc'[Main] \in {"check", "handle"}
        /\ \A i \in Ids : pc'[i] = pc[i] \/ (pc[i] = "done" /\ pc'[i] = "none")
    BY <1>2, MainFacts DEF CheckTask, Goto, cvars, ivars, ovars
  <2>2. \A i \in Ids : (pc'[i] = "acquire" <=> pc[i] = "acquire") /\ job'[i] = job[i]
    BY <2>1
  <2>3. AckInHand' <=> AckInHand
    BY <2>1 DEF AckInHand, AckFrame
  <2> QED
    BY <2>1, <2>2, <2>3, MainUsedSame
<1>3. CASE Handle
  BY <1>3, HandleUsed
<1>4. CASE Output(Main)
  BY <1>4, MainFacts, OutputWindow DEF Output
<1>5. CASE MainReleases
  <2>1. /\ UNCHANGED <<ackDue, inbox, todo, queue, sent, pipe, inFlight, frame>>
        /\ pc[Main] = "output" /\ pc'[Main] \in {"acquire", "idle"}
        /\ \A i \in Ids : pc'[i] = pc[i] /\ job'[i] = job[i]
    BY <1>5, MainFacts DEF MainReleases, Unlock, WantLock, Goto, cvars, ivars, mvars
  <2>2. ~AckInHand' /\ ~AckInHand
    BY <2>1 DEF AckInHand
  <2> QED
    BY <2>1, <2>2, MainUsedSame
<1>6. CASE EndOfInput
  <2>1. /\ UNCHANGED <<ackDue, inbox, todo, queue, sent, pipe, inFlight, frame, job>>
        /\ pc[Main] = "idle" /\ pc'[Main] = "teardown"
        /\ \A i \in Ids : pc'[i] = pc[i]
    BY <1>6, MainFacts DEF EndOfInput, EndWith, Goto, cvars, ivars, ovars
  <2>2. ~AckInHand' /\ ~AckInHand
    BY <2>1 DEF AckInHand
  <2> QED
    BY <2>1, <2>2, MainUsedSame
<1>7. CASE TearDownCancel \/ TearDownClear
  <2>1. /\ UNCHANGED <<ackDue, inbox, todo, queue, sent, pipe, inFlight, frame, job>>
        /\ pc[Main] = "teardown" /\ pc'[Main] \in {"teardown", "exited"}
    BY <1>7, MainFacts, TearDownQuiet DEF TearDownCancel, TearDownClear, cvars, ivars, ovars, mvars
  <2>2. \A i \in Ids : pc'[i] = pc[i] \/ (pc[i] \in {"none", "done", "dead"} /\ pc'[i] = "none")
    BY <1>7, MainFacts, TearDownQuiet DEF TearDownCancel, TearDownClear, Ended
  <2>3. \A i \in Ids : (pc'[i] = "acquire" <=> pc[i] = "acquire") /\ job'[i] = job[i]
    BY <2>1, <2>2
  <2>4. ~AckInHand' /\ ~AckInHand
    BY <2>1 DEF AckInHand
  <2> QED
    BY <2>1, <2>3, <2>4, MainUsedSame
<1>8. CASE Acquire(Main)
  <2>1. /\ UNCHANGED <<ackDue, inbox, queue, sent, pipe, inFlight, frame>>
        /\ pc[Main] = "acquire" /\ pc'[Main] = "output" /\ todo = <<>> /\ frame.id \in Ids
        /\ todo' \in Script(job[Main], frame.id) /\ job[Main] \notin {"data", "slurp"}
        /\ \A i \in Ids : pc'[i] = pc[i] /\ job'[i] = job[i]
    BY <1>8, MainFacts DEF Acquire, Goto, IdOf, cvars, ivars, mvars, Sane, JobInv, OutInv, LockInv
  <2>2. Count(todo', Of({"body", "bulk"}, Ids)) = 0 /\ Count(todo, Of({"body", "bulk"}, Ids)) = 0
    BY <2>1, ScriptBodies, CountEmpty
  <2>3. InScript' = InScript /\ InAcks' = InAcks
    BY <2>1, <2>2 DEF InScript, InAcks, AckFrame
  <2>4. ~AckInHand' /\ ~AckInHand
    BY <2>1 DEF AckInHand
  <2>5. InTasks' = InTasks
    BY <2>1, HoldingSame
  <2> QED
    BY <2>1, <2>3, <2>4, <2>5, UsedSame, UnreadSame
<1> QED
  BY <1>1, <1>2, <1>3, <1>4, <1>5, <1>6, <1>7, <1>8, MainFacts, NoError DEF MainThread, MainStep

LEMMA AcksAppend ==
  ASSUME NEW s \in Seq(InFrames), NEW f \in InFrames, AcksOnly(s), f.type = "ack" => f \in AckFrame
  PROVE  /\ Append(s, f) \in Seq(InFrames) /\ AcksOnly(Append(s, f))
         /\ Count(Append(s, f), AckFrame) = Count(s, AckFrame) + OneIf(f.type = "ack")
<1>1. /\ Append(s, f) \in Seq(InFrames) /\ Len(Append(s, f)) = Len(s) + 1 /\ Len(s) \in Nat
      /\ Append(s, f)[Len(s) + 1] = f /\ \A k \in 1 .. Len(s) : Append(s, f)[k] = s[k]
  BY AppendProperties, LenProperties
<1>2. AcksOnly(Append(s, f))
  BY <1>1 DEF AcksOnly
<1>3. (f \in AckFrame) = (f.type = "ack")
  BY DEF AckFrame, InFrame
<1> QED
  BY <1>1, <1>2, <1>3, CountAppend

\* A step of the client that sends at most an ack, and reads nothing.
LEMMA ClientUsed ==
  ASSUME TypeOK, UNCHANGED <<pc, job, mvars, ovars>>, NEW x \in {0, 1},
         InAcks' = InAcks + x, AtClient = AtClient' + x
  PROVE  Used' = Used
<1>1. UNCHANGED <<frame, todo>> /\ Unread' = Unread
  BY UnreadSame DEF mvars, ovars
<1>2. /\ InTasks' = InTasks /\ InScript' = InScript /\ OnWay' = OnWay /\ AtMain' = AtMain
  BY <1>1 DEF InTasks, Holding, InScript, OnWay, AtMain, AckInHand, AckFrame
<1> DEFINE b == AtClient'
<1>3. AtClient' = b /\ b \in {0, 1}
  BY DEF AtClient, OneIf
<1> HIDE DEF b
<1>4. Used' = InTasks + InScript + OnWay + b + (InAcks + x) + AtMain
  BY <1>2, <1>3, UsedNext
<1>5. AtClient = b + x
  BY <1>3
<1> QED
  BY <1>3, <1>4, <1>5, UsedTypes DEF Used

LEMMA AskUsed ==
  ASSUME TypeOK, AckInv, NEW i \in Ids, NEW kind \in Kinds, Ask(i, kind),
         UNCHANGED <<pc, job, mvars, tvars, ovars, inFlight>>
  PROVE  Used' = Used /\ AcksOnly(inbox')
<1> DEFINE q == InFrame("request", i, kind)
           s == InFrame("submit", i, "none")
           t == Append(inbox, q)
<1>1. q \in InFrames /\ q.type = "request" /\ s \in InFrames /\ s.type = "submit"
  BY SessionAssumption DEF InFrame, InFrames
<1>2. inbox' = inbox \o <<q, s>> /\ ackDue' = ackDue
  BY DEF Ask
<1> HIDE DEF q, s
<1>3. inbox \o <<q, s>> = Append(t, s)
  BY <1>1, MainFacts
<1>4. t \in Seq(InFrames) /\ AcksOnly(t) /\ Count(t, AckFrame) = InAcks + 0
  BY <1>1, MainFacts, AcksAppend DEF AckInv, InAcks, OneIf
<1> HIDE DEF t
<1>5. AcksOnly(Append(t, s)) /\ Count(Append(t, s), AckFrame) = Count(t, AckFrame) + 0
  BY <1>1, <1>4, AcksAppend DEF OneIf
<1>6. InAcks' = Count(Append(t, s), AckFrame)
  BY <1>2, <1>3 DEF InAcks, AckFrame
<1>7. InAcks' = InAcks + 0
  BY <1>4, <1>5, <1>6, UsedTypes
<1>8. AtClient = AtClient' + 0
  BY <1>2 DEF AtClient, OneIf
<1> QED
  BY <1>2, <1>3, <1>5, <1>7, <1>8, ClientUsed

LEMMA SmallFrameUsed ==
  ASSUME TypeOK, AckInv, Ping \/ Close \/ SendAck, UNCHANGED <<pc, job, mvars, tvars, ovars, inFlight>>
  PROVE  Used' = Used /\ AcksOnly(inbox')
<1>1. /\ InFrame("ping", 0, "none") \in InFrames /\ InFrame("ping", 0, "none").type = "ping"
      /\ InFrame("ack", 0, "none") \in AckFrame /\ InFrame("ack", 0, "none") \in InFrames
      /\ InFrame("ack", 0, "none").type = "ack"
  BY SessionAssumption DEF InFrame, InFrames, AckFrame
<1>2. CASE Ping
  <2>1. inbox' = Append(inbox, InFrame("ping", 0, "none")) /\ ackDue' = ackDue
    BY <1>2 DEF Ping
  <2>2. InAcks' = InAcks + 0 /\ AcksOnly(inbox')
    BY <1>1, <2>1, MainFacts, AcksAppend DEF AckInv, InAcks, AckFrame, OneIf
  <2>3. AtClient = AtClient' + 0
    BY <2>1 DEF AtClient, OneIf
  <2> QED
    BY <2>2, <2>3, ClientUsed
<1>3. CASE Close
  <2>1. inbox' = inbox /\ ackDue' = ackDue
    BY <1>3 DEF Close, cvars
  <2>2. InAcks' = InAcks + 0 /\ AtClient = AtClient' + 0 /\ AcksOnly(inbox')
    BY <2>1, UsedTypes DEF AckInv, InAcks, AckFrame, AtClient, OneIf
  <2> QED
    BY <2>2, ClientUsed
<1>4. CASE SendAck
  <2>1. inbox' = Append(inbox, InFrame("ack", 0, "none")) /\ ackDue /\ ~ackDue'
    BY <1>4 DEF SendAck, AckInv
  <2>2. InAcks' = InAcks + 1 /\ AcksOnly(inbox')
    BY <1>1, <2>1, MainFacts, AcksAppend DEF AckInv, InAcks, AckFrame, OneIf
  <2>3. AtClient = AtClient' + 1
    BY <2>1 DEF AtClient, OneIf
  <2> QED
    BY <2>2, <2>3, ClientUsed
<1> QED
  BY <1>2, <1>3, <1>4

\* A body that the client has read is its handler's to acknowledge.
LEMMA ReceiveUsed ==
  ASSUME TypeOK, Sane, AckInv, Acks, ~HalfCloses, Receive
  PROVE  Used' = Used /\ (eof => ~ackDue')
<1> DEFINE p == Unread[1]
           W == Of({"body"}, Ids)
           o == Count(Tail(Unread), W)
           x == OneIf(p \in W)
<1>1. /\ Unread # <<>> /\ Unread' = Tail(Unread) /\ Head(Unread) = p /\ p \in Pieces
      /\ (ReceiveBody(p) \/ ReceiveFrame(p)) /\ Unread \in Seq(Pieces)
  BY ReceiveOut, OutputFacts DEF Sane
<1>2. UNCHANGED <<pc, job, frame, todo, inbox>> /\ ~ackDue
  BY DEF Receive, mvars, ivars
<1>3. Tail(Unread) \in Seq(Pieces) /\ o \in Nat /\ x \in {0, 1}
  BY <1>1, HeadTailProperties, CountType DEF OneIf
<1>4. OnWay = x + o
  BY <1>1, CountTail DEF OnWay
<1>5. OnWay' = o
  BY <1>1 DEF OnWay
<1>6. p \in W <=> p.kind = "body"
  BY <1>1 DEF Of, Pieces
<1> HIDE DEF p
<1>7. ackDue' = (p.kind = "body")
  BY <1>1, <1>2 DEF ReceiveBody, ReceiveFrame, TypeOK, ClientTypeOK
<1>8. AtClient = 0 /\ AtClient' = x
  BY <1>2, <1>6, <1>7 DEF AtClient, OneIf
<1>9. InTasks' = InTasks /\ InScript' = InScript /\ InAcks' = InAcks /\ AtMain' = AtMain
  BY <1>2 DEF InTasks, Holding, InScript, InAcks, AtMain, AckInHand, AckFrame
<1>10. Used' = InTasks + InScript + o + x + InAcks + AtMain
  BY <1>5, <1>8, <1>9, UsedNext
<1>11. Used' = Used
  <2> HIDE DEF o, x
  <2> QED
    BY <1>3, <1>4, <1>8, <1>10, UsedTypes DEF Used
<1>12. ASSUME eof, ackDue' PROVE FALSE
  <2>1. p.kind = "body" /\ p.id \in Ids /\ p \in Of({"body"}, {p.id})
    BY <1>1, <1>7, <1>12, OfPiece DEF Pieces
  <2>2. Bodies(p.id) = 0
    BY <1>12, <2>1 DEF AckInv, Sane, EndInv
  <2>3. Count(Unread, Of({"body"}, {p.id})) >= 1
    <3>1. 1 \in 1 .. Len(Unread)
      BY <1>1, EmptySeq, LenProperties
    <3> QED
      BY <1>1, <2>1, <3>1, CountHit DEF p
  <2> QED
    BY <2>2, <2>3 DEF Bodies
<1> QED
  BY <1>11, <1>12

\* When the client is free to use an id again, nothing of it is on its way.
Clean == \A i \in Ids : client[i] = "free" => Bodies(i) = 0

LEMMA CleanNext ==
  ASSUME TypeOK, Sane, Clean, [Next]_vars, Cancels = {}, rx' # Gone
  PROVE  Clean'
<1>1. \A i \in Ids : /\ Phase[i] = "free" <=> client[i] = "free"
                     /\ Phase'[i] = "free" <=> client'[i] = "free"
                     /\ Coming[i] = Bodies(i) /\ Coming'[i] = Bodies(i)'
  BY PhaseIs, PhaseNext
<1>2. DOMAIN Phase = Ids /\ DOMAIN Coming = Ids
  BY PhaseIs
<1>3. \A i \in Ids : Phase[i] = "free" => Coming[i] = 0
  BY <1>1 DEF Clean
<1>4. \A i \in Ids : Phase'[i] = "free" => Coming'[i] = 0
  <2>1. CASE UNCHANGED <<Phase, Coming>>
    BY <1>3, <2>1
  <2>2. CASE R!RNext
    <3>1. PICK k \in Ids : R!Ask(k) \/ R!Give(k) \/ R!Take(k) \/ R!Answer(k) \/ R!Accept(k)
      BY <2>2 DEF R!RNext
    <3>2. CASE R!Ask(k)
      BY <1>2, <1>3, <3>2 DEF R!Ask
    <3>3. CASE R!Give(k)
      BY <1>2, <1>3, <3>3 DEF R!Give
    <3>4. CASE R!Take(k)
      BY <1>2, <1>3, <3>4 DEF R!Take
    <3>5. CASE R!Answer(k)
      BY <1>2, <1>3, <3>5 DEF R!Answer
    <3>6. CASE R!Accept(k)
      BY <1>2, <1>3, <3>6 DEF R!Accept
    <3> QED
      BY <3>1, <3>2, <3>3, <3>4, <3>5, <3>6
  <2> QED
    BY <2>1, <2>2, NextKeeps
<1> QED
  BY <1>1, <1>4 DEF Clean

LEMMA NextWindow ==
  ASSUME TypeOK, Sane, AckInv, WindowInv, [Next]_vars, Cancels = {}, ~HalfCloses, Acks, rx' # Gone
  PROVE  AckInv' /\ WindowInv'
<1>0. Clean /\ Clean'
  BY CleanNext DEF AckInv, Clean
<1>1. ASSUME frame' = frame, inbox' = inbox, eof' = eof, ackDue' = ackDue PROVE AckInv'
  BY <1>0, <1>1 DEF AckInv, Clean, AcksOnly, AckFrame
<1>2. ASSUME frame' = frame, AcksOnly(inbox'), eof' => ~ackDue' PROVE AckInv'
  BY <1>0, <1>2 DEF AckInv, Clean, AcksOnly, AckFrame
<1>3. ASSUME Used' = Used, inFlight' = inFlight PROVE WindowInv'
  BY <1>3 DEF WindowInv
<1>4. CASE UNCHANGED vars
  <2>1. UNCHANGED <<frame, inbox, eof, ackDue, todo, queue, sent, pipe, pc, job, inFlight>>
    BY <1>4 DEF vars, cvars, ivars, mvars, ovars
  <2>2. Used' = Used
    BY <2>1, MainUsedSame DEF AckInHand, AckFrame
  <2> QED
    BY <1>1, <1>3, <2>1, <2>2
<1>5. CASE \E i \in Ids : Task(i)
  <2>1. PICK i \in Ids : Task(i)
    BY <1>5
  <2>2. ~UnwindWrite(i) /\ ~LateWrite(i) /\ ~WriteFails(i)
    BY NoUnwind, NoError
  <2>3. UNCHANGED <<frame, inbox, eof, ackDue>>
    BY <2>1, <2>2 DEF Task, TaskStep, TaskOpen, TaskRead, TaskTest, TaskMutex, TaskReleases, TaskMark, Output,
                TaskWindow, Acquire, cvars, ivars, mvars
  <2>4. WindowInv'
    BY <2>1, TaskWindowUsed DEF WindowInv
  <2> QED
    BY <1>1, <2>3, <2>4
<1>6. CASE MainThread
  <2>1. WindowInv'
    BY <1>6, MainWindowUsed DEF WindowInv
  <2>2. CASE TakeFrame
    <3>1. /\ inbox # <<>> /\ frame' = Head(inbox) /\ inbox' = Tail(inbox) /\ UNCHANGED <<eof, ackDue>>
      BY <2>2 DEF TakeFrame, cvars
    <3>2. /\ Len(inbox) \in Nat \ {0} /\ Head(inbox) = inbox[1] /\ Len(Tail(inbox)) = Len(inbox) - 1
          /\ \A k \in 1 .. Len(Tail(inbox)) : Tail(inbox)[k] = inbox[k + 1]
      BY <3>1, MainFacts, HeadTailProperties, EmptySeq
    <3>3. frame'.type = "ack" => frame' \in AckFrame
      BY <3>1, <3>2 DEF AckInv, AcksOnly
    <3>4. AcksOnly(Tail(inbox))
      BY <3>2 DEF AckInv, AcksOnly
    <3> QED
      BY <1>0, <2>1, <3>1, <3>3, <3>4 DEF AckInv, Clean, AcksOnly, AckFrame
  <2>3. CASE ~TakeFrame
    <3>1. ~WriteFails(Main) /\ ~Join
      BY NoError, MainFacts
    <3>2. UNCHANGED <<inbox, eof, ackDue>>
      BY <1>6, <2>3, <3>1 DEF MainThread, MainStep, CheckTask, Handle, MainReleases, EndOfInput, Output,
                        TearDownCancel, TearDownClear, Acquire, cvars, ivars
    <3>3. CASE Handle
      <4>1. frame' = frame
        BY <3>3 DEF Handle, HandlePing, HandleAck, HandleRequest, HandleMissing, SubmitRead, SubmitSync,
                    HandleCancel, mvars
      <4> QED
        BY <1>1, <2>1, <3>2, <4>1
    <3>4. CASE ~Handle
      <4>1. frame' = frame
        BY <1>6, <2>3, <3>1, <3>4 DEF MainThread, MainStep, CheckTask, MainReleases, EndOfInput, Output,
                          TearDownCancel, TearDownClear, Acquire, mvars
      <4> QED
        BY <1>1, <2>1, <3>2, <4>1
    <3> QED
      BY <3>3, <3>4
  <2> QED
    BY <2>2, <2>3
<1>7. CASE Request
  <2>0. UNCHANGED <<pc, job, mvars, tvars, ovars, inFlight>> /\ frame' = frame
    BY <1>7 DEF Request, mvars
  <2>1. CASE \E i \in Ids : \E kind \in Kinds : Ask(i, kind)
    <3>1. UNCHANGED <<eof, ackDue>>
      BY <2>1 DEF Ask
    <3>2. Used' = Used /\ AcksOnly(inbox')
      BY <2>0, <2>1, AskUsed
    <3> QED
      BY <1>2, <1>3, <2>0, <3>1, <3>2 DEF AckInv
  <2>2. CASE Ping \/ Close
    <3>1. eof' => ~ackDue'
      BY <2>2 DEF Ping, Close, cvars, AckInv
    <3> QED
      BY <1>2, <1>3, <2>0, <2>2, <3>1, SmallFrameUsed
  <2> QED
    BY <1>7, <2>1, <2>2 DEF Request, Cancel
<1>8. CASE Acknowledge
  <2>1. SendAck /\ UNCHANGED <<pc, job, mvars, tvars, ovars, inFlight>> /\ frame' = frame /\ ~ackDue'
    BY <1>8 DEF Acknowledge, SendAck, mvars
  <2> QED
    BY <1>2, <1>3, <2>1, SmallFrameUsed
<1>9. CASE Receive
  <2>1. UNCHANGED <<frame, inbox, eof, inFlight>>
    BY <1>9 DEF Receive, ivars, mvars
  <2>2. Used' = Used /\ (eof => ~ackDue')
    BY <1>9, ReceiveUsed
  <2> QED
    BY <1>2, <1>3, <2>1, <2>2 DEF AckInv, AcksOnly, AckFrame
<1>10. CASE Vanish
  BY <1>10 DEF Vanish
<1> QED
  BY <1>4, <1>5, <1>6, <1>7, <1>8, <1>9, <1>10 DEF Next, Exited

WindowKept == rx # Gone => AckInv /\ WindowInv

LEMMA InitWindow == Init => WindowKept
<1> SUFFICES ASSUME Init PROVE AckInv /\ WindowInv
  BY DEF WindowKept
<1>1. Unread = <<>>
  <2>1. queue = <<>> /\ sent = 0 /\ pipe = <<>>
    BY DEF Init
  <2>2. SubSeq(queue, sent + 1, Len(queue)) = <<>>
    BY <2>1, SubSeqEmpty
  <2> QED
    BY <2>1, <2>2 DEF Unread
<1>2. AckInv
  BY <1>1, CountEmpty DEF Init, AckInv, AcksOnly, AckFrame, InFrame, Bodies
<1>3. Holding = {}
  BY SessionAssumption DEF Init, Holding
<1>4. InTasks = 0
  BY <1>3, FS_EmptySet DEF InTasks
<1>5. InScript = 0 /\ OnWay = 0 /\ AtClient = 0 /\ InAcks = 0
  BY <1>1, CountEmpty DEF Init, InScript, OnWay, AtClient, InAcks, OneIf
<1>6. AtMain = 0
  BY SessionAssumption DEF Init, AtMain, AckInHand, OneIf
<1> QED
  BY <1>2, <1>4, <1>5, <1>6, SessionAssumption DEF Init, WindowInv, Used

LEMMA KeptConserved == ASSUME AckInv, WindowInv PROVE WindowConserved
BY DEF WindowInv, WindowConserved, Used, InTasks, Holding, InScript, OnWay, AtClient, InAcks, AtMain,
       AckInHand, AckFrame, OneIf

\* With a client that acknowledges what it reads and cancels nothing: as long as it
\* stays, data_transmitting and data_acknowledged agree with where the data is, so
\* that a thread never waits for room that no ack will give back.
THEOREM WindowWhileConnected ==
  ASSUME Cancels = {}, ~HalfCloses, Acks
  PROVE  Spec => [](rx # Gone => WindowConserved)
<1>1. TypeOK /\ SInv /\ WindowKept /\ [Next]_vars => WindowKept'
  <2> SUFFICES ASSUME TypeOK, SInv, WindowKept, [Next]_vars, rx' # Gone PROVE AckInv' /\ WindowInv'
    BY DEF WindowKept
  <2>1. rx # Gone
    BY RunningBack
  <2>2. Sane
    BY <2>1, SaneIs DEF Running
  <2> QED
    BY <2>1, <2>2, NextWindow DEF WindowKept
<1>2. WindowKept => (rx # Gone => WindowConserved)
  BY KeptConserved DEF WindowKept
<1> QED
  BY <1>1, <1>2, InitWindow, InvariantHolds, PTL DEF Spec

\* And always, for a client that does not vanish.
THEOREM WindowExact ==
  ASSUME Cancels = {}, ~HalfCloses, ~Vanishes, Acks
  PROVE  Spec => []WindowConserved
<1>1. GoneInv /\ (rx # Gone => WindowConserved) => WindowConserved
  BY DEF GoneInv
<1> QED
  BY <1>1, GoneHolds, WindowWhileConnected, PTL

=============================================================================
