-------------------------------- MODULE Wire --------------------------------
(***************************************************************************)
(* One direction of a conversation, byte by byte: frames go through a      *)
(* send_queue and write_all into a pipe, which may take less than it is    *)
(* given, and a data_receiver cuts what read() returns into frames again.  *)
(* Byte j of the k-th frame is the pair <<k, j>>; what the bytes say is    *)
(* left out, but for the payload's size, which the receiver finds in the   *)
(* header.                                                                 *)
(***************************************************************************)
EXTENDS Integers, Sequences, SequencesExt

CONSTANTS
  Header,     \* size of a frame header                        (8 in the code)
  Align,      \* what payloads are padded to a multiple of     (4 in the code)
  Payloads,   \* sizes of the payloads sent
  QueueCap,   \* capacity of the send_queue                 (1024 in the code)
  PipeCap,    \* capacity of the pipe
  ReadMax,    \* buffer size of run_event_loop              (4096 in the code)
  MaxFrames   \* frames sent                                         (a bound)

ASSUME WireAssumption ==
  /\ Header \in Nat \ {0} /\ Align \in Nat \ {0}
  /\ Payloads \subseteq Nat
  /\ QueueCap \in Nat /\ QueueCap >= Header
  /\ PipeCap \in Nat \ {0} /\ ReadMax \in Nat \ {0} /\ MaxFrames \in Nat

VARIABLES
  frames,     \* payload sizes of the frames sent so far
  todo,       \* byte strings yet to be given to add()
  queue,      \* the send_queue's buffer
  writing,    \* what write_all has yet to write, if it is writing
  failed,     \* write_in_full has thrown failed_write
  pipe,       \* bytes on their way
  input,      \* the data_receiver's buffer
  handled,    \* frames given to the frame handler
  status      \* how run_event_loop ended: running, eof or the handler's status

vars == <<frames, todo, queue, writing, failed, pipe, input, handled, status>>

\* A call of write_in_full: what it writes, and whether it is flush()'s, which
\* clears the buffer after it, or add()'s own.
NoWrite == [bytes |-> <<>>, from |-> "none"]

Init ==
  /\ frames = <<>> /\ todo = <<>> /\ queue = <<>> /\ writing = NoWrite /\ failed = FALSE
  /\ pipe = <<>> /\ input = <<>> /\ handled = <<>> /\ status = "running"

\* pad() rounds up to the alignment; queue_string pads a payload by as much.
Pad(n) == ((n + Align - 1) \div Align) * Align

PadLength(len) == (Align - 1) - ((len + Align - 1) % Align)

Bytes(k, first, last) == [j \in 1 .. last - first + 1 |-> <<k, first + j - 1>>]

\* All the bytes of the frames sent, in order.
Stream(fs) ==
  FoldLeft(LAMBDA s, k : s \o Bytes(k, 1, Header + fs[k] + PadLength(fs[k])),
           <<>>, [k \in 1 .. Len(fs) |-> k])

----------------------------------------------------------------------------
(* The sending side.                                                       *)

Idle == todo = <<>> /\ writing = NoWrite /\ ~failed

\* queue_string: the header, the payload and the padding are added in turn.
QueueFrame(n) ==
  /\ Idle
  /\ Len(frames) < MaxFrames
  /\ frames' = Append(frames, n)
  /\ todo' = LET k == Len(frames) + 1 IN
             << Bytes(k, 1, Header), Bytes(k, Header + 1, Header + n),
                Bytes(k, Header + n + 1, Header + n + PadLength(n)) >>
  /\ UNCHANGED <<queue, writing, failed, pipe, input, handled, status>>

\* The caller flushes after some of the frames.
Flush ==
  /\ Idle
  /\ queue # <<>>
  /\ writing' = [bytes |-> queue, from |-> "flush"]
  /\ UNCHANGED <<frames, todo, queue, failed, pipe, input, handled, status>>

FreeSpace == QueueCap - Len(queue)

Adding == todo # <<>> /\ writing = NoWrite /\ ~failed

AddFits_Bug ==    \* without the test for room
  /\ Adding
  /\ queue' = queue \o Head(todo)
  /\ todo' = Tail(todo)
  /\ UNCHANGED <<frames, writing, failed, pipe, input, handled, status>>

AddFits ==
  /\ Adding
  /\ Len(Head(todo)) <= FreeSpace
  /\ queue' = queue \o Head(todo)
  /\ todo' = Tail(todo)
  /\ UNCHANGED <<frames, writing, failed, pipe, input, handled, status>>

AddFlushes ==
  /\ Adding
  /\ Len(Head(todo)) > FreeSpace /\ queue # <<>>
  /\ writing' = [bytes |-> queue, from |-> "flush"]
  /\ UNCHANGED <<frames, todo, queue, failed, pipe, input, handled, status>>

\* What is larger than the whole buffer is written past it.
AddLarge ==
  /\ Adding
  /\ Len(Head(todo)) > FreeSpace /\ queue = <<>>
  /\ writing' = [bytes |-> Head(todo), from |-> "add"]
  /\ UNCHANGED <<frames, todo, queue, failed, pipe, input, handled, status>>

\* One round of write_all: the pipe takes some of what is left.
WriteSome_Bug ==    \* does not advance the buffer after a short write
  \E n \in 1 .. Len(writing.bytes) :
    /\ ~failed /\ status = "running"
    /\ Len(pipe) + n <= PipeCap
    /\ pipe' = pipe \o SubSeq(writing.bytes, 1, n)
    /\ writing' = [writing EXCEPT !.bytes = SubSeq(@, 1, Len(@) - n)]
    /\ UNCHANGED <<frames, todo, queue, failed, input, handled, status>>

WriteSome ==
  \E n \in 1 .. Len(writing.bytes) :
    /\ ~failed /\ status = "running"
    /\ Len(pipe) + n <= PipeCap
    /\ pipe' = pipe \o SubSeq(writing.bytes, 1, n)
    /\ writing' = [writing EXCEPT !.bytes = SubSeq(@, n + 1, Len(@))]
    /\ UNCHANGED <<frames, todo, queue, failed, input, handled, status>>

\* The peer has closed its end: write() fails, and write_in_full throws.
WriteFails ==
  /\ writing.bytes # <<>> /\ ~failed /\ status # "running"
  /\ failed' = TRUE
  /\ UNCHANGED <<frames, todo, queue, writing, pipe, input, handled, status>>

\* write_in_full returns: flush clears the buffer, add is done with its data.
Written ==
  /\ writing.from # "none" /\ writing.bytes = <<>>
  /\ writing' = NoWrite
  /\ IF writing.from = "flush" THEN queue' = <<>> /\ UNCHANGED todo
                               ELSE todo' = Tail(todo) /\ UNCHANGED queue
  /\ UNCHANGED <<frames, failed, pipe, input, handled, status>>

----------------------------------------------------------------------------
(* The receiving side.                                                     *)

\* The header of the frame at the front of the receiver's buffer has come, and
\* says how large the frame is.
FrameSize == Header + Pad(frames[input[1][1]])

Complete == Len(input) >= Header /\ Len(input) >= FrameSize

Read ==
  /\ status = "running" /\ ~Complete
  /\ \E n \in 1 .. Len(pipe) :
       /\ n <= ReadMax
       /\ input' = input \o SubSeq(pipe, 1, n)
       /\ pipe' = SubSeq(pipe, n + 1, Len(pipe))
  /\ UNCHANGED <<frames, todo, queue, writing, failed, handled, status>>

\* recv_bytes hands a frame to the handler, and drops it if that returns 0.
HandleFrame ==
  /\ status = "running" /\ Complete
  /\ handled' = Append(handled, SubSeq(input, 1, FrameSize))
  /\ \/ input' = SubSeq(input, FrameSize + 1, Len(input)) /\ UNCHANGED status
     \/ status' = "stopped" /\ UNCHANGED input
  /\ UNCHANGED <<frames, todo, queue, writing, failed, pipe>>

Done == Idle /\ Len(frames) = MaxFrames /\ queue = <<>>

\* The sender closes the pipe when it is done, and read() returns 0.
EndOfFile ==
  /\ status = "running" /\ ~Complete
  /\ Done /\ pipe = <<>>
  /\ status' = "eof"
  /\ UNCHANGED <<frames, todo, queue, writing, failed, pipe, input, handled>>

Finished == status # "running" /\ UNCHANGED vars

Send    == (\E n \in Payloads : QueueFrame(n)) \/ Flush
Sending == AddFits \/ AddFlushes \/ AddLarge \/ WriteSome \/ WriteFails \/ Written
Receive == Read \/ HandleFrame \/ EndOfFile

Next == Send \/ Sending \/ Receive \/ Finished

Spec == Init /\ [][Next]_vars

----------------------------------------------------------------------------

\* What was sent and is not written yet, then what is on its way: together with
\* the frames already handled it is the stream of all frames, byte for byte.
Unsent ==
  IF writing.from = "flush" THEN writing.bytes \o FlattenSeq(todo)
  ELSE IF writing.from = "add" THEN writing.bytes \o FlattenSeq(Tail(todo))
  ELSE queue \o FlattenSeq(todo)

\* No byte is lost, duplicated or reordered between queue_string and the frame
\* handler, whatever the sizes of the buffers, the writes and the reads.
StreamIntact ==
  status # "stopped" => FlattenSeq(handled) \o input \o pipe \o Unsent = Stream(frames)

\* The handler is given whole frames, each once and in the order they were sent,
\* padded to the alignment, and at the end of the stream nothing is left in the
\* receiver's buffer; the send buffer's mark stays within the buffer.
FramesArriveWhole ==
  /\ \A k \in 1 .. Len(handled) :
       handled[k] = Bytes(k, 1, Header + frames[k] + PadLength(frames[k]))
  /\ status = "eof" => input = <<>> /\ Len(handled) = Len(frames)
  /\ Len(queue) <= QueueCap
=============================================================================
