-------------------------------- MODULE Codec --------------------------------
(***************************************************************************)
(* How a request is put into frames by the client's request functions and  *)
(* put together again by the server's frame_handler, and how the answer to *)
(* a read of a generated file (read_slurp) travels back to synced_get.     *)
(* An integer goes into the smallest of three forms, data too large for    *)
(* one frame into several.  The header's length field is a number modulo   *)
(* MaxLen + 1.                                                             *)
(***************************************************************************)
EXTENDS Integers, Sequences, SequencesExt

CONSTANTS
  ByteMod,    \* values of an uint8_t                  (2^8  in the code)
  IntMod,     \* values of an uint32_t                 (2^32 in the code)
  IntSize,    \* bytes of an uint32_t                  (4 in the code)
  LongSize,   \* bytes of an uint64_t                  (8 in the code)
  MaxLen,     \* largest length field                  (65535 in the code)
  BlockSize,  \* data in a frame of several            (16384 in the code)
  Offsets,    \* offsets requested, -1 for none
  Fds,        \* file descriptors requested, -1 for none
  PathSizes,  \* lengths of the paths requested
  DataSizes,  \* lengths of the data written
  SlurpSizes  \* lengths of the files read

ASSUME CodecAssumption ==
  /\ ByteMod \in Nat /\ IntMod \in Nat /\ 1 < ByteMod /\ ByteMod < IntMod
  /\ IntSize \in Nat /\ LongSize \in Nat /\ 0 < IntSize /\ IntSize < LongSize
  /\ MaxLen \in Nat /\ MaxLen >= LongSize
  /\ BlockSize \in 1 .. MaxLen
  /\ PathSizes \subseteq Nat /\ SlurpSizes \subseteq Nat /\ DataSizes \subseteq 0 .. IntMod - 1
  /\ Offsets \subseteq Nat \cup {-1} /\ Fds \subseteq -1 .. IntMod - 1

VARIABLES
  asked,      \* the request the client makes
  frames,     \* frames on their way to the server
  r,          \* the server's request, once it has begun
  status,     \* "running", or what ended a side: "refused" or "threw"
  called,     \* whether the request has been given to its handler
  answer,     \* frames on their way to the client
  file,       \* what the file that is read holds
  data,       \* the client's req.data
  result      \* the client's req.result, or -1

vars == <<asked, frames, r, status, called, answer, file, data, result>>

None == -1

\* A string is modelled by what it is and the indices of its bytes.
Text(what, len) == [j \in 1 .. len |-> <<what, j>>]

----------------------------------------------------------------------------
(* Frames: queue_utils.cc and frame.cc.  A frame has its type, the length  *)
(* field and the data byte of its header, and its payload: a string or a   *)
(* number, and how many bytes that takes.                                  *)

Header(type, byte) == [type |-> type, size |-> 0, byte |-> byte, payload |-> <<>>, bytes |-> 0]

Payload_Bug(type, len, what) ==    \* the length is taken modulo MaxLen
  [type |-> type, size |-> len % MaxLen, byte |-> 0, payload |-> what, bytes |-> len]

Payload(type, len, what) ==
  [type |-> type, size |-> len % (MaxLen + 1), byte |-> 0, payload |-> what, bytes |-> len]

Int32(type, n) ==
  IF n < ByteMod THEN Header(type, n) ELSE Payload(type, IntSize, n)

Int64(type, n) ==
  IF n < IntMod THEN Int32(type, n) ELSE Payload(type, LongSize, n)

String(type, s) == Payload(type, Len(s), s)

Blocks_Bug(len) ==    \* one block too few: what is left may be too large
  IF len > MaxLen THEN (len - MaxLen) \div BlockSize ELSE 0

\* How many blocks queue_buffer's loop splits off.
Blocks(len) ==
  IF len > MaxLen THEN (len - MaxLen + BlockSize - 1) \div BlockSize ELSE 0

Buffer_Bug(type, s) ==    \* forgets what is left after the blocks
  LET n == Blocks(Len(s)) IN
  IF n = 0 THEN IF s = <<>> THEN <<>> ELSE <<String(type, s)>>
  ELSE <<Int32("io_count", Len(s))>>
       \o [k \in 1 .. n |-> String(type, SubSeq(s, (k - 1) * BlockSize + 1, k * BlockSize))]

\* queue_buffer
Buffer(type, s) ==
  LET n    == Blocks(Len(s))
      left == SubSeq(s, n * BlockSize + 1, Len(s))
  IN  (IF n = 0 THEN <<>> ELSE <<Int32("io_count", Len(s))>>)
      \o [k \in 1 .. n |-> String(type, SubSeq(s, (k - 1) * BlockSize + 1, k * BlockSize))]
      \o (IF left = <<>> THEN <<>> ELSE <<String(type, left)>>)

GetSize(f) == IF f.size # 0 THEN f.size ELSE IF f.byte # 0 THEN 1 ELSE 0

GetU64(f) == IF f.size = 0 THEN f.byte ELSE f.payload

\* get_u64 throws at an integer of any other length, get_u32 also at a number
\* too large for it.  Nobody catches either: it is the end of the process.
IsU64(f) == f.size \in {0, IntSize, LongSize}
IsU32(f) == IsU64(f) /\ GetU64(f) < IntMod

Throws(f) ==
  \/ f.type \in {"io_count", "offset", "stat_size"} /\ ~IsU64(f)
  \/ f.type \in {"fd", "result"} /\ ~IsU32(f)

GetData(f) == IF f.size = 0 THEN <<>> ELSE SubSeq(f.payload, 1, GetSize(f))

----------------------------------------------------------------------------
(* The client's request functions: requests.cc, and fget for a read from   *)
(* an offset.                                                              *)

Request(type, path, bytes, n, offset, fd) ==
  [type |-> type, path |-> path, data |-> bytes, n |-> n, offset |-> offset, fd |-> fd]

NoArgs == Request("none", <<>>, <<>>, None, None, None)

Texts(what, sizes) == {Text(what, len) : len \in sizes}

\* Requests as they are made: path_2 of link is data, and n the number of bytes
\* of a large write.  The offset of a write is an uint32_t, that of a read an
\* off_t.
PathRequests ==
  {Request(type, p, <<>>, None, None, None) :
     type \in {"stat", "list", "read"}, p \in Texts("path", PathSizes)}

ReadsFrom ==
  {Request("read", p, <<>>, None, o, None) :
     p \in Texts("path", PathSizes), o \in Offsets \ {None, 0}}

Writes ==
  {Request("write", p, s, IF Len(s) > MaxLen THEN Len(s) ELSE None, o, None) :
     p \in Texts("path", PathSizes), s \in Texts("data", DataSizes), o \in Offsets \cap (-1 .. IntMod - 1)}

Opens == {Request("open", p, <<>>, None, None, fd) : p \in Texts("path", PathSizes), fd \in Fds}

Closes == {Request("close", <<>>, <<>>, None, None, fd) : fd \in Fds \ {None}}

Links ==
  {Request("link", p, q, None, None, None) :
     p \in Texts("path", PathSizes), q \in Texts("dst", PathSizes)}

Requests == PathRequests \cup ReadsFrom \cup Writes \cup Opens \cup Closes \cup Links

Begin(q)   == <<Header("request", q.type)>>
Path(s)    == <<String("path", s)>>
Offset(q)  == IF q.offset = None THEN <<>> ELSE <<Int64("offset", q.offset)>>
Fd(q)      == IF q.fd = None THEN <<>> ELSE <<Int32("fd", q.fd)>>
Submitted  == <<Header("submit", 0)>>

Encode(q) ==
  CASE q.type \in {"stat", "list"} -> Begin(q) \o Path(q.path) \o Submitted
    [] q.type = "read"  -> Begin(q) \o Path(q.path) \o Offset(q) \o Submitted
    [] q.type = "write" -> Begin(q) \o Offset(q) \o Path(q.path) \o Buffer("data", q.data) \o Submitted
    [] q.type = "open"  -> Begin(q) \o Fd(q) \o Path(q.path) \o Submitted
    [] q.type = "close" -> Begin(q) \o Fd(q) \o Submitted
    [] q.type = "link"  -> Begin(q) \o Path(q.path) \o Path(q.data) \o Submitted

Init ==
  /\ asked \in Requests
  /\ frames = Encode(asked)
  /\ r = NoArgs /\ status = "running" /\ called = FALSE
  /\ answer = <<>> /\ file = <<>> /\ data = <<>> /\ result = -1

----------------------------------------------------------------------------
(* The server: frame_handler, and read_slurp.                              *)

ArgMask ==
  [none  |-> {},
   stat  |-> {"path"}, list |-> {"path"}, read |-> {"path", "io_count", "offset"},
   write |-> {"path", "data", "io_count", "offset"},
   open  |-> {"path", "fd"}, close |-> {"fd"}, link |-> {"path"}]

\* A path goes where data would when there is one already that is not empty.
SetArg(f) ==
  r' = CASE f.type = "path" /\ r.path = <<>> -> [r EXCEPT !.path = GetData(f)]
         [] f.type = "path" /\ r.path # <<>> -> [r EXCEPT !.data = GetData(f)]
         [] f.type = "data"     -> [r EXCEPT !.data = @ \o GetData(f)]
         [] f.type = "fd"       -> [r EXCEPT !.fd = GetU64(f)]
         [] f.type = "io_count" -> [r EXCEPT !.n = GetU64(f)]
         [] f.type = "offset"   -> [r EXCEPT !.offset = GetU64(f)]

NextFrame == status = "running" /\ ~called /\ frames # <<>> /\ frames' = Tail(frames)

HandleRequest ==
  /\ NextFrame /\ Head(frames).type = "request"
  /\ r' = [NoArgs EXCEPT !.type = Head(frames).byte]
  /\ UNCHANGED <<asked, status, called, answer, file, data, result>>

HandleArgument ==
  /\ NextFrame /\ Head(frames).type \notin {"request", "submit"}
  /\ LET allowed == Head(frames).type \in ArgMask[r.type] IN
     IF allowed /\ ~Throws(Head(frames))
     THEN SetArg(Head(frames)) /\ UNCHANGED status
     ELSE status' = (IF allowed THEN "threw" ELSE "refused") /\ UNCHANGED r
  /\ UNCHANGED <<asked, called, answer, file, data, result>>

HandleSubmit ==
  /\ NextFrame /\ Head(frames).type = "submit"
  /\ called' = TRUE
  /\ \/ /\ r.type = "read"
        /\ \E len \in SlurpSizes :
             /\ file' = Text("file", len)
             /\ answer' = << Int64("stat_size", len), String("recv_data", Text("file", len)),
                             Int32("result", 0) >>
     \/ \E err \in {0, ByteMod - 1} : answer' = <<Int32("result", err)>> /\ UNCHANGED file
  /\ UNCHANGED <<asked, r, status, data, result>>

----------------------------------------------------------------------------
(* The client: frame_handler of synced.cc.                                 *)

NextAnswer ==
  /\ status = "running" /\ result = -1 /\ answer # <<>> /\ answer' = Tail(answer)
  /\ status' = IF Throws(Head(answer)) THEN "threw" ELSE status

HandleSize ==
  /\ NextAnswer /\ Head(answer).type = "stat_size"
  /\ UNCHANGED <<asked, frames, r, called, file, data, result>>

HandleData ==
  /\ NextAnswer /\ Head(answer).type = "recv_data"
  /\ data' = data \o GetData(Head(answer))
  /\ UNCHANGED <<asked, frames, r, called, file, result>>

HandleResult ==
  /\ NextAnswer /\ Head(answer).type = "result"
  /\ result' = IF Throws(Head(answer)) THEN result ELSE GetU64(Head(answer))
  /\ UNCHANGED <<asked, frames, r, called, file, data>>

Done == (result # -1 \/ status # "running") /\ UNCHANGED vars

Next ==
  \/ HandleRequest \/ HandleArgument \/ HandleSubmit
  \/ HandleSize \/ HandleData \/ HandleResult \/ Done

Spec == Init /\ [][Next]_vars

----------------------------------------------------------------------------

\* What a handler is to see of a request: the request itself, but of a link
\* whose first path is empty the second path in place of the first.
Seen(q) ==
  IF q.type = "link" /\ q.path = <<>>
  THEN Request("link", q.data, <<>>, q.n, q.offset, q.fd) ELSE q

\* A handler sees the request the client made, whatever form its numbers took
\* and however its data was cut into frames; no frame is refused and no number,
\* of the request or its answer, makes the side that reads it throw.  (One
\* request arrives otherwise than it was made: link with an empty first path.)
RequestArrives == status = "running" /\ (called => r = Seen(asked))

\* A read that succeeds gives the client the file.
FileArrives == result = 0 /\ asked.type = "read" => data = file

\* "followed by a payload whose (possibly zero) length is stored in the header"
\* (NOTES/protocol.md): the length field says how long the payload is.
LengthStored ==
  /\ \A k \in DOMAIN frames : frames[k].size = frames[k].bytes
  /\ \A k \in DOMAIN answer : answer[k].size = answer[k].bytes
=============================================================================
