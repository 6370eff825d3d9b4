-------------------------------- MODULE Fget --------------------------------
(***************************************************************************)
(* fget, run again and again on one file until it has it: it may be        *)
(* killed, or its connection cut, at any moment, and --continue goes on    *)
(* from what the local file holds.  The file on the server may grow; it is *)
(* a regular file or one that is generated when it is read (read_slurp).   *)
(* Its k-th byte is modelled by the number k.                              *)
(***************************************************************************)
EXTENDS Integers, Sequences

CONSTANTS
  Kinds,      \* what the file on the server may be
  Options,    \* what fget is run with
  MaxSize,    \* size the file on the server grows to            (a bound)
  MaxLocal,   \* size of a local file that is continued          (a bound)
  MaxFaults,  \* kills, cuts and errors                          (a bound)
  ChunkMax    \* most bytes of a read                   (4096 in the code)

ASSUME FgetAssumption ==
  /\ Kinds \subseteq {"regular", "generated"}
  /\ Options \subseteq {"none", "clobber", "continue"}
  /\ MaxSize \in Nat /\ MaxLocal \in Nat /\ MaxFaults \in Nat
  /\ ChunkMax \in Nat \ {0}

VARIABLES
  kind,       \* regular, or generated by the server
  size,       \* size of the file on the server
  faults,     \* faults so far
  exists,     \* whether there is a local file
  local,      \* what it holds
  position,   \* output_fd's position
  run,        \* running, or how the last run ended
  nWritten,   \* n_written
  expected,   \* the_expected_size
  result,     \* the_result
  heard,      \* whether this run has had the answer's last frame
  offset,     \* server: the request's offset, -1 if it has none
  at,         \* server: where it reads on
  server,     \* server: gone, opening, reading or answered
  pipe        \* frames on their way to fget

worldVars  == <<kind, size, faults>>
fileVars   == <<exists, local, position>>
runVars    == <<run, nWritten, expected, result, heard>>
serverVars == <<offset, at, server, pipe>>
vars == <<worldVars, fileVars, runVars, serverVars>>

Frame(type, n, bytes) == [type |-> type, n |-> n, bytes |-> bytes]

Init ==
  /\ kind \in Kinds
  /\ size \in 0 .. MaxSize
  /\ faults = 0
  /\ exists = FALSE /\ local = <<>> /\ position = 0
  /\ run = "idle" /\ nWritten = 0 /\ expected = 0 /\ result = 0 /\ heard = FALSE
  /\ offset = -1 /\ at = 0 /\ server = "gone" /\ pipe = <<>>

\* Bytes first .. last of the file on the server.
Bytes(first, last) == [k \in 1 .. last - first + 1 |-> first + k - 1]

Fault == faults < MaxFaults /\ faults' = faults + 1

----------------------------------------------------------------------------
(* fget: main, open_file and frame_handler.                                *)

\* open_file: where the file stands, and what n_written starts with.
OpenFile_Bug(option) ==    \* without lseek
  /\ exists' = TRUE
  /\ local' = IF option = "clobber" THEN <<>> ELSE local
  /\ position' = 0
  /\ nWritten' = IF option = "continue" THEN Len(local) ELSE 0

OpenFile_Forgets(option) ==    \* without n_written = mark
  /\ exists' = TRUE
  /\ local' = IF option = "clobber" THEN <<>> ELSE local
  /\ position' = IF option = "continue" THEN Len(local) ELSE 0
  /\ nWritten' = 0

OpenFile(option) ==
  /\ exists' = TRUE
  /\ local' = IF option = "clobber" THEN <<>> ELSE local
  /\ position' = IF option = "continue" THEN Len(local) ELSE 0
  /\ nWritten' = IF option = "continue" THEN Len(local) ELSE 0

\* The file must not exist yet unless it is to be overwritten or continued.
\* The read request has an offset unless that is 0.
Start(option) ==
  /\ run # "running"
  /\ option = "continue" => Len(local) <= MaxLocal
  /\ IF option = "none" /\ exists
       THEN run' = "failed" /\ UNCHANGED <<fileVars, nWritten, expected, result, heard, serverVars>>
       ELSE /\ OpenFile(option)
            /\ run' = "running" /\ expected' = 0 /\ result' = 0 /\ heard' = FALSE
            /\ offset' = IF nWritten' = 0 THEN -1 ELSE nWritten'
            /\ server' = "opening" /\ pipe' = <<>> /\ at' = 0
  /\ UNCHANGED worldVars

HandleSize ==
  /\ Head(pipe).type = "size"
  /\ expected' = Head(pipe).n
  /\ UNCHANGED <<fileVars, run, nWritten, result, heard>>

\* write() at the file's position.
Overwrite(bytes) ==
  /\ local' = SubSeq(local, 1, position) \o bytes \o SubSeq(local, position + Len(bytes) + 1, Len(local))
  /\ position' = position + Len(bytes)
  /\ UNCHANGED exists

HandleData ==
  /\ Head(pipe).type = "data"
  /\ nWritten' = nWritten + Len(Head(pipe).bytes)
  /\ Overwrite(Head(pipe).bytes)
  /\ UNCHANGED <<run, expected, result, heard>>

HandleResult ==
  /\ Head(pipe).type = "result"
  /\ result' = Head(pipe).n
  /\ heard' = TRUE
  /\ UNCHANGED <<fileVars, run, nWritten, expected>>

Handle ==
  /\ run = "running" /\ pipe # <<>>
  /\ HandleSize \/ HandleData \/ HandleResult
  /\ pipe' = Tail(pipe)
  /\ UNCHANGED <<worldVars, offset, at, server>>

\* read() returns 0: the session ends when fget has shut its side down.
Finish ==
  /\ run = "running" /\ pipe = <<>>
  /\ heard \/ server = "gone"
  /\ run' = IF result = 0 /\ nWritten = expected THEN "ok" ELSE "failed"
  /\ server' = "gone"
  /\ UNCHANGED <<worldVars, fileVars, nWritten, expected, result, heard, offset, at, pipe>>

\* fget is killed, or dies of an error, perhaps with data partly written.
Kill ==
  /\ run = "running" /\ Fault
  /\ run' = "killed" /\ server' = "gone"
  /\ IF pipe # <<>> /\ Head(pipe).type = "data"
       THEN \E m \in 0 .. Len(Head(pipe).bytes) : Overwrite(SubSeq(Head(pipe).bytes, 1, m))
       ELSE UNCHANGED fileVars
  /\ pipe' = <<>>
  /\ UNCHANGED <<kind, size, nWritten, expected, result, heard, offset, at>>

----------------------------------------------------------------------------
(* The server's read() and read_slurp().                                   *)

Answer(frames) == pipe' = pipe \o frames

ServeError ==
  /\ server \in {"opening", "reading"} /\ Fault
  /\ server' = "answered" /\ Answer(<<Frame("result", 1, <<>>)>>)
  /\ UNCHANGED <<kind, size, fileVars, runVars, offset, at>>

\* Where read() starts.
ReadFrom_Bug == 0    \* ignores the offset

ReadFrom == IF offset < 0 THEN 0 ELSE offset

\* The size is announced that the file has now; it may grow while it is read.
ServeOpen ==
  /\ server = "opening" /\ kind = "regular"
  /\ server' = "reading"
  /\ at' = ReadFrom
  /\ Answer(<<Frame("size", size, <<>>)>>)
  /\ UNCHANGED <<worldVars, fileVars, runVars, offset>>

\* read_slurp sends the whole file, from whatever offset it was requested.
ServeSlurp ==
  /\ server = "opening" /\ kind = "generated"
  /\ server' = "answered"
  /\ Answer(<<Frame("size", size, <<>>), Frame("data", 0, Bytes(1, size)), Frame("result", 0, <<>>)>>)
  /\ UNCHANGED <<worldVars, fileVars, runVars, offset, at>>

\* One round of read()'s loop: some data, or the end of the file.
ServeRead ==
  /\ server = "reading"
  /\ IF at < size
       THEN \E n \in 1 .. ChunkMax :
              /\ at + n <= size
              /\ Answer(<<Frame("data", 0, Bytes(at + 1, at + n))>>)
              /\ at' = at + n
              /\ UNCHANGED server
       ELSE server' = "answered" /\ Answer(<<Frame("result", 0, <<>>)>>) /\ UNCHANGED at
  /\ UNCHANGED <<worldVars, fileVars, runVars, offset>>

----------------------------------------------------------------------------
(* The rest of the world.                                                  *)

\* The file on the server is appended to.
Grow ==
  /\ size < MaxSize
  /\ size' = size + 1
  /\ UNCHANGED <<kind, faults, fileVars, runVars, serverVars>>

\* The connection is lost, with some of what is on its way.
Cut ==
  /\ run = "running" /\ server # "gone" /\ Fault
  /\ server' = "gone"
  /\ \E n \in 0 .. Len(pipe) : pipe' = SubSeq(pipe, 1, n)
  /\ UNCHANGED <<kind, size, fileVars, runVars, offset, at>>

Client == Handle \/ Finish
Server == ServeError \/ ServeOpen \/ ServeSlurp \/ ServeRead

Next ==
  \/ \E option \in Options : Start(option)
  \/ Client \/ Kill
  \/ Server \/ Grow \/ Cut

Spec == Init /\ [][Next]_vars

\* Both processes run on, and fget is run with --continue again and again.
FairSpec ==
  /\ Spec
  /\ WF_vars(Client) /\ WF_vars(Server)
  /\ WF_vars(run # "ok" /\ Start("continue"))

----------------------------------------------------------------------------

\* Whatever was interrupted where, the local file holds the beginning of the
\* file on the server, unless that is generated: a download that is continued
\* (fget.cc, open_file) neither repeats nor skips a byte, and a killed one
\* leaves nothing behind that a later one would build on in the wrong place.
LocalIsPrefix == kind = "regular" => Len(local) <= size /\ local = Bytes(1, Len(local))

\* fget reports success only if the local file is what the file on the server
\* was when its size was announced, or if the connection was cut before
\* anything came, which fget takes for an empty file.  A generated file that is
\* continued is the exception: read_slurp sends all of it again, and a cut at
\* the right moment hides that from fget's comparison of sizes.
OkMeansWhole ==
  run = "ok" /\ (kind = "regular" \/ offset = -1) => local = Bytes(1, expected)

\* A download of a regular file that is continued after each failure succeeds
\* in the end, although the file may have grown between two reads of it.
ContinuesToTheEnd == kind = "regular" => <>(run = "ok")
=============================================================================
