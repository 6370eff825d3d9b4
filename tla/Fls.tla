-------------------------------- MODULE Fls --------------------------------
(***************************************************************************)
(* fls and the session that serves it.  fls asks for the attributes of its *)
(* path; if that is a directory it asks for a list, and asks for the       *)
(* attributes of each entry as soon as its name arrives, under a request   *)
(* id of its own.  It shuts down its sending side when it awaits nothing   *)
(* more, which ends the session and, with it, fls.  Both sides block when  *)
(* the pipe they write to is full.                                         *)
(***************************************************************************)
EXTENDS Integers, Sequences, FiniteSets, SequencesExt, Functions

CONSTANTS
  Names,      \* what a directory may hold
  Path,       \* the path given to fls
  MaxId,      \* entries have request ids 1 .. MaxId      (255 in the code)
  ReplyCap,   \* frames the pipe to fls holds
  RequestCap  \* requests the pipe to the server holds

\* The value of an attribute is modelled by the path it is an attribute of.
Default == "default"

ASSUME FlsAssumption ==
  /\ IsFiniteSet(Names) /\ Path \notin Names /\ Default \notin Names \cup {Path}
  /\ MaxId \in Nat \ {0}
  /\ ReplyCap \in Nat \ {0}
  /\ RequestCap \in Nat \ {0}

VARIABLES
  stats,      \* fls: the_stats, a function on the ids in use
  result,     \* fls: the_result
  output,     \* fls: the lines it has written
  sending,    \* fls: the request it is writing, if any
  shut,       \* fls: whether it has shut down its sending side
  client,     \* fls: running, done, or the way it died
  requests,   \* requests on their way to the server
  pipe,       \* frames on their way to fls
  reply,      \* server: frames queued and not written yet
  server,     \* server: running or exited
  files,      \* the paths that exist
  dirs,       \* the paths that are directories, if they exist
  listing     \* the names list() has found

flsVars    == <<stats, result, output, sending, shut, client>>
worldVars  == <<files, dirs>>
serverVars == <<reply, server, listing>>
vars == <<flsVars, requests, pipe, serverVars, worldVars>>

Request(type, id, path) == [type |-> type, id |-> id, path |-> path]
Frame(type, id, of)     == [type |-> type, id |-> id, of |-> of]

NewStat(path) == [path |-> path, mode |-> Default, size |-> Default]

Init ==
  /\ stats = [i \in {0} |-> NewStat(Path)]
  /\ result = 0 /\ output = <<>> /\ shut = FALSE /\ client = "running"
  /\ sending = <<Request("stat", 0, Path)>>
  /\ requests = <<>> /\ pipe = <<>>
  /\ reply = <<>> /\ server = "running" /\ listing = <<>>
  /\ files \in {S \cup {Path} : S \in SUBSET Names}
  /\ dirs \in {{}, {Path}, {Path} \cup Names}

----------------------------------------------------------------------------
(* The session: stat and list are served on its main thread, one request   *)
(* at a time, and the response is flushed before the next frame is read.   *)

\* A directory's number of links is sent if it is not 1, a file's size always.
Attributes(id, p) ==
  IF p \in dirs THEN {<<>>, <<Frame("nlink", id, p)>>} ELSE {<<Frame("size", id, p)>>}

Failed(id) == <<Frame("error", id, Path)>>

ServeStat(r) ==
  /\ r.type = "stat"
  /\ IF r.path \in files
       THEN \E more \in Attributes(r.id, r.path) :
              reply' = <<Frame("mode", r.id, r.path)>> \o more \o <<Frame("result", r.id, Path)>>
       ELSE reply' = Failed(r.id)
  /\ UNCHANGED listing

ServeList(r) ==
  /\ r.type = "list"
  /\ IF r.path \in files
       THEN /\ listing' \in SetToSeqs(files \ {Path})
            /\ reply' = [k \in DOMAIN listing' |-> Frame("dentry", r.id, listing'[k])]
                        \o <<Frame("result", r.id, Path)>>
       ELSE reply' = Failed(r.id) /\ UNCHANGED listing

Serve ==
  /\ server = "running" /\ reply = <<>> /\ requests # <<>>
  /\ requests' = Tail(requests)
  /\ ServeStat(Head(requests)) \/ ServeList(Head(requests))
  /\ UNCHANGED <<flsVars, pipe, server, worldVars>>

WriteReply ==
  /\ reply # <<>> /\ Len(pipe) < ReplyCap
  /\ pipe' = Append(pipe, Head(reply))
  /\ reply' = Tail(reply)
  /\ UNCHANGED <<flsVars, requests, server, listing, worldVars>>

\* The session ends when its input does.
ServerExits ==
  /\ server = "running" /\ reply = <<>> /\ requests = <<>> /\ shut
  /\ server' = "exited"
  /\ UNCHANGED <<flsVars, requests, pipe, reply, listing, worldVars>>

\* Anyone may remove a file at any time.
Unlink ==
  /\ \E p \in files : files' = files \ {p}
  /\ UNCHANGED <<flsVars, requests, pipe, serverVars, dirs>>

----------------------------------------------------------------------------
(* fls: main and frame_handler.                                            *)

Set(i, st) == stats' = [j \in DOMAIN stats \cup {i} |-> IF j = i THEN st ELSE stats[j]]

Erase(i) == stats' = Restrict(stats, DOMAIN stats \ {i})

NextId_Bug ==    \* never says that there is none left
  CHOOSE i \in 1 .. MaxId + 1 :
    i \notin DOMAIN stats /\ \A j \in 1 .. MaxId + 1 : j \in DOMAIN stats \/ i <= j

NextId_Wraps ==    \* starts again with the first one
  LET unused == 1 .. MaxId \ DOMAIN stats IN
  IF unused = {} THEN 1 ELSE CHOOSE i \in unused : \A j \in unused : i <= j

\* The first id not in use, or 0 when there is none left.
NextId ==
  LET unused == 1 .. MaxId \ DOMAIN stats IN
  IF unused = {} THEN 0 ELSE CHOOSE i \in unused : \A j \in unused : i <= j

Line(text, st) == Append(output, [text |-> text, st |-> st])

\* The attributes of a path in the_stats arrive.
HandleAttribute(f) ==
  /\ f.type \in {"mode", "nlink", "size"} /\ f.id \in DOMAIN stats
  /\ stats' = [stats EXCEPT ![f.id].mode = IF f.type = "mode" THEN f.of ELSE @,
                            ![f.id].size = IF f.type = "size" THEN f.of ELSE @]
  /\ UNCHANGED <<result, output, sending, shut, client>>

\* A stat request has failed: its entry stays in the_stats.
HandleError(f) ==
  /\ f.type = "error" /\ f.id \in DOMAIN stats
  /\ result' = 1 /\ shut' = TRUE
  /\ UNCHANGED <<stats, output, sending, client>>

IsDirectory(f) == f.id = 0 /\ stats[f.id].mode \in dirs

\* The path given to fls turns out to be a directory.
HandleRoot(f) ==
  /\ f.type = "result" /\ f.id \in DOMAIN stats /\ IsDirectory(f)
  /\ Erase(0)
  /\ sending' = <<Request("list", 0, Path)>>
  /\ UNCHANGED <<result, output, shut, client>>

HandlePrint(f) ==
  /\ f.type = "result" /\ f.id \in DOMAIN stats /\ ~IsDirectory(f)
  /\ output' = Line("printed", stats[f.id])
  /\ Erase(f.id)
  /\ shut' = (shut \/ DOMAIN stats' = {})
  /\ UNCHANGED <<result, sending, client>>

HandleName_Bug(f) ==    \* drops the names that there is no id for
  /\ f.type = "dentry" /\ f.id \notin DOMAIN stats
  /\ IF NextId # 0
       THEN /\ sending' = <<Request("stat", NextId, f.of)>>
            /\ Set(NextId, NewStat(f.of))
       ELSE UNCHANGED <<sending, stats>>
  /\ UNCHANGED <<result, output, shut, client>>

\* An entry of the directory: ask for its attributes, or skip it.
HandleName(f) ==
  /\ f.type = "dentry" /\ f.id \notin DOMAIN stats
  /\ IF NextId # 0
       THEN /\ sending' = <<Request("stat", NextId, f.of)>>
            /\ Set(NextId, NewStat(f.of))
            /\ UNCHANGED output
       ELSE /\ output' = Line("skipped", NewStat(f.of))
            /\ UNCHANGED <<sending, stats>>
  /\ UNCHANGED <<result, shut, client>>

HandleListed_Bug(f) ==    \* an empty directory is never done
  /\ f.type \in {"result", "error"} /\ f.id \notin DOMAIN stats
  /\ result' = IF f.type = "error" THEN 1 ELSE result
  /\ shut' = (shut \/ result' # 0)
  /\ UNCHANGED <<stats, output, sending, client>>

\* The result of the list request.
HandleListed(f) ==
  /\ f.type \in {"result", "error"} /\ f.id \notin DOMAIN stats
  /\ result' = IF f.type = "error" THEN 1 ELSE result
  /\ shut' = (shut \/ result' # 0 \/ stats = <<>>)
  /\ UNCHANGED <<stats, output, sending, client>>

\* "Unfrag", and abort().
HandleUnknown(f) ==
  /\ IF f.type = "dentry" THEN f.id \in DOMAIN stats
     ELSE f.type \in {"mode", "nlink", "size"} /\ f.id \notin DOMAIN stats
  /\ client' = "aborted"
  /\ UNCHANGED <<stats, result, output, sending, shut>>

Handle ==
  /\ client = "running" /\ sending = <<>> /\ pipe # <<>>
  /\ pipe' = Tail(pipe)
  /\ LET f == Head(pipe) IN
     \/ HandleAttribute(f) \/ HandleError(f) \/ HandleRoot(f) \/ HandlePrint(f)
     \/ HandleName(f) \/ HandleListed(f) \/ HandleUnknown(f)
  /\ UNCHANGED <<requests, serverVars, worldVars>>

\* write_in_full blocks while the pipe is full, and fails once it is shut down.
Send ==
  /\ client = "running" /\ sending # <<>>
  /\ IF shut
       THEN client' = "failed_write" /\ UNCHANGED <<sending, requests>>
       ELSE /\ Len(requests) < RequestCap
            /\ requests' = requests \o sending
            /\ sending' = <<>>
            /\ UNCHANGED client
  /\ UNCHANGED <<stats, result, output, shut, pipe, serverVars, worldVars>>

\* read() returns 0: the event loop ends, and so does fls.
Finish ==
  /\ client = "running" /\ sending = <<>> /\ pipe = <<>> /\ server = "exited"
  /\ client' = "done"
  /\ UNCHANGED <<stats, result, output, sending, shut, requests, pipe, serverVars, worldVars>>

Done == client = "done" /\ UNCHANGED vars

Server == Serve \/ WriteReply \/ ServerExits
Client == Handle \/ Send \/ Finish

Next == Server \/ Unlink \/ Client \/ Done

Spec == Init /\ [][Next]_vars

\* Both processes run on; removing files is up to others.
FairSpec == Spec /\ WF_vars(Server) /\ WF_vars(Client)

----------------------------------------------------------------------------

Paths == Names \cup {Path}

StatsOf(p) == {i \in DOMAIN stats : stats[i].path = p}
LinesOf(p) == {k \in DOMAIN output : output[k].st.path = p}

\* Every variable has its type; in particular next_id() never hands out an id
\* beyond the last one.
TypeOK ==
  /\ DOMAIN stats \subseteq 0 .. MaxId
  /\ \A i \in DOMAIN stats : stats[i].path \in Paths
  /\ result \in {0, 1} /\ shut \in BOOLEAN
  /\ client \in {"running", "done", "aborted", "failed_write"}
  /\ server \in {"running", "exited"}
  /\ Len(sending) <= 1 /\ Len(requests) <= RequestCap /\ Len(pipe) <= ReplyCap
  /\ files \subseteq Paths

\* An id in use names one unanswered request: what arrives for an id are the
\* attributes of the path that the_stats has for it, and a line shows them.
AttributesMatch ==
  /\ \A i \in DOMAIN stats : {stats[i].mode, stats[i].size} \subseteq {stats[i].path, Default}
  /\ \A k \in DOMAIN output : LET st == output[k].st IN
       IF output[k].text = "printed" THEN st.mode = st.path /\ (st.size = Default <=> st.path \in dirs)
                                     ELSE st.mode = Default

\* fls neither aborts on a frame it does not expect nor writes to a connection
\* it has shut down, although it does that on the first error while answers are
\* still coming; and when it ends, each entry of the directory has been printed
\* or skipped once, or its request has failed, and the same holds of a path that
\* is none.  It reports success only if no request has failed.
EntriesAccounted ==
  /\ client \in {"running", "done"}
  /\ client = "done" =>
       /\ \A p \in IF Path \in dirs THEN Range(listing) ELSE {Path} :
            Cardinality(StatsOf(p)) + Cardinality(LinesOf(p)) = 1
       /\ result = 0 => stats = <<>>

\* fls ends, provided that the pipe to the server holds the requests it makes
\* while the list is still coming.
Terminates == <>(client = "done")
=============================================================================
