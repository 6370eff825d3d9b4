------------------------------- MODULE Tools -------------------------------
(***************************************************************************)
(* The programs that make one request and print the answer as it comes:    *)
(* fcat, fdir and fstat; and fping, which pings from one thread and counts *)
(* the pongs in another.  Each reads until the server closes the           *)
(* connection, which it does once the program has shut its side down.      *)
(* Without --count fping would never do that.                              *)
(***************************************************************************)
EXTENDS Connection

CONSTANT MaxPings    \* most pings that fping sends                (a bound)

VARIABLES
  count,    \* fping: pings it was told to send
  pings,    \* fping: pings it has yet to send
  pongs     \* fping: pongs it has printed

toolVars == <<count, pings, pongs>>

Printers == {"fcat", "fdir", "fstat"}
ToolSet  == Printers \cup {"fping"}

InitTool ==
  /\ pc = "start"
  /\ count \in (IF program = "fping" THEN 1 .. MaxPings ELSE {0})
  /\ pings = 0 /\ pongs = 0

\* What each program asks for; its answers are the frames of that type.
Asks == [p \in Printers |-> CASE p = "fcat" -> "read" [] p = "fdir" -> "list" [] OTHER -> "stat"]

----------------------------------------------------------------------------

SendRequest ==
  /\ pc = "start" /\ program \in Printers
  /\ \/ /\ Send(<<Frame("request", 0, Call(Asks[program], "file"), 0, <<>>)>>) \/ SendFails
        /\ pc' = "read"
        /\ UNCHANGED <<program, exit, result, taken, rcvd, shut>>
     \/ Killed
  /\ UNCHANGED toolVars


\* An attribute, a name or data is printed; fcat acknowledges data first.
HandleItem ==
  /\ pc = "read" /\ program \in Printers /\ rcvd # <<>>
  /\ Head(rcvd).type = Asks[program]
  /\ \/ /\ IF program = "fcat" THEN Send(<<Signal("ack", 0)>>) \/ SendFails
                               ELSE UNCHANGED toServer
        /\ rcvd' = Tail(rcvd)
        /\ taken' = Append(taken, Head(rcvd).value)
        /\ UNCHANGED <<program, pc, exit, result, shut>>
     \/ program = "fcat" /\ Killed
  /\ UNCHANGED toolVars

\* The result ends the request but not the loop.
HandleResult ==
  /\ pc = "read" /\ program \in Printers /\ rcvd # <<>>
  /\ Head(rcvd).type = "result"
  /\ result' = Head(rcvd).value
  /\ shut' = TRUE
  /\ rcvd' = Tail(rcvd)
  /\ UNCHANGED <<program, pc, exit, taken, toServer, toolVars>>

\* main's last lines.  the_result is 0 from the start: a program that is cut off
\* before the result succeeds.
Finish ==
  /\ program \in Printers
  /\ \E looped \in {0, -1} :
       /\ AtEnd(looped)
       /\ Exit(IF looped = 0 /\ result = Ok THEN "success" ELSE "failure")
  /\ UNCHANGED <<program, result, taken, rcvd, toServer, toolVars>>

----------------------------------------------------------------------------
(* fping: pinger_start and event_loop_start.                               *)

StartThreads ==
  /\ pc = "start" /\ program = "fping"
  /\ pc' = "read" /\ pings' = count
  /\ UNCHANGED <<program, exit, result, taken, rcvd, shut, toServer, count, pongs>>

SendPing_Bug ==    \* shuts down before the last ping
  /\ pc = "read" /\ program = "fping" /\ pings > 0
  /\ pings' = pings - 1
  /\ IF pings = 1 THEN UNCHANGED toServer ELSE Send(<<Signal("ping", 0)>>)
  /\ shut' = (pings = 1)
  /\ UNCHANGED <<program, pc, exit, result, taken, rcvd, count, pongs>>

\* The pinger shuts the connection's sending side down after its last ping.
SendPing ==
  /\ pc = "read" /\ program = "fping" /\ pings > 0
  /\ \/ /\ Send(<<Signal("ping", 0)>>) \/ SendFails
        /\ pings' = pings - 1
        /\ shut' = (pings = 1)
        /\ UNCHANGED <<program, pc, exit, result, taken, rcvd>>
     \/ Killed /\ UNCHANGED pings
  /\ UNCHANGED <<count, pongs>>

HandlePong ==
  /\ pc = "read" /\ program = "fping" /\ rcvd # <<>>
  /\ Head(rcvd).type = "pong"
  /\ pongs' = pongs + 1
  /\ rcvd' = Tail(rcvd)
  /\ UNCHANGED <<program, pc, exit, result, taken, shut, toServer, count, pings>>

\* main waits for the event loop only.
FinishPings ==
  /\ program = "fping"
  /\ \E looped \in {0, -1} :
       AtEnd(looped) /\ Exit(IF looped = 0 THEN "success" ELSE "failure")
  /\ UNCHANGED <<program, result, taken, rcvd, toServer, toolVars>>

Pinger == SendPing

ToolStep ==
  \/ SendRequest \/ HandleItem \/ HandleResult \/ Finish
  \/ StartThreads \/ HandlePong \/ FinishPings
=============================================================================
