------------------------------ MODULE Requests ------------------------------
(***************************************************************************)
(* What a session promises its client, request by request: a request is    *)
(* answered once, all its data comes before the answer, and when the       *)
(* client has the answer nothing of the request is on its way any more, so *)
(* that its id may be used again.  Requests are answered in any order.     *)
(***************************************************************************)
EXTENDS Naturals

CONSTANT Ids    \* request ids

VARIABLES
  phase,    \* per id: free, waiting for its result, or answered
  coming    \* per id: data frames on their way to the client

avars == <<phase, coming>>

RInit ==
  /\ phase = [i \in Ids |-> "free"]
  /\ coming = [i \in Ids |-> 0]

Ask(i) ==
  /\ phase[i] = "free"
  /\ phase' = [phase EXCEPT ![i] = "waiting"]
  /\ UNCHANGED coming

Give(i) ==
  /\ phase[i] = "waiting"
  /\ coming' = [coming EXCEPT ![i] = @ + 1]
  /\ UNCHANGED phase

Take(i) ==
  /\ coming[i] > 0
  /\ coming' = [coming EXCEPT ![i] = @ - 1]
  /\ UNCHANGED phase

Answer(i) ==
  /\ phase[i] = "waiting"
  /\ phase' = [phase EXCEPT ![i] = "answered"]
  /\ UNCHANGED coming

Accept(i) ==
  /\ phase[i] = "answered"
  /\ coming[i] = 0
  /\ phase' = [phase EXCEPT ![i] = "free"]
  /\ UNCHANGED coming

RNext == \E i \in Ids : Ask(i) \/ Give(i) \/ Take(i) \/ Answer(i) \/ Accept(i)

RSpec == RInit /\ [][RNext]_avars
=============================================================================
