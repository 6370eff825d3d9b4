------------------------------- MODULE Calls -------------------------------
(***************************************************************************)
(* What the synced calls promise a program that makes them one after the   *)
(* other: the server serves each call of the script at most once, in the   *)
(* order of the script, and only when the one before has returned; a call  *)
(* returns after it was served; and nothing is served after a call that    *)
(* the program needed was refused, or after the connection was lost.       *)
(***************************************************************************)
EXTENDS Naturals, Sequences

CONSTANTS
  Made,             \* calls a program may make
  IsOptional(_)     \* whether the program goes on when a call is refused

VARIABLES
  script,    \* the calls the program means to make
  step,      \* how many of them it has finished
  served,    \* the calls the server has served, and whether it agreed
  over       \* whether the program or the connection has ended

cvars == <<script, step, served, over>>

CInit ==
  /\ script \in Seq(Made)
  /\ step = 0 /\ served = <<>> /\ over = FALSE

Serve ==
  /\ ~over
  /\ Len(served) = step /\ step < Len(script)
  /\ \E ok \in BOOLEAN : served' = Append(served, [call |-> script[step + 1], ok |-> ok])
  /\ UNCHANGED <<script, step, over>>

Return ==
  /\ Len(served) = step + 1
  /\ step' = step + 1
  /\ over' = (over \/ ~(served[step + 1].ok \/ IsOptional(script[step + 1])))
  /\ UNCHANGED <<script, served>>

\* The program makes up its mind to make more calls.
Extend ==
  /\ step = Len(script)
  /\ script' \in Seq(Made) /\ Len(script') > Len(script)
  /\ SubSeq(script', 1, Len(script)) = script
  /\ UNCHANGED <<step, served, over>>

Stop == over' = TRUE /\ UNCHANGED <<script, step, served>>

\* A call that is not needed may be given up with the connection.
GiveUp ==
  /\ over /\ step < Len(script) /\ IsOptional(script[step + 1])
  /\ step' = step + 1
  /\ UNCHANGED <<script, served, over>>

CNext == Serve \/ Return \/ Extend \/ Stop \/ GiveUp

CSpec == CInit /\ [][CNext]_cvars
=============================================================================
