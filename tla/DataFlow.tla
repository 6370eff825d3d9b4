------------------------------ MODULE DataFlow ------------------------------
(***************************************************************************)
(* The window of data in flight: data_transmitting, which a task calls     *)
(* before it sends data, and data_acknowledged, which the main thread      *)
(* calls for an ack frame.  They share a byte count under data_mutex, and  *)
(* the condition data_cond.                                                *)
(***************************************************************************)
EXTENDS Integers, FiniteSets

CONSTANTS
  Senders,    \* task threads
  Sizes,      \* sizes of the sends
  Window      \* the_congestion_window, not 0

ASSUME DataFlowAssumption ==
  /\ Window \in Nat \ {0}
  /\ Sizes \subseteq Nat /\ IsFiniteSet(Sizes) /\ Sizes # {}
  /\ IsFiniteSet(Senders)

Acker  == "acker"      \* the main thread
Nobody == "nobody"

ASSUME AckerAssumption == Acker \notin Senders /\ Nobody \notin Senders

Threads == Senders \cup {Acker}

VARIABLES
  mutex,      \* the holder of data_mutex
  pc,         \* where each thread is
  size,       \* n_bytes of each thread's call
  inFlight,   \* n_data_bytes_in_flight
  unacked     \* bytes sent on and not acknowledged yet

vars == <<mutex, pc, size, inFlight, unacked>>

Init ==
  /\ mutex = Nobody
  /\ pc = [t \in Threads |-> "idle"]
  /\ size = [t \in Threads |-> 0]
  /\ inFlight = 0
  /\ unacked = 0

Goto(t, p) == pc' = [pc EXCEPT ![t] = p]

\* A task has read some data; the main thread has an ack for data that was sent.
Transmit(s) ==
  /\ pc[s] = "idle"
  /\ Goto(s, "lock")
  /\ size' \in {[size EXCEPT ![s] = n] : n \in Sizes}
  /\ UNCHANGED <<mutex, inFlight, unacked>>

Acknowledge_Bug ==    \* acknowledges data that was not sent yet
  /\ pc[Acker] = "idle"
  /\ Goto(Acker, "lock")
  /\ \E n \in Sizes \ {0} : size' = [size EXCEPT ![Acker] = n] /\ unacked' = unacked - n
  /\ UNCHANGED <<mutex, inFlight>>

Acknowledge ==
  /\ pc[Acker] = "idle"
  /\ Goto(Acker, "lock")
  /\ \E n \in Sizes \ {0} : n <= unacked /\ size' = [size EXCEPT ![Acker] = n]
                                         /\ unacked' = unacked - n
  /\ UNCHANGED <<mutex, inFlight>>

\* data_lock's constructor; also pthread_cond_wait's return with the mutex.
Lock(t) ==
  /\ pc[t] = "lock"
  /\ mutex = Nobody
  /\ mutex' = t
  /\ Goto(t, "test")
  /\ UNCHANGED <<size, inFlight, unacked>>

\* The window is full: pthread_cond_wait releases the mutex and waits.
Wait(s) ==
  /\ pc[s] = "test"
  /\ inFlight >= Window
  /\ Goto(s, "wait")
  /\ mutex' = Nobody
  /\ UNCHANGED <<size, inFlight, unacked>>

Count_Bug(s) ==    \* tests for "full" with >, as Wait would too
  /\ pc[s] = "test"
  /\ inFlight <= Window
  /\ inFlight' = inFlight + size[s]
  /\ Goto(s, "unlock")
  /\ UNCHANGED <<mutex, size, unacked>>

Count(s) ==
  /\ pc[s] = "test"
  /\ inFlight < Window
  /\ inFlight' = inFlight + size[s]
  /\ Goto(s, "unlock")
  /\ UNCHANGED <<mutex, size, unacked>>

\* pthread_cond_wait may return although nobody has signalled.
WakeUp(s) ==
  /\ pc[s] = "wait"
  /\ Goto(s, "lock")
  /\ UNCHANGED <<mutex, size, inFlight, unacked>>

\* data_lock's destructor; the task then sends its data.
Unlock(s) ==
  /\ pc[s] = "unlock"
  /\ mutex' = Nobody
  /\ Goto(s, "idle")
  /\ unacked' = unacked + size[s]
  /\ UNCHANGED <<size, inFlight>>

Subtract_Bug ==    \* counts the ack only if somebody may be waiting
  /\ pc[Acker] = "test"
  /\ inFlight' = IF inFlight < Window THEN inFlight ELSE inFlight - size[Acker]
  /\ Goto(Acker, "broadcast")
  /\ UNCHANGED <<mutex, size, unacked>>

Subtract ==
  /\ pc[Acker] = "test"
  /\ inFlight' = inFlight - size[Acker]
  /\ Goto(Acker, "broadcast")
  /\ UNCHANGED <<mutex, size, unacked>>

Broadcast_Bug ==    \* pthread_cond_signal
  /\ pc[Acker] = "broadcast"
  /\ mutex' = Nobody
  /\ IF inFlight < Window /\ \E s \in Senders : pc[s] = "wait"
       THEN \E s \in Senders : pc[s] = "wait"
                               /\ pc' = [pc EXCEPT ![s] = "lock", ![Acker] = "idle"]
       ELSE Goto(Acker, "idle")
  /\ UNCHANGED <<size, inFlight, unacked>>

\* The window is open again: pthread_cond_broadcast lets every waiting thread
\* go for the mutex, and the destructor releases it.
Broadcast ==
  /\ pc[Acker] = "broadcast"
  /\ mutex' = Nobody
  /\ pc' = [t \in Threads |->
              IF t = Acker THEN "idle"
              ELSE IF inFlight < Window /\ pc[t] = "wait" THEN "lock" ELSE pc[t]]
  /\ UNCHANGED <<size, inFlight, unacked>>

Transmitting(s) == Lock(s) \/ Wait(s) \/ Count(s) \/ Unlock(s)

Acknowledging == Lock(Acker) \/ Subtract \/ Broadcast

Next ==
  \/ \E s \in Senders : Transmit(s) \/ Transmitting(s) \/ WakeUp(s)
  \/ Acknowledge \/ Acknowledging

Spec == Init /\ [][Next]_vars

\* Threads run and get the mutex in the end; the peer acknowledges what it is
\* sent.  Tasks need not send and a wait need not end without a signal.
FairSpec ==
  /\ Spec
  /\ \A t \in Threads : SF_vars(Lock(t))
  /\ \A s \in Senders : WF_vars(Wait(s) \/ Count(s) \/ Unlock(s))
  /\ WF_vars(Acknowledge) /\ WF_vars(Subtract \/ Broadcast)

----------------------------------------------------------------------------

TypeOK ==
  /\ mutex \in Threads \cup {Nobody}
  /\ pc \in [Threads -> {"idle", "lock", "test", "wait", "unlock", "broadcast"}]
  /\ size \in [Threads -> Nat]
  /\ inFlight \in Int
  /\ unacked \in Nat

\* The window is exceeded by less than one send: data_transmitting tests it
\* before it adds, so what is in flight stays below the window plus the largest
\* send.
WindowBound == \E n \in Sizes : inFlight < Window + n

\* No wake-up is lost: while a thread waits, either the window really is full,
\* or the main thread has subtracted an ack and is about to broadcast.
NoLostWakeUp ==
  (\E s \in Senders : pc[s] = "wait") => inFlight >= Window \/ pc[Acker] = "broadcast"

\* The count is conserved: what is in flight is what was sent and not
\* acknowledged, with what the main thread has yet to subtract and what the task
\* that holds data_mutex has added and not sent yet.
Conserved ==
  LET acking  == IF pc[Acker] \in {"lock", "test"} THEN size[Acker] ELSE 0
      sending == IF mutex \in Senders /\ pc[mutex] = "unlock" THEN size[mutex] ELSE 0
  IN  inFlight = unacked + acking + sending

\* A task that waits for the window is woken, if the data in flight is
\* acknowledged: others may still be faster than it to the reopened window.
EveryWaitEnds == \A s \in Senders : pc[s] = "wait" ~> pc[s] # "wait"
=============================================================================
