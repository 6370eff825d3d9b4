--------------------------- MODULE DataFlowProofs --------------------------
(* Theorems of DataFlow, for any number of tasks, any sizes and window.    *)
EXTENDS DataFlow, TLAPS

\* A task in data_transmitting has the size of a send.
SizeInv == \A s \in Senders : pc[s] # "idle" => size[s] \in Sizes

FlowInv == TypeOK /\ SizeInv /\ WindowBound /\ NoLostWakeUp

LEMMA Distinct == Acker \in Threads /\ \A s \in Senders : s # Acker /\ s \in Threads
BY AckerAssumption DEF Threads

LEMMA InitFlow == Init => FlowInv
<1> SUFFICES ASSUME Init PROVE FlowInv
  OBVIOUS
<1>1. TypeOK
  BY DEF Init, TypeOK
<1>2. WindowBound
  <2>1. PICK n \in Sizes : n \in Nat
    BY DataFlowAssumption
  <2>2. inFlight < Window + n
    BY <2>1, DataFlowAssumption DEF Init
  <2> QED
    BY <2>2 DEF WindowBound
<1>3. NoLostWakeUp
  BY Distinct DEF Init, NoLostWakeUp
<1>4. SizeInv
  BY Distinct DEF Init, SizeInv
<1> QED
  BY <1>1, <1>2, <1>3, <1>4 DEF FlowInv

LEMMA NextType == TypeOK /\ [Next]_vars => TypeOK'
<1> SUFFICES ASSUME TypeOK, [Next]_vars PROVE TypeOK'
  OBVIOUS
<1>0. Sizes \subseteq Nat /\ Window \in Nat
  BY DataFlowAssumption
<1>1. ASSUME NEW s \in Senders, Transmit(s) PROVE TypeOK'
  BY <1>0, <1>1, Distinct DEF TypeOK, Transmit, Goto
<1>2. CASE Acknowledge
  <2>1. PICK n \in Sizes \ {0} : /\ n <= unacked
                                 /\ size' = [size EXCEPT ![Acker] = n]
                                 /\ unacked' = unacked - n
    BY <1>2 DEF Acknowledge
  <2> QED
    BY <1>0, <1>2, <2>1, Distinct DEF TypeOK, Acknowledge, Goto
<1>3. ASSUME NEW t \in Threads, Lock(t) PROVE TypeOK'
  BY <1>3 DEF TypeOK, Lock, Goto
<1>4. ASSUME NEW s \in Senders, Wait(s) \/ WakeUp(s) PROVE TypeOK'
  BY <1>4, Distinct DEF TypeOK, Wait, WakeUp, Goto
<1>5. ASSUME NEW s \in Senders, Count(s) \/ Unlock(s) PROVE TypeOK'
  BY <1>5, Distinct DEF TypeOK, Count, Unlock, Goto
<1>6. CASE Subtract
  BY <1>6, Distinct DEF TypeOK, Subtract, Goto
<1>7. CASE Broadcast
  BY <1>7, Distinct DEF TypeOK, Broadcast
<1>8. CASE UNCHANGED vars
  BY <1>8 DEF TypeOK, vars
<1> QED
  BY <1>1, <1>2, <1>3, <1>4, <1>5, <1>6, <1>7, <1>8, Distinct
  DEF Next, Transmitting, Acknowledging

LEMMA NextSize == TypeOK /\ SizeInv /\ [Next]_vars => SizeInv'
<1> SUFFICES ASSUME TypeOK, SizeInv, [Next]_vars PROVE SizeInv'
  OBVIOUS
<1>0. pc \in [Threads -> {"idle", "lock", "test", "wait", "unlock", "broadcast"}] /\ size \in [Threads -> Nat]
  BY DEF TypeOK
<1>1. ASSUME NEW s \in Senders, Transmit(s) PROVE SizeInv'
  BY <1>0, <1>1, Distinct DEF SizeInv, Transmit, Goto
<1>2. ASSUME NEW s \in Senders, Lock(s) \/ Wait(s) \/ WakeUp(s) \/ Count(s) \/ Unlock(s) PROVE SizeInv'
  BY <1>0, <1>2, Distinct DEF SizeInv, Lock, Wait, WakeUp, Count, Unlock, Goto
<1>3. CASE Acknowledge
  <2>1. \A s \in Senders : pc'[s] = pc[s] /\ size'[s] = size[s]
    BY <1>0, <1>3, Distinct DEF Acknowledge, Goto
  <2> QED
    BY <2>1 DEF SizeInv
<1>4. CASE Lock(Acker) \/ Subtract
  BY <1>0, <1>4, Distinct DEF SizeInv, Lock, Subtract, Goto
<1>5. CASE Broadcast
  BY <1>0, <1>5, Distinct DEF SizeInv, Broadcast
<1>6. CASE UNCHANGED vars
  BY <1>6 DEF SizeInv, vars
<1> QED
  BY <1>1, <1>2, <1>3, <1>4, <1>5, <1>6 DEF Next, Transmitting, Acknowledging

LEMMA NextBound == TypeOK /\ SizeInv /\ WindowBound /\ [Next]_vars => WindowBound'
<1> SUFFICES ASSUME TypeOK, SizeInv, WindowBound, [Next]_vars PROVE WindowBound'
  OBVIOUS
<1>0. Sizes \subseteq Nat /\ Window \in Nat /\ inFlight \in Int
  BY DataFlowAssumption DEF TypeOK
<1>1. ASSUME NEW s \in Senders, Count(s) PROVE WindowBound'
  <2>1. size[s] \in Sizes /\ inFlight' = inFlight + size[s] /\ inFlight < Window
    BY <1>1 DEF SizeInv, Count
  <2>2. size[s] \in Nat
    BY <1>0, <2>1
  <2>3. inFlight' < Window + size[s]
    BY <1>0, <2>1, <2>2
  <2> QED
    BY <2>1, <2>3 DEF WindowBound
<1>2. CASE Subtract
  <2>1. inFlight' = inFlight - size[Acker] /\ size[Acker] \in Nat
    BY <1>2, Distinct DEF Subtract, TypeOK
  <2> QED
    BY <1>0, <2>1 DEF WindowBound
<1>3. ASSUME UNCHANGED inFlight PROVE WindowBound'
  BY <1>3 DEF WindowBound
<1> QED
  BY <1>1, <1>2, <1>3
  DEF Next, Transmitting, Acknowledging, Transmit, Acknowledge, Lock, Wait, WakeUp, Unlock,
      Broadcast, vars

LEMMA NextWakeUp == TypeOK /\ SizeInv /\ NoLostWakeUp /\ [Next]_vars => NoLostWakeUp'
<1> SUFFICES ASSUME TypeOK, SizeInv, NoLostWakeUp, [Next]_vars PROVE NoLostWakeUp'
  OBVIOUS
<1>0. /\ Sizes \subseteq Nat /\ Window \in Nat /\ inFlight \in Int
      /\ pc \in [Threads -> {"idle", "lock", "test", "wait", "unlock", "broadcast"}]
      /\ size \in [Threads -> Nat]
  BY DataFlowAssumption DEF TypeOK
\* Nobody starts to wait and the count does not fall.
<1>1. ASSUME \A s \in Senders : pc'[s] = "wait" => pc[s] = "wait", inFlight' >= inFlight,
             pc[Acker] = "broadcast" => pc'[Acker] = "broadcast", inFlight' \in Int
      PROVE  NoLostWakeUp'
  BY <1>0, <1>1 DEF NoLostWakeUp
<1>2. ASSUME NEW s \in Senders, Transmit(s) \/ Lock(s) \/ WakeUp(s) \/ Unlock(s)
      PROVE  NoLostWakeUp'
  BY <1>0, <1>1, <1>2, Distinct DEF Transmit, Lock, WakeUp, Unlock, Goto
<1>3. ASSUME NEW s \in Senders, Count(s) PROVE NoLostWakeUp'
  BY <1>0, <1>1, <1>3, Distinct DEF Count, Goto
<1>4. ASSUME NEW s \in Senders, Wait(s) PROVE NoLostWakeUp'
  BY <1>0, <1>4, Distinct DEF NoLostWakeUp, Wait, Goto
<1>5. CASE Acknowledge \/ Lock(Acker)
  BY <1>0, <1>1, <1>5, Distinct DEF Acknowledge, Lock, Goto
<1>6. CASE Subtract
  BY <1>0, <1>6, Distinct DEF NoLostWakeUp, Subtract, Goto
<1>7. CASE Broadcast
  BY <1>0, <1>7, Distinct DEF NoLostWakeUp, Broadcast
<1>8. CASE UNCHANGED vars
  BY <1>8 DEF NoLostWakeUp, vars
<1> QED
  BY <1>2, <1>3, <1>4, <1>5, <1>6, <1>7, <1>8 DEF Next, Transmitting, Acknowledging

LEMMA NextFlow == FlowInv /\ [Next]_vars => FlowInv'
BY NextType, NextSize, NextBound, NextWakeUp DEF FlowInv

LEMMA FlowInvariant == Spec => []FlowInv
BY InitFlow, NextFlow, PTL DEF Spec

\* Whatever is sent and acknowledged, each variable of data_flow.cc keeps its
\* type: the bytes not yet acknowledged never go below zero.
THEOREM FlowTypes == Spec => []TypeOK
<1>1. FlowInv => TypeOK
  BY DEF FlowInv
<1> QED
  BY FlowInvariant, <1>1, PTL

\* However many tasks send, and whatever they send, the data in flight stays
\* below the window plus the size of one send.
THEOREM WindowIsBounded == Spec => []WindowBound
<1>1. FlowInv => WindowBound
  BY DEF FlowInv
<1> QED
  BY FlowInvariant, <1>1, PTL

\* No task waits while the window is open, except in the moment between an
\* ack's subtraction and the broadcast that follows it.
THEOREM WakeUpsAreNotLost == Spec => []NoLostWakeUp
<1>1. FlowInv => NoLostWakeUp
  BY DEF FlowInv
<1> QED
  BY FlowInvariant, <1>1, PTL
\* A thread is between the constructor and the destructor of data_lock just when
\* it holds data_mutex.
MutexInv == \A t \in Threads : pc[t] \in {"test", "unlock", "broadcast"} <=> mutex = t

LEMMA NextMutex == TypeOK /\ MutexInv /\ [Next]_vars => MutexInv'
<1> SUFFICES ASSUME TypeOK, MutexInv, [Next]_vars PROVE MutexInv'
  OBVIOUS
<1>0. pc \in [Threads -> {"idle", "lock", "test", "wait", "unlock", "broadcast"}] /\ Nobody \notin Threads
  BY AckerAssumption DEF TypeOK, Threads, Nobody, Acker
<1>1. ASSUME NEW t \in Threads, pc' \in {[pc EXCEPT ![t] = p] : p \in {"idle", "lock"}},
             pc[t] \in {"idle", "wait"}, mutex' = mutex
      PROVE  MutexInv'
  BY <1>0, <1>1 DEF MutexInv
<1>2. ASSUME NEW t \in Threads, Lock(t) PROVE MutexInv'
  BY <1>0, <1>2 DEF MutexInv, Lock, Goto
<1>3. ASSUME NEW t \in Threads, pc' \in {[pc EXCEPT ![t] = p] : p \in {"idle", "wait"}},
             mutex = t, mutex' = Nobody
      PROVE  MutexInv'
  BY <1>0, <1>3 DEF MutexInv
<1>4. ASSUME NEW t \in Threads, pc' \in {[pc EXCEPT ![t] = p] : p \in {"unlock", "broadcast"}},
             mutex = t, mutex' = mutex
      PROVE  MutexInv'
  BY <1>0, <1>4 DEF MutexInv
<1>5. ASSUME NEW s \in Senders PROVE /\ Transmit(s) \/ WakeUp(s) => MutexInv'
                                     /\ Wait(s) \/ Unlock(s) => MutexInv'
                                     /\ Count(s) => MutexInv'
  BY <1>1, <1>3, <1>4, Distinct DEF Transmit, WakeUp, Wait, Unlock, Count, Goto, MutexInv
<1>6. Acknowledge => MutexInv'
  BY <1>1, Distinct DEF Acknowledge, Goto
<1>7. Subtract => MutexInv'
  BY <1>4, Distinct DEF Subtract, Goto, MutexInv
<1>8. CASE Broadcast
  <2>1. mutex = Acker /\ mutex' = Nobody /\ \A t \in Threads : pc[t] = "wait" \/ pc'[t] \in {"idle", pc[t]}
    BY <1>0, <1>8, Distinct DEF Broadcast, MutexInv
  <2>2. \A t \in Threads : pc'[t] \notin {"test", "unlock", "broadcast"}
    BY <1>0, <1>8, <2>1, Distinct DEF Broadcast, MutexInv
  <2> QED
    BY <1>0, <2>1, <2>2 DEF MutexInv
<1>9. CASE UNCHANGED vars
  BY <1>9 DEF MutexInv, vars
<1> QED
  BY <1>2, <1>5, <1>6, <1>7, <1>8, <1>9, Distinct DEF Next, Transmitting, Acknowledging

LEMMA NextConserved == TypeOK /\ MutexInv /\ Conserved /\ [Next]_vars => Conserved'
<1> SUFFICES ASSUME TypeOK, MutexInv, Conserved, [Next]_vars PROVE Conserved'
  OBVIOUS
<1> DEFINE acking  == IF pc[Acker] \in {"lock", "test"} THEN size[Acker] ELSE 0
           sending == IF mutex \in Senders /\ pc[mutex] = "unlock" THEN size[mutex] ELSE 0
<1>0. /\ pc \in [Threads -> {"idle", "lock", "test", "wait", "unlock", "broadcast"}]
      /\ size \in [Threads -> Nat] /\ inFlight \in Int /\ unacked \in Nat
      /\ Sizes \subseteq Nat /\ Nobody \notin Senders /\ Acker \notin Senders
  BY DataFlowAssumption, AckerAssumption DEF TypeOK
<1>1. /\ inFlight = unacked + acking + sending
      /\ (inFlight' = unacked' + acking' + sending') => Conserved'
  BY DEF Conserved
<1>2. acking \in Nat /\ sending \in Nat
  BY <1>0, Distinct
<1>3. ASSUME NEW s \in Senders, Transmit(s) PROVE Conserved'
  <2>1. /\ pc'[Acker] = pc[Acker] /\ size'[Acker] = size[Acker] /\ pc'[s] # "unlock" /\ mutex # s
        /\ \A t \in Senders : t # s => pc'[t] = pc[t] /\ size'[t] = size[t]
        /\ UNCHANGED <<mutex, inFlight, unacked>>
    BY <1>0, <1>3, Distinct DEF Transmit, Goto, MutexInv
  <2>2. acking' = acking /\ sending' = sending
    BY <2>1
  <2> QED
    BY <1>1, <2>1, <2>2
<1>4. CASE Acknowledge
  <2>1. PICK n \in Sizes \ {0} : n <= unacked /\ size' = [size EXCEPT ![Acker] = n] /\ unacked' = unacked - n
    BY <1>4 DEF Acknowledge
  <2>2. /\ acking = 0 /\ acking' = n /\ UNCHANGED <<mutex, inFlight>>
        /\ \A t \in Senders : pc'[t] = pc[t] /\ size'[t] = size[t]
    BY <1>0, <1>4, <2>1, Distinct DEF Acknowledge, Goto
  <2>3. sending' = sending /\ n \in Nat
    BY <1>0, <2>2
  <2> HIDE DEF acking, sending
  <2>4. unacked - n + n + sending = unacked + acking + sending
    BY <1>0, <1>2, <2>2, <2>3
  <2> QED
    BY <1>1, <2>1, <2>2, <2>3, <2>4
<1>5. ASSUME NEW s \in Senders, Lock(s) \/ Wait(s) \/ WakeUp(s) PROVE Conserved'
  <2>1. /\ pc'[Acker] = pc[Acker] /\ pc'[s] # "unlock"
        /\ \A t \in Senders : t # s => pc'[t] = pc[t]
        /\ UNCHANGED <<inFlight, unacked, size>>
        /\ mutex' = mutex \/ mutex' = s \/ (mutex' = Nobody /\ mutex = s)
        /\ mutex = s => pc[s] # "unlock"
        /\ mutex' # mutex => mutex = s \/ mutex = Nobody
    BY <1>0, <1>5, Distinct DEF Lock, Wait, WakeUp, Goto, MutexInv
  <2>2. acking' = acking /\ sending' = sending
    BY <1>0, <2>1
  <2> QED
    BY <1>1, <2>1, <2>2
<1>6. ASSUME NEW s \in Senders, Count(s) PROVE Conserved'
  <2>1. /\ pc'[Acker] = pc[Acker] /\ pc'[s] = "unlock" /\ mutex = s /\ pc[s] = "test"
        /\ UNCHANGED <<mutex, unacked, size>> /\ inFlight' = inFlight + size[s]
    BY <1>0, <1>6, Distinct DEF Count, Goto, MutexInv
  <2>2. acking' = acking /\ sending = 0 /\ sending' = size[s] /\ size[s] \in Nat
    BY <1>0, <1>6, <2>1, Distinct
  <2> HIDE DEF acking, sending
  <2>3. inFlight + size[s] = unacked + acking + size[s]
    BY <1>0, <1>1, <1>2, <2>2
  <2> QED
    BY <1>1, <2>1, <2>2, <2>3
<1>7. ASSUME NEW s \in Senders, Unlock(s) PROVE Conserved'
  <2>1. /\ pc'[Acker] = pc[Acker] /\ mutex = s /\ pc[s] = "unlock" /\ mutex' = Nobody
        /\ UNCHANGED <<inFlight, size>> /\ unacked' = unacked + size[s]
    BY <1>0, <1>7, Distinct DEF Unlock, Goto, MutexInv
  <2>2. acking' = acking /\ sending = size[s] /\ sending' = 0 /\ size[s] \in Nat
    BY <1>0, <1>7, <2>1, Distinct
  <2> HIDE DEF acking, sending
  <2>3. inFlight = (unacked + size[s]) + acking + 0
    BY <1>0, <1>1, <1>2, <2>2
  <2> QED
    BY <1>1, <2>1, <2>2, <2>3
<1>8. CASE Lock(Acker)
  <2>1. /\ pc[Acker] = "lock" /\ pc'[Acker] = "test" /\ mutex = Nobody /\ mutex' = Acker
        /\ UNCHANGED <<inFlight, unacked, size>>
    BY <1>0, <1>8, Distinct DEF Lock, Goto
  <2>2. acking' = acking /\ sending' = sending
    BY <1>0, <2>1
  <2> QED
    BY <1>1, <2>1, <2>2
<1>9. CASE Subtract
  <2>1. /\ pc[Acker] = "test" /\ pc'[Acker] = "broadcast" /\ mutex = Acker /\ mutex' = mutex
        /\ UNCHANGED <<unacked, size>> /\ inFlight' = inFlight - size[Acker]
    BY <1>0, <1>9, Distinct DEF Subtract, Goto, MutexInv
  <2>2. acking = size[Acker] /\ acking' = 0 /\ sending = 0 /\ sending' = 0 /\ size[Acker] \in Nat
    BY <1>0, <2>1, Distinct
  <2> HIDE DEF acking, sending
  <2>3. inFlight - size[Acker] = unacked + 0 + 0
    BY <1>0, <1>1, <1>2, <2>2
  <2> QED
    BY <1>1, <2>1, <2>2, <2>3
<1>10. CASE Broadcast
  <2>1. /\ pc[Acker] = "broadcast" /\ pc'[Acker] = "idle" /\ mutex = Acker /\ mutex' = Nobody
        /\ UNCHANGED <<inFlight, unacked, size>>
    BY <1>0, <1>10, Distinct DEF Broadcast, MutexInv
  <2>2. acking = 0 /\ acking' = 0 /\ sending = 0 /\ sending' = 0
    BY <1>0, <2>1
  <2> QED
    BY <1>1, <2>1, <2>2
<1>11. CASE UNCHANGED vars
  BY <1>11 DEF Conserved, vars
<1> QED
  BY <1>3, <1>4, <1>5, <1>6, <1>7, <1>8, <1>9, <1>10, <1>11 DEF Next, Transmitting, Acknowledging

\* data_transmitting and data_acknowledged lose no byte and count none twice,
\* whichever threads meet in them: what is in flight is what was sent and not
\* acknowledged, and what the threads between a lock and an unlock hold.
THEOREM BytesConserved == Spec => []Conserved
<1>1. Init => MutexInv /\ Conserved
  BY Distinct, AckerAssumption DEF Init, MutexInv, Conserved, Threads, Nobody, Acker
<1>2. TypeOK /\ MutexInv /\ Conserved /\ [Next]_vars => MutexInv' /\ Conserved'
  BY NextMutex, NextConserved
<1> QED
  BY <1>1, <1>2, FlowTypes, PTL DEF Spec

============================================================================
