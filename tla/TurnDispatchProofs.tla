-------------------------- MODULE TurnDispatchProofs --------------------------
(***************************************************************************)
(* Theorems about TurnDispatch, for any number of messages, sessions and   *)
(* places in the queues and in the gate: its types, its locks and its      *)
(* queues (where an accepted message waits, whose pending queue run() puts *)
(* a follow-up into, that /stop reaches every turn of its chat), and that  *)
(* it implements SerialTurns.                                              *)
(***************************************************************************)
EXTENDS TurnDispatch, SequenceTheorems, FiniteSetTheorems, TLAPS

\* Taking a waiter out of a FIFO of waiters leaves a FIFO of waiters.
LEMMA WithoutType ==
  ASSUME NEW S, NEW s \in Seq(S), NEW x
  PROVE  Without(s, x) \in Seq(S)
<1>1. CASE ~ \E j \in 1..Len(s) : s[j] = x
  BY <1>1 DEF Without
<1>2. CASE \E j \in 1..Len(s) : s[j] = x
  <2> DEFINE i == CHOOSE j \in 1..Len(s) : s[j] = x
  <2>1. i \in 1..Len(s)
    BY <1>2
  <2>2. Len(s) \in Nat /\ \A j \in 1..Len(s) : s[j] \in S
    BY ElementOfSeq, LenProperties
  <2>3. SubSeq(s, 1, i - 1) \in Seq(S) /\ SubSeq(s, i + 1, Len(s)) \in Seq(S)
    <3> HIDE DEF i
    <3>1. /\ i \in Int /\ Len(s) \in Int /\ 1 \in Int /\ i - 1 \in Int /\ i + 1 \in Int
          /\ \A j \in 1..(i - 1) : s[j] \in S
          /\ \A j \in (i + 1)..Len(s) : s[j] \in S
      BY <2>1, <2>2
    <3> QED BY <3>1, SubSeqProperties
  <2>4. Without(s, x) = SubSeq(s, 1, i - 1) \o SubSeq(s, i + 1, Len(s))
    BY <1>2 DEF Without
  <2> HIDE DEF i
  <2> QED BY <2>3, <2>4, ConcatProperties
<1> QED BY <1>1, <1>2

\* Asking for a session lock and leaving it keep holder and waiters to messages.
LEMMA LockTypes ==
  ASSUME TypeOK, NEW k \in Keys, NEW m \in Msgs, RequestLock(k, m) \/ LeaveLock(k, m) \/ UNCHANGED lockVars
  PROVE  lockOwner' \in [Keys -> Msgs \cup {None}] /\ lockWait' \in [Keys -> Seq(Msgs)]
<1> USE DEF TypeOK
<1>1. CASE RequestLock(k, m)
  <2>1. CASE lockOwner[k] = None
    BY <1>1, <2>1 DEF RequestLock
  <2>2. CASE lockOwner[k] # None
    <3>1. Append(lockWait[k], m) \in Seq(Msgs)
      OBVIOUS
    <3> QED BY <1>1, <2>2, <3>1 DEF RequestLock
  <2> QED BY <2>1, <2>2
<1>2. CASE LeaveLock(k, m)
  <2>1. CASE lockOwner[k] = m /\ lockWait[k] = <<>>
    BY <1>2, <2>1 DEF LeaveLock
  <2>2. CASE lockOwner[k] = m /\ lockWait[k] # <<>>
    <3>1. Head(lockWait[k]) \in Msgs /\ Tail(lockWait[k]) \in Seq(Msgs)
      BY <2>2, HeadTailProperties
    <3> QED BY <1>2, <2>2, <3>1 DEF LeaveLock
  <2>3. CASE lockOwner[k] # m
    <3>1. Without(lockWait[k], m) \in Seq(Msgs)
      BY WithoutType
    <3> QED BY <1>2, <2>3, <3>1 DEF LeaveLock
  <2> QED BY <2>1, <2>2, <2>3
<1>3. CASE UNCHANGED lockVars
  BY <1>3 DEF lockVars
<1> QED BY <1>1, <1>2, <1>3

\* Asking for a place in the gate and leaving it keep holders and waiters to messages.
LEMMA GateTypes ==
  ASSUME TypeOK, NEW m \in Msgs, RequestGate(m) \/ LeaveGate(m) \/ UNCHANGED gateVars
  PROVE  gateHeld' \subseteq Msgs /\ gateWait' \in Seq(Msgs)
<1> USE DEF TypeOK
<1>1. CASE RequestGate(m)
  <2>1. CASE Cardinality(gateHeld) < GateSize
    BY <1>1, <2>1 DEF RequestGate
  <2>2. CASE ~(Cardinality(gateHeld) < GateSize)
    <3>1. Append(gateWait, m) \in Seq(Msgs)
      OBVIOUS
    <3> QED BY <1>1, <2>2, <3>1 DEF RequestGate
  <2> QED BY <2>1, <2>2
<1>2. CASE LeaveGate(m)
  <2>1. CASE m \in gateHeld /\ gateWait = <<>>
    BY <1>2, <2>1 DEF LeaveGate
  <2>2. CASE m \in gateHeld /\ gateWait # <<>>
    <3>1. Head(gateWait) \in Msgs /\ Tail(gateWait) \in Seq(Msgs)
      BY <2>2, HeadTailProperties
    <3> QED BY <1>2, <2>2, <3>1 DEF LeaveGate
  <2>3. CASE m \notin gateHeld
    <3>1. Without(gateWait, m) \in Seq(Msgs)
      BY WithoutType
    <3> QED BY <1>2, <2>3, <3>1 DEF LeaveGate
  <2> QED BY <2>1, <2>2, <2>3
<1>3. CASE UNCHANGED gateVars
  BY <1>3 DEF gateVars
<1> QED BY <1>1, <1>2, <1>3

\* Every key a message is routed, locked or cancelled by is a session key.
LEMMA KeyTypes ==
  ASSUME NEW m \in Msgs
  PROVE  SessionKey(m) \in Keys /\ EffectiveKey(m) \in Keys /\ CancelKey(m) \in Keys
BY DispatchAssumption DEF KeyOverride, SessionKey, EffectiveKey, CancelKey

\* The end of a dispatch task (its finally included) keeps every type.
LEMMA EndTaskTypes ==
  ASSUME TypeOK, NEW m \in Msgs, NEW f \in States, EndTask(m, f)
  PROVE  TypeOK'
<1> DEFINE k == EffectiveKey(m)
<1>1. k \in Keys
  BY KeyTypes
<1>2. lockOwner' \in [Keys -> Msgs \cup {None}] /\ lockWait' \in [Keys -> Seq(Msgs)]
  BY <1>1, LockTypes DEF EndTask
<1>3. gateHeld' \subseteq Msgs /\ gateWait' \in Seq(Msgs)
  BY GateTypes DEF EndTask
<1>4. inbound' \in Seq(Msgs) /\ pend' \in [Msgs -> Seq(Msgs)] /\ \A n \in Msgs : Len(pend'[n]) <= PendingMax
  <2>1. CASE reg[k] = None
    BY <2>1 DEF TypeOK, EndTask, Republish
  <2>2. CASE reg[k] # None
    <3>1. reg[k] \in Msgs
      BY <1>1, <2>2 DEF TypeOK
    <3>2. inbound' = inbound \o pend[reg[k]] /\ pend' = [pend EXCEPT ![reg[k]] = <<>>]
      BY <2>2 DEF EndTask, Republish
    <3>3. \A n \in Msgs : Len(pend'[n]) <= PendingMax
      BY <3>1, <3>2, DispatchAssumption DEF TypeOK
    <3> QED BY <3>1, <3>2, <3>3, ConcatProperties DEF TypeOK
  <2> QED BY <2>1, <2>2
<1> QED BY <1>1, <1>2, <1>3, <1>4 DEF TypeOK, EndTask, Unregister

\* A drain of the pending queue keeps every type.
LEMMA TakeTypes ==
  ASSUME TypeOK, NEW m \in Msgs, TakeInjections(m)
  PROVE  TypeOK'
<1> DEFINE n == IF Len(pend[m]) < MaxInject THEN Len(pend[m]) ELSE MaxInject
<1>1. pend[m] \in Seq(Msgs) /\ Len(pend[m]) \in Nat
  BY DEF TypeOK
<1>2. n \in Nat
  BY <1>1, DispatchAssumption
<1>3. SubSeq(pend[m], n + 1, Len(pend[m])) \in Seq(Msgs)
  <2> HIDE DEF n
  <2>1. /\ n + 1 \in Int /\ Len(pend[m]) \in Int
        /\ \A i \in (n + 1)..Len(pend[m]) : pend[m][i] \in Msgs
    BY <1>1, <1>2, ElementOfSeq
  <2> QED BY <2>1, SubSeqProperties
<1>4. st' \in [Msgs -> States]
  BY DEF TypeOK, TakeInjections, States, Turning, Over
<1>5. pend' \in [Msgs -> Seq(Msgs)] /\ \A q \in Msgs : Len(pend'[q]) <= PendingMax
  <2> DEFINE rest == SubSeq(pend[m], n + 1, Len(pend[m]))
  <2>1. pend' = [pend EXCEPT ![m] = rest]
    BY DEF TakeInjections
  <2>2. n <= Len(pend[m])
    BY <1>1, DispatchAssumption
  <2>3. Len(rest) <= Len(pend[m])
    <3> HIDE DEF n
    <3> QED BY <1>1, <1>2, <2>2
  <2> HIDE DEF rest, n
  <2>4. rest \in Seq(Msgs)
    BY <1>3 DEF rest
  <2>5. Len(rest) \in Nat /\ PendingMax \in Nat
    BY <2>4, DispatchAssumption
  <2>6. pend \in [Msgs -> Seq(Msgs)] /\ \A q \in Msgs : Len(pend[q]) <= PendingMax
    BY DEF TypeOK
  <2>7. Len(rest) <= PendingMax
    BY <1>1, <2>3, <2>5, <2>6
  <2> QED BY <2>1, <2>4, <2>6, <2>7
<1>6. drains' \in [Msgs -> Nat]
  <2>1. drains' = [drains EXCEPT ![m] = @ + 1]
    BY DEF TakeInjections
  <2>2. drains \in [Msgs -> Nat]
    BY DEF TypeOK
  <2> HIDE DEF n
  <2>3. drains[m] + 1 \in Nat
    BY <2>2
  <2> QED BY <2>1, <2>2, <2>3
<1> QED BY <1>4, <1>5, <1>6 DEF TypeOK, TakeInjections, runVars, lockVars, gateVars, taskVars

\* The cancellation of a session's tasks keeps the types of what it changes.
LEMMA CancelTypes ==
  ASSUME TypeOK, NEW m \in Msgs, NEW k \in Keys, BeginCancel(m, k)
  PROVE  /\ awaits' \in [Msgs -> SUBSET Msgs] /\ active' \in [Keys -> SUBSET Msgs]
         /\ cancelled' \subseteq Msgs /\ st' \in [Msgs -> States]
BY DEF TypeOK, BeginCancel, States, Turning

\* What run() takes from the inbound queue is a message, and the rest is a queue.
LEMMA HeadTypes ==
  ASSUME TypeOK
  PROVE  /\ inbound # <<>> => Head(inbound) \in Msgs /\ Tail(inbound) \in Seq(Msgs)
         /\ created # <<>> => Head(created) \in Msgs /\ Tail(created) \in Seq(Msgs)
         /\ \A m \in Msgs : /\ Append(inbound, m) \in Seq(Msgs)
                            /\ Append(created, m) \in Seq(Msgs)
                            /\ \A q \in Msgs : Append(pend[q], m) \in Seq(Msgs)
BY HeadTailProperties DEF TypeOK

\* Each way run() routes a message keeps every type.
LEMMA RouteTypes ==
  ASSUME TypeOK, NEW m \in Msgs, Route(m)
  PROVE  TypeOK'
<1> DEFINE k == EffectiveKey(m)
<1>1. k \in Keys /\ CancelKey(m) \in Keys
  BY KeyTypes
<1>2. inbound # <<>> /\ inbound' = Tail(inbound) /\ inbound' \in Seq(Msgs)
  BY HeadTypes DEF Route, RouteCancel, RouteInline, RouteToQueue, RouteToTask, RunReady
<1>3. CASE RouteCancel(m)
  <2>1. /\ awaits' \in [Msgs -> SUBSET Msgs] /\ active' \in [Keys -> SUBSET Msgs]
        /\ cancelled' \subseteq Msgs /\ st' \in [Msgs -> States]
    BY <1>1, <1>3, CancelTypes DEF RouteCancel
  <2> QED BY <1>2, <1>3, <2>1 DEF TypeOK, RouteCancel, lockVars, gateVars
<1>4. CASE RouteInline(m)
  BY <1>2, <1>4 DEF TypeOK, RouteInline, States, Over, runVars, lockVars, gateVars, taskVars
<1>5. CASE RouteToQueue(m)
  <2>1. reg[k] \in Msgs
    BY <1>1, <1>5 DEF TypeOK, RouteToQueue, HasRoom, Registered
  <2>2. pend' = [pend EXCEPT ![reg[k]] = Append(@, m)] /\ Len(pend[reg[k]]) < PendingMax
    BY <1>5 DEF RouteToQueue, HasRoom
  <2>3. pend' \in [Msgs -> Seq(Msgs)]
    BY <2>1, <2>2, HeadTypes DEF TypeOK
  <2>4. \A n \in Msgs : Len(pend'[n]) <= PendingMax
    <3>1. pend[reg[k]] \in Seq(Msgs) /\ PendingMax \in Nat
      BY <2>1, DispatchAssumption DEF TypeOK
    <3>2. Len(Append(pend[reg[k]], m)) <= PendingMax
      BY <2>2, <3>1
    <3> QED BY <2>1, <2>2, <3>2 DEF TypeOK
  <2> QED BY <1>2, <1>5, <2>3, <2>4 DEF TypeOK, RouteToQueue, runVars, lockVars, gateVars, taskVars
<1>6. CASE RouteToTask(m)
  <2>1. created' \in Seq(Msgs)
    BY <1>6, HeadTypes DEF RouteToTask
  <2> QED BY <1>1, <1>2, <1>6, <2>1 DEF TypeOK, RouteToTask, States, lockVars, gateVars
<1> QED BY <1>3, <1>4, <1>5, <1>6 DEF Route

\* Every variable keeps its type, in particular every queue keeps to messages and every
\* registration and lock holder to a task or None (run, _dispatch, process_direct).
THEOREM TypeCorrect == Spec => []TypeOK
<1>1. Init => TypeOK
  <2>1. <<>> \in Seq(Msgs) /\ "fresh" \in States /\ 0 \in Nat
    BY DEF States
  <2> SUFFICES ASSUME Init PROVE TypeOK
    OBVIOUS
  <2> USE DEF Init
  <2>2. inbound \in Seq(Msgs) /\ created \in Seq(Msgs) /\ gateWait \in Seq(Msgs)
    BY <2>1
  <2>3. st \in [Msgs -> States] /\ drains \in [Msgs -> Nat]
    BY <2>1
  <2>4. pend \in [Msgs -> Seq(Msgs)] /\ lockWait \in [Keys -> Seq(Msgs)]
    BY <2>1
  <2>7. \A m \in Msgs : Len(pend[m]) <= PendingMax
    BY DispatchAssumption
  <2>5. reg \in [Keys -> Msgs \cup {None}] /\ lockOwner \in [Keys -> Msgs \cup {None}]
    OBVIOUS
  <2>6. active \in [Keys -> SUBSET Msgs] /\ awaits \in [Msgs -> SUBSET Msgs]
    OBVIOUS
  <2> QED BY <2>2, <2>3, <2>4, <2>5, <2>6, <2>7 DEF TypeOK
<1>2. TypeOK /\ [Next]_vars => TypeOK'
  <2> SUFFICES ASSUME TypeOK, [Next]_vars PROVE TypeOK'
    OBVIOUS
  <2> USE DEF runVars, lockVars, gateVars, taskVars, queueVars
  <2>1. CASE UNCHANGED vars
    BY <2>1 DEF TypeOK, vars
  <2>2. ASSUME NEW m \in Msgs, Route(m) PROVE TypeOK'
    BY <2>2, RouteTypes
  <2>3. ASSUME NEW m \in Msgs, FinishCancel(m) PROVE TypeOK'
    <3>1. lockOwner' \in [Keys -> Msgs \cup {None}] /\ lockWait' \in [Keys -> Seq(Msgs)]
      BY <2>3, KeyTypes, LockTypes DEF FinishCancel
    <3>2. st' \in [Msgs -> States]
      BY <2>3 DEF TypeOK, FinishCancel, States, Over, Turning
    <3>3. hot' \in BOOLEAN
      BY <2>3 DEF TypeOK, FinishCancel
    <3> QED BY <2>3, <3>1, <3>2, <3>3 DEF TypeOK, FinishCancel
  <2>18. ASSUME NEW m \in Msgs, CancelSubs(m) PROVE TypeOK'
    BY <2>18 DEF TypeOK, CancelSubs, States, Over, Turning
  <2>4. ASSUME NEW m \in Msgs, Regenerate(m) PROVE TypeOK'
    <3>1. lockOwner' \in [Keys -> Msgs \cup {None}] /\ lockWait' \in [Keys -> Seq(Msgs)]
      BY <2>4, KeyTypes, LockTypes DEF Regenerate
    <3>2. inbound' \in Seq(Msgs)
      BY ZenonT(60), <2>4, HeadTypes DEF TypeOK, Regenerate
    <3>3. st' \in [Msgs -> States] /\ rerun' \subseteq Msgs
      BY <2>4 DEF TypeOK, Regenerate, States, Over
    <3> QED BY <2>4, <3>1, <3>2, <3>3 DEF TypeOK, Regenerate
  <2>5. ASSUME NEW m \in Msgs, StartTask(m) PROVE TypeOK'
    <3>1. lockOwner' \in [Keys -> Msgs \cup {None}] /\ lockWait' \in [Keys -> Seq(Msgs)]
      BY <2>5, KeyTypes, LockTypes DEF StartTask
    <3>2. created' \in Seq(Msgs)
      BY <2>5, HeadTypes DEF StartTask
    <3>3. st' \in [Msgs -> States]
      BY <2>5 DEF TypeOK, StartTask, States, Over
    <3>4. reg' \in [Keys -> Msgs \cup {None}]
      BY <2>5, KeyTypes DEF TypeOK, StartTask
    <3> QED BY <2>5, <3>1, <3>2, <3>3, <3>4 DEF TypeOK, StartTask
  <2>6. ASSUME NEW m \in Msgs, GotLock(m) PROVE TypeOK'
    <3>1. gateHeld' \subseteq Msgs /\ gateWait' \in Seq(Msgs)
      BY <2>6, GateTypes DEF GotLock
    <3> QED BY <2>6, <3>1 DEF TypeOK, GotLock, States
  <2>7. ASSUME NEW m \in Msgs, BeginTurn(m) PROVE TypeOK'
    <3>1. CASE Role(m) = "new"
      <4>1. /\ awaits' \in [Msgs -> SUBSET Msgs] /\ active' \in [Keys -> SUBSET Msgs]
            /\ cancelled' \subseteq Msgs /\ st' \in [Msgs -> States]
        BY <2>7, <3>1, KeyTypes, CancelTypes DEF BeginTurn
      <4> QED BY <2>7, <4>1 DEF TypeOK, BeginTurn
    <3>2. CASE Role(m) # "new"
      BY <2>7, <3>2 DEF TypeOK, BeginTurn, States, Turning
    <3> QED BY <3>1, <3>2
  <2>8. ASSUME NEW m \in Msgs, WakeForSub(m) \/ Drain(m) PROVE TypeOK'
    BY <2>8, TakeTypes DEF WakeForSub, Drain
  <2>9. ASSUME NEW m \in Msgs, SubTimeout(m) PROVE TypeOK'
    <3>1. drains' = [drains EXCEPT ![m] = @ + 1] /\ drains[m] + 1 \in Nat
      BY <2>9 DEF TypeOK, SubTimeout
    <3> QED BY <2>9, <3>1 DEF TypeOK, SubTimeout, States, Turning
  <2>10. ASSUME NEW m \in Msgs, Cancelled(m) \/ EndTurn(m) PROVE TypeOK'
    BY <2>10, EndTaskTypes DEF Cancelled, EndTurn, States, Over
  <2>11. ASSUME NEW m \in Msgs, Announce(m) \/ Publish(m) PROVE TypeOK'
    BY <2>11, HeadTypes DEF TypeOK, Announce, Publish, States
  <2>12. ASSUME NEW m \in Msgs, WaitForSub(m) PROVE TypeOK'
    BY <2>12 DEF TypeOK, WaitForSub, States, Turning
  <2>13. ASSUME NEW m \in Msgs, DirectCall(m) PROVE TypeOK'
    <3>1. lockOwner' \in [Keys -> Msgs \cup {None}] /\ lockWait' \in [Keys -> Seq(Msgs)]
      BY <2>13, KeyTypes, LockTypes DEF DirectCall
    <3> QED BY <2>13, <3>1 DEF TypeOK, DirectCall, States
  <2>14. ASSUME NEW m \in Msgs, DirectBegin(m) PROVE TypeOK'
    BY <2>14 DEF TypeOK, DirectBegin, States, Turning
  <2>15. ASSUME NEW m \in Msgs, DirectEnd(m) PROVE TypeOK'
    <3>1. lockOwner' \in [Keys -> Msgs \cup {None}] /\ lockWait' \in [Keys -> Seq(Msgs)]
      BY <2>15, KeyTypes, LockTypes DEF DirectEnd
    <3> QED BY <2>15, <3>1 DEF TypeOK, DirectEnd, States, Over
  <2>16. ASSUME NEW m \in Msgs, NEW b \in Msgs, Spawn(m, b) PROVE TypeOK'
    BY <2>16 DEF TypeOK, Spawn, States
  <2>17. CASE Idle
    BY <2>1, <2>17 DEF Idle
  <2> QED
    BY <2>1, <2>2, <2>3, <2>4, <2>5, <2>6, <2>7, <2>8, <2>9, <2>10, <2>11, <2>12, <2>13,
       <2>14, <2>15, <2>16, <2>17, <2>18 DEF Next, Progress
<1> QED BY <1>1, <1>2, PTL DEF Spec

----------------------------------------------------------------------------
(* Serial turns.  LockInv is inductive together with RegenInv: the lock of a *)
(* session changes hands only in RequestLock and LeaveLock, which leave      *)
(* every other holder alone, and a task reaches the gate only as the holder. *)

\* Asking for a lock takes it from nobody.
LEMMA RequestLockKeeps ==
  ASSUME TypeOK, NEW k \in Keys, NEW m \in Msgs, RequestLock(k, m) \/ UNCHANGED lockVars,
         NEW j \in Keys, NEW n \in Msgs, lockOwner[j] = n
  PROVE  lockOwner'[j] = n
<1>1. CASE RequestLock(k, m) /\ lockOwner[k] = None
  <2>1. j # k
    BY <1>1, DispatchAssumption
  <2> QED BY <1>1, <2>1 DEF RequestLock, TypeOK
<1>2. CASE ~(RequestLock(k, m) /\ lockOwner[k] = None)
  BY <1>2 DEF RequestLock, TypeOK, lockVars
<1> QED BY <1>1, <1>2

\* Leaving a lock takes it from nobody else.
LEMMA LeaveLockKeeps ==
  ASSUME TypeOK, NEW k \in Keys, NEW m \in Msgs, LeaveLock(k, m),
         NEW j \in Keys, NEW n \in Msgs, n # m, lockOwner[j] = n
  PROVE  lockOwner'[j] = n
<1>1. CASE lockOwner[k] = m
  <2>1. j # k
    BY <1>1
  <2> QED BY <1>1, <2>1 DEF LeaveLock, TypeOK
<1>2. CASE lockOwner[k] # m
  BY <1>2 DEF LeaveLock, TypeOK
<1> QED BY <1>1, <1>2

\* What it takes to keep LockInv: whoever is newly past the lock holds it, and the
\* other holders keep theirs.
LEMMA LockInvStep ==
  ASSUME TypeOK, LockInv,
         \A n \in Msgs : st'[n] = "gate" \/ InTurn(n)' =>
            \/ lockOwner'[EffectiveKey(n)] = n
            \/ st[n] = "gate" \/ InTurn(n),
         \A n \in Msgs : \A j \in Keys :
            lockOwner[j] = n /\ (st'[n] = "gate" \/ InTurn(n)') => lockOwner'[j] = n,
         \A n \in Msgs : st'[n] = "gate" \/ InTurn(n)' => (n \in rerun' <=> n \in rerun)
  PROVE  LockInv'
<1>1. \A n \in Msgs : (n \in rerun' <=> n \in rerun) => EffectiveKey(n)' = EffectiveKey(n)
  BY DEF EffectiveKey, SessionKey, KeyOverride
<1>2. SUFFICES ASSUME NEW n \in Msgs, st'[n] = "gate" \/ InTurn(n)'
               PROVE  lockOwner'[EffectiveKey(n)'] = n
  BY DEF LockInv
<1>3. EffectiveKey(n)' = EffectiveKey(n)
  BY <1>1, <1>2
<1>4. lockOwner'[EffectiveKey(n)] = n
  BY <1>2, KeyTypes DEF LockInv
<1> QED BY <1>3, <1>4

\* The end of a dispatch task keeps every other holder past its lock.
LEMMA EndTaskLockInv ==
  ASSUME TypeOK, LockInv, NEW m \in Msgs, NEW f \in Over, EndTask(m, f)
  PROVE  LockInv'
<1>1. st' = [st EXCEPT ![m] = f] /\ UNCHANGED <<runCmd, rerun>>
  BY DEF EndTask
<1>2. \A n \in Msgs : n # m => (st'[n] = st[n] /\ (InTurn(n)' <=> InTurn(n)))
  BY <1>1 DEF TypeOK, InTurn
<1>3. ~(st'[m] = "gate" \/ InTurn(m)')
  BY <1>1 DEF TypeOK, InTurn, Turning, Over
<1>4. ASSUME NEW n \in Msgs, NEW j \in Keys, lockOwner[j] = n, n # m
      PROVE  lockOwner'[j] = n
  BY <1>4, KeyTypes, LeaveLockKeeps DEF EndTask
<1> QED BY <1>1, <1>2, <1>3, <1>4, LockInvStep

\* The holders after a step that changes no lock.
LEMMA LockInvSame ==
  ASSUME TypeOK, LockInv, UNCHANGED <<lockOwner, rerun>>,
         \A n \in Msgs : st'[n] = "gate" \/ InTurn(n)' => st[n] = "gate" \/ InTurn(n)
  PROVE  LockInv'
BY LockInvStep DEF LockInv

\* Every step keeps LockInv.
LEMMA LockInvNext ==
  ASSUME TypeOK, LockInv, RegenInv, [Next]_vars
  PROVE  LockInv'
<1> USE DEF TypeOK, InTurn, Turning
<1>1. CASE UNCHANGED vars
  BY <1>1, LockInvSame DEF vars, runVars, lockVars
<1>2. ASSUME NEW m \in Msgs, Route(m) PROVE LockInv'
  <2>1. UNCHANGED <<lockOwner, rerun>>
    BY <1>2 DEF Route, RouteCancel, RouteInline, RouteToQueue, RouteToTask, lockVars, runVars
  <2>2. CASE RouteCancel(m)
    <3>1. runCmd = None /\ runCmd' = m /\ st' = [st EXCEPT ![m] = "await"]
      BY <2>2 DEF RouteCancel, RunReady, BeginCancel
    <3>2. \A n \in Msgs : n # None
      BY DispatchAssumption
    <3> QED BY <2>1, <3>1, <3>2, LockInvSame
  <2>3. CASE ~RouteCancel(m)
    BY <1>2, <2>1, <2>3, LockInvSame DEF Route, RouteInline, RouteToQueue, RouteToTask, runVars
  <2> QED BY <2>2, <2>3
<1>3. ASSUME NEW m \in Msgs, FinishCancel(m) PROVE LockInv'
  <2>1. UNCHANGED rerun /\ \A n \in Msgs : st'[n] = "gate" \/ InTurn(n)' => st[n] = "gate" \/ InTurn(n)
    BY <1>3 DEF FinishCancel, TasksOver
  <2>2. RequestLock(SessionKey(m), m) \/ UNCHANGED lockVars
    BY <1>3 DEF FinishCancel
  <2> QED BY <2>1, <2>2, KeyTypes, RequestLockKeeps, LockInvStep
<1>18. ASSUME NEW m \in Msgs, CancelSubs(m) PROVE LockInv'
  BY <1>18, LockInvSame DEF CancelSubs, TasksOver, lockVars
<1>4. ASSUME NEW m \in Msgs, Regenerate(m) PROVE LockInv'
  <2>1. \A n \in Msgs : n # m => st'[n] = st[n] /\ runCmd # n
    BY <1>4 DEF Regenerate, RegenInv
  <2>2. st'[m] \in {"pending", "done"}
    BY <1>4 DEF Regenerate
  <2>3. \A n \in Msgs : st'[n] = "gate" \/ InTurn(n)' => n # m /\ (st[n] = "gate" \/ InTurn(n))
    BY <2>1, <2>2
  <2>4. \A n \in Msgs : n # m => (n \in rerun' <=> n \in rerun)
    BY <1>4 DEF Regenerate
  <2>5. LeaveLock(SessionKey(m), m)
    BY <1>4 DEF Regenerate
  <2>6. ASSUME NEW n \in Msgs, NEW j \in Keys, lockOwner[j] = n, n # m PROVE lockOwner'[j] = n
    BY <2>5, <2>6, KeyTypes, LeaveLockKeeps
  <2> QED BY <2>3, <2>4, <2>6, LockInvStep
<1>5. ASSUME NEW m \in Msgs, StartTask(m) PROVE LockInv'
  <2>1. UNCHANGED rerun /\ \A n \in Msgs : st'[n] = "gate" \/ InTurn(n)' => st[n] = "gate" \/ InTurn(n)
    BY <1>5 DEF StartTask
  <2>2. RequestLock(EffectiveKey(m), m) \/ UNCHANGED lockVars
    BY <1>5 DEF StartTask
  <2> QED BY <2>1, <2>2, KeyTypes, RequestLockKeeps, LockInvStep
<1>6. ASSUME NEW m \in Msgs, GotLock(m) PROVE LockInv'
  <2>1. lockOwner[EffectiveKey(m)] = m /\ UNCHANGED <<lockOwner, runCmd, rerun>> /\ st' = [st EXCEPT ![m] = "gate"]
    BY <1>6 DEF GotLock, lockVars
  <2> QED BY <2>1, LockInvStep
<1>7. ASSUME NEW m \in Msgs, BeginTurn(m) PROVE LockInv'
  <2>1. st[m] = "gate" /\ UNCHANGED <<lockOwner, runCmd, rerun>> /\ \A n \in Msgs : n # m => st'[n] = st[n]
    BY <1>7 DEF BeginTurn, BeginCancel, lockVars
  <2> QED BY <2>1, LockInvSame
<1>8. ASSUME NEW m \in Msgs, WakeForSub(m) \/ Drain(m) PROVE LockInv'
  <2>1. st[m] \in {"run", "subwait"} /\ TakeInjections(m)
    BY <1>8 DEF WakeForSub, Drain, Running
  <2>2. UNCHANGED <<lockOwner, runCmd, rerun>>
    BY <2>1 DEF TakeInjections, lockVars
  <2>3. \A n \in Msgs : n # m => st'[n] = "injected" \/ st'[n] = st[n]
    BY <2>1 DEF TakeInjections
  <2>4. \A n \in Msgs : st'[n] = "gate" \/ InTurn(n)' => st[n] = "gate" \/ InTurn(n)
    BY <2>1, <2>2, <2>3 DEF TakeInjections
  <2> QED BY <2>2, <2>4, LockInvSame
<1>9. ASSUME NEW m \in Msgs, SubTimeout(m) PROVE LockInv'
  BY <1>9, LockInvSame DEF SubTimeout, lockVars
<1>10. ASSUME NEW m \in Msgs, Cancelled(m) \/ EndTurn(m) PROVE LockInv'
  BY <1>10, EndTaskLockInv DEF Cancelled, EndTurn, Over
<1>11. ASSUME NEW m \in Msgs, Announce(m) \/ Publish(m) PROVE LockInv'
  BY <1>11, LockInvSame DEF Announce, Publish, lockVars
<1>12. ASSUME NEW m \in Msgs, WaitForSub(m) PROVE LockInv'
  BY <1>12, LockInvSame DEF WaitForSub, Running, lockVars
<1>13. ASSUME NEW m \in Msgs, DirectCall(m) PROVE LockInv'
  <2>1. UNCHANGED rerun /\ \A n \in Msgs : st'[n] = "gate" \/ InTurn(n)' => st[n] = "gate" \/ InTurn(n)
    BY <1>13 DEF DirectCall
  <2>2. RequestLock(EffectiveKey(m), m)
    BY <1>13 DEF DirectCall
  <2> QED BY <2>1, <2>2, KeyTypes, RequestLockKeeps, LockInvStep
<1>14. ASSUME NEW m \in Msgs, DirectBegin(m) PROVE LockInv'
  <2>1. lockOwner[EffectiveKey(m)] = m /\ UNCHANGED <<lockOwner, runCmd, rerun>> /\ st' = [st EXCEPT ![m] = "run"]
    BY <1>14 DEF DirectBegin, lockVars
  <2> QED BY <2>1, LockInvStep
<1>15. ASSUME NEW m \in Msgs, DirectEnd(m) PROVE LockInv'
  <2>1. LeaveLock(EffectiveKey(m), m) /\ UNCHANGED <<runCmd, rerun>> /\ st'[m] \in {"done", "dropped"}
        /\ \A n \in Msgs : n # m => st'[n] = st[n]
    BY <1>15 DEF DirectEnd
  <2>2. \A n \in Msgs : st'[n] = "gate" \/ InTurn(n)' => n # m /\ (st[n] = "gate" \/ InTurn(n))
    BY <2>1
  <2>3. ASSUME NEW n \in Msgs, NEW j \in Keys, lockOwner[j] = n, n # m PROVE lockOwner'[j] = n
    BY <2>1, <2>3, KeyTypes, LeaveLockKeeps
  <2> QED BY <2>1, <2>2, <2>3, LockInvStep
<1>16. ASSUME NEW m \in Msgs, NEW b \in Msgs, Spawn(m, b) PROVE LockInv'
  BY <1>16, LockInvSame DEF Spawn, lockVars
<1>17. CASE Idle
  BY <1>1, <1>17 DEF Idle
<1> QED
  BY <1>1, <1>2, <1>3, <1>4, <1>5, <1>6, <1>7, <1>8, <1>9, <1>10, <1>11, <1>12, <1>13,
     <1>14, <1>15, <1>16, <1>17, <1>18 DEF Next, Progress

\* Every step keeps RegenInv.
LEMMA RegenInvNext ==
  ASSUME TypeOK, RegenInv, [Next]_vars
  PROVE  RegenInv'
<1> DEFINE Waits(n) == Role(n) = "regen" /\ st[n] \in {"await", "gather", "lock"}
           Calm == \A i \in 1..Len(created) : Role(created[i]) # "regen"
<1>1. \A n \in Msgs : n # None
  BY DispatchAssumption
<1>2. (Calm /\ \A n \in Msgs : Waits(n) => runCmd = n)' => RegenInv'
  BY DEF RegenInv
<1>3. ASSUME UNCHANGED <<created, runCmd>>, rerun \subseteq rerun',
             \A n \in Msgs : Waits(n)' => Waits(n)
      PROVE  RegenInv'
  <2>1. \A n : Role(n)' = "regen" => Role(n) = "regen"
    BY <1>3 DEF Role
  <2>2. Calm'
    <3>1. \A i \in 1..Len(created) : Role(created[i]) # "regen"
      BY DEF RegenInv
    <3>2. created' = created
      BY <1>3
    <3>3. SUFFICES ASSUME NEW i \in 1..Len(created') PROVE Role(created[i])' # "regen"
      OBVIOUS
    <3>4. Role(created[i]) # "regen"
      BY <3>1, <3>2, <3>3
    <3> QED BY <1>3, <3>4 DEF Role
  <2>3. \A n \in Msgs : Waits(n)' => runCmd' = n
    BY <1>3 DEF RegenInv
  <2> QED BY <1>2, <2>2, <2>3 DEF Role
<1>4. CASE UNCHANGED vars
  BY <1>3, <1>4 DEF vars, runVars, taskVars, Role
<1>5. ASSUME NEW m \in Msgs, Route(m) PROVE RegenInv'
  <2>1. CASE RouteCancel(m)
    <3>1. runCmd = None /\ runCmd' = m /\ st' = [st EXCEPT ![m] = "await"] /\ UNCHANGED <<rerun, created>>
      BY <2>1 DEF RouteCancel, RunReady, BeginCancel
    <3>2. Calm'
      <4>1. SUFFICES ASSUME NEW i \in 1..Len(created') PROVE Role(created[i])' # "regen"
        OBVIOUS
      <4>2. Role(created[i]) # "regen"
        BY <3>1, <4>1 DEF RegenInv
      <4> QED BY <3>1, <4>2 DEF Role
    <3>3. \A n \in Msgs : Waits(n)' => n = m
      BY <1>1, <3>1 DEF RegenInv, Role, TypeOK
    <3> QED BY <1>2, <3>1, <3>2, <3>3
  <2>2. CASE RouteToTask(m)
    <3>1. /\ created' = Append(created, m) /\ Role(m) # "regen"
          /\ UNCHANGED <<rerun, runCmd>> /\ st' = [st EXCEPT ![m] = "created"]
      BY <2>2 DEF RouteToTask, NeedsTask
    <3>2. Calm'
      <4>1. SUFFICES ASSUME NEW i \in 1..Len(created') PROVE Role(created'[i]) # "regen"
        BY <3>1 DEF Role
      <4>2. created \in Seq(Msgs) /\ Len(created') = Len(created) + 1 /\ Len(created) \in Nat
        BY <3>1 DEF TypeOK
      <4>3. CASE i \in 1..Len(created)
        BY <3>1, <4>2, <4>3 DEF RegenInv
      <4>4. CASE i = Len(created) + 1
        BY <3>1, <4>2, <4>4
      <4> QED BY <4>1, <4>2, <4>3, <4>4
    <3> QED BY <3>1, <3>2 DEF RegenInv, Role, TypeOK
  <2>3. CASE RouteInline(m) \/ RouteToQueue(m)
    BY <1>3, <2>3 DEF RouteInline, RouteToQueue, runVars, taskVars, Role, TypeOK
  <2> QED BY <1>5, <2>1, <2>2, <2>3 DEF Route
<1>6. ASSUME NEW m \in Msgs, FinishCancel(m) PROVE RegenInv'
  <2>1. UNCHANGED <<rerun, created>> /\ \A n \in Msgs : Waits(n)' => Waits(n)
    BY <1>6 DEF FinishCancel, TasksOver, Role, TypeOK, taskVars
  <2>2. CASE runCmd' = runCmd
    BY <1>3, <2>1, <2>2
  <2>3. CASE runCmd' # runCmd
    <3>1. runCmd = m /\ Role(m) # "regen"
      BY <1>6, <2>3 DEF FinishCancel
    <3>2. \A n \in Msgs : ~Waits(n)
      BY <3>1 DEF RegenInv
    <3> QED BY <2>1, <3>2 DEF RegenInv, Role
  <2> QED BY <2>2, <2>3
<1>16. ASSUME NEW m \in Msgs, CancelSubs(m) PROVE RegenInv'
  <2>1. \A n \in Msgs : Waits(n)' => Waits(n)
    BY <1>16 DEF CancelSubs, TasksOver, Role, TypeOK
  <2> QED BY <1>3, <1>16, <2>1 DEF CancelSubs, taskVars
<1>7. ASSUME NEW m \in Msgs, Regenerate(m) PROVE RegenInv'
  <2>1. /\ UNCHANGED created /\ rerun \subseteq rerun' /\ st'[m] \notin {"await", "gather", "lock"}
        /\ \A n \in Msgs : n # m => st'[n] = st[n] /\ runCmd # n
    BY <1>7 DEF Regenerate, RegenInv, Role, taskVars, TypeOK
  <2> QED BY <2>1 DEF RegenInv, Role
<1>8. ASSUME NEW m \in Msgs, StartTask(m) PROVE RegenInv'
  <2>1. /\ created # <<>> /\ m = Head(created) /\ created' = Tail(created)
        /\ UNCHANGED <<rerun, runCmd>> /\ \A n \in Msgs : n # m => st'[n] = st[n]
    BY <1>8 DEF StartTask, TypeOK
  <2>2. created \in Seq(Msgs) /\ Len(created) \in Nat
    BY DEF TypeOK
  <2>3. Role(m) # "regen"
    BY <2>1, <2>2 DEF RegenInv
  <2>4. Calm'
    BY <2>1, <2>2, HeadTailProperties DEF RegenInv, Role
  <2> QED BY <2>1, <2>3, <2>4 DEF RegenInv, Role
<1>9. ASSUME NEW m \in Msgs, GotLock(m) \/ SubTimeout(m) \/ WaitForSub(m) \/ Announce(m) \/ Publish(m)
             \/ DirectBegin(m) \/ DirectEnd(m)
      PROVE  RegenInv'
  BY <1>3, <1>9 DEF GotLock, SubTimeout, WaitForSub, Announce, Publish, DirectBegin, DirectEnd,
     Role, TypeOK, taskVars
<1>10. ASSUME NEW m \in Msgs, BeginTurn(m) PROVE RegenInv'
  BY <1>3, <1>10 DEF BeginTurn, BeginCancel, Role, TypeOK
<1>11. ASSUME NEW m \in Msgs, WakeForSub(m) \/ Drain(m) PROVE RegenInv'
  BY ZenonT(60), <1>3, <1>11 DEF WakeForSub, Drain, TakeInjections, Role, TypeOK
<1>12. ASSUME NEW m \in Msgs, Cancelled(m) \/ EndTurn(m) PROVE RegenInv'
  BY <1>3, <1>12 DEF Cancelled, EndTurn, EndTask, Role, TypeOK
<1>13. ASSUME NEW m \in Msgs, DirectCall(m) PROVE RegenInv'
  BY <1>3, <1>13 DEF DirectCall, Role, TypeOK, taskVars
<1>14. ASSUME NEW m \in Msgs, NEW b \in Msgs, Spawn(m, b) PROVE RegenInv'
  BY <1>3, <1>14 DEF Spawn, Role, TypeOK, taskVars
<1>15. CASE Idle
  BY <1>4, <1>15 DEF Idle
<1> QED
  BY <1>4, <1>5, <1>6, <1>7, <1>8, <1>9, <1>10, <1>11, <1>12, <1>13, <1>14, <1>15, <1>16
  DEF Next, Progress, RegenInv

\* A task past its session's lock holds it: at most one of them per routed session key
\* (_dispatch's "async with lock, gate" and process_direct's session lock).
THEOREM LockHeld == Spec => [](LockInv /\ RegenInv)
<1>1. Init => LockInv /\ RegenInv
  <2> SUFFICES ASSUME Init PROVE LockInv /\ RegenInv
    OBVIOUS
  <2>1. Len(created) = 0
    BY DEF Init
  <2> QED BY <2>1 DEF Init, LockInv, RegenInv, InTurn, Turning
<1>2. TypeOK /\ LockInv /\ RegenInv /\ [Next]_vars => (LockInv /\ RegenInv)'
  BY LockInvNext, RegenInvNext
<1> QED BY <1>1, <1>2, TypeCorrect, PTL DEF Spec

\* No two turns ever work on the history of one session at a time, where a session is one
\* chat: whatever is queued, cancelled, injected, republished or called directly.
THEOREM SerialTurn == SessionPerChat => (Spec => []SessionSerial)
<1> SUFFICES ASSUME SessionPerChat PROVE Spec => []SessionSerial
  OBVIOUS
<1>1. ASSUME NEW m \in Msgs PROVE StoreKey(m) = EffectiveKey(m)
  BY DispatchAssumption DEF StoreKey, KeyOverride, EffectiveKey, SessionKey, SessionPerChat
<1>2. LockInv => SessionSerial
  BY <1>1 DEF LockInv, SessionSerial
<1> QED BY <1>2, LockHeld, PTL

----------------------------------------------------------------------------
(* The inductive invariant. *)

\* Nobody waits at two places of the queues of B; m waits in one of them.
Apart(B) ==
    \A p, q \in DOMAIN B : \A i \in 1..Len(B[p]), j \in 1..Len(B[q]) :
        B[p][i] = B[q][j] => p = q /\ i = j
Waits(B, m) == \E p \in DOMAIN B : \E i \in 1..Len(B[p]) : B[p][i] = m

\* The bus (under None) and the pending queue of each task.
Queues == [p \in Msgs \cup {None} |-> IF p = None THEN inbound ELSE pend[p]]

\* The messages that wait are those that were accepted and not taken up, each at one place.
PlaceInv == Apart(Queues) /\ \A m \in Msgs : Waits(Queues, m) <=> st[m] = "pending"

\* The members of a sequence, and that each is there once.
Members(s) == {s[i] : i \in 1..Len(s)}
Distinct(s) == \A i, j \in 1..Len(s) : s[i] = s[j] => i = j

\* The tasks about to start are different ones and dispatch tasks.
CreatedInv ==
    Distinct(created) /\ \A n \in Members(created) : st[n] = "created" /\ IsTask(n)

\* What run() executes inline waits for the tasks it cancelled or for a session lock, and
\* only a /regenerate is published a second time.
CommandInv ==
    /\ \A m \in Msgs : runCmd = m => st[m] \in {"await", "gather"} \/ (st[m] = "lock" /\ Role(m) = "regen")
    /\ \A m \in rerun : Kind[m] = "regen"

\* The registered queue of a session belongs to a dispatch task, not to an inline command.
RegisteredInv == \A k \in Keys : Registered(k) => IsTask(reg[k]) /\ runCmd # reg[k]

QueueInv == PlaceInv /\ CreatedInv /\ CommandInv /\ RegisteredInv /\ RegisteredAlive

----------------------------------------------------------------------------
(* Moves between queues. *)

\* A family of queues, one on the bus (under None) and one for each task.
Places == Msgs \cup {None}
Families == [Places -> Seq(Msgs)]

\* m is appended to queue p; the first n leave queue p; queue q is poured into queue p.
Put(B, C, p, m) == C[p] = Append(B[p], m) /\ \A q \in Places \ {p} : C[q] = B[q]
Cut(B, C, p, n) == C[p] = SubSeq(B[p], n + 1, Len(B[p])) /\ \A q \in Places \ {p} : C[q] = B[q]
Pour(B, C, p, q) ==
    C[p] = B[p] \o B[q] /\ C[q] = <<>> /\ \A r \in Places \ {p, q} : C[r] = B[r]

\* Apart, for families with the same places.
LEMMA ApartIntro ==
  ASSUME NEW C, DOMAIN C = Places,
         \A x, y \in Places : \A k \in 1..Len(C[x]), l \in 1..Len(C[y]) : C[x][k] = C[y][l] => x = y /\ k = l
  PROVE  Apart(C)
BY DEF Apart

\* A message put at the end of one queue waits nowhere else.
LEMMA PutKeeps ==
  ASSUME NEW B \in Families, NEW p \in Places, NEW m \in Msgs, Apart(B), ~Waits(B, m),
         NEW C \in Families, Put(B, C, p, m)
  PROVE  Apart(C) /\ \A n \in Msgs : Waits(C, n) <=> Waits(B, n) \/ n = m
<1>1. /\ C \in [Places -> Seq(Msgs)] /\ Len(C[p]) = Len(B[p]) + 1 /\ C[p][Len(B[p]) + 1] = m
      /\ \A i \in 1..Len(B[p]) : C[p][i] = B[p][i]
      /\ \A q \in Places : Len(B[q]) \in Nat
      /\ \A q \in Places \ {p} : C[q] = B[q]
      /\ DOMAIN B = Places /\ DOMAIN C = Places
  BY DEF Put, Families
<1>2. \A q \in Places : \A i \in 1..Len(C[q]) : 
        \/ i \in 1..Len(B[q]) /\ C[q][i] = B[q][i]
        \/ q = p /\ i = Len(B[p]) + 1 /\ C[q][i] = m
  BY <1>1
<1>3. Apart(C)
  BY <1>1, <1>2 DEF Apart, Waits
<1>4. ASSUME NEW n \in Msgs, Waits(C, n) PROVE Waits(B, n) \/ n = m
  <2>1. \E q \in Places : \E i \in 1..Len(C[q]) : C[q][i] = n
    BY <1>1, <1>4 DEF Waits
  <2>2. n # m => \E q \in Places : \E i \in 1..Len(B[q]) : B[q][i] = n
    BY <1>2, <2>1
  <2> QED BY <1>1, <2>2 DEF Waits
<1>5. ASSUME NEW n \in Msgs, Waits(B, n) \/ n = m PROVE Waits(C, n)
  <2>1. CASE n = m
    <3>1. Len(B[p]) + 1 \in 1..Len(C[p])
      BY <1>1
    <3> QED BY <1>1, <2>1, <3>1 DEF Waits
  <2>2. CASE Waits(B, n)
    <3>1. PICK q \in Places : \E i \in 1..Len(B[q]) : B[q][i] = n
      BY <1>1, <2>2 DEF Waits
    <3>2. PICK i \in 1..Len(B[q]) : B[q][i] = n
      BY <3>1
    <3>3. i \in 1..Len(C[q]) /\ C[q][i] = n
      <4>1. CASE q = p
        BY <1>1, <3>2, <4>1
      <4>2. CASE q # p
        BY <1>1, <3>2, <4>2
      <4> QED BY <4>1, <4>2
    <3> QED BY <1>1, <3>3 DEF Waits
  <2> QED BY <1>5, <2>1, <2>2
<1> QED BY <1>3, <1>4, <1>5

\* The first n of one queue are taken out, and nothing else is.
LEMMA CutKeeps ==
  ASSUME NEW B \in Families, NEW p \in Places, NEW n \in Nat, n <= Len(B[p]), Apart(B),
         NEW C \in Families, Cut(B, C, p, n)
  PROVE  Apart(C) /\ \A m \in Msgs : Waits(C, m) <=> Waits(B, m) /\ m \notin {B[p][i] : i \in 1..n}
<1>1. /\ DOMAIN C = Places /\ Len(C[p]) = Len(B[p]) - n
      /\ \A i \in 1..(Len(B[p]) - n) : C[p][i] = B[p][n + i]
      /\ \A q \in Places : Len(B[q]) \in Nat
      /\ \A q \in Places \ {p} : C[q] = B[q]
      /\ DOMAIN B = Places
  BY DEF Cut, Families
<1> DEFINE at(q, i) == IF q = p THEN n + i ELSE i
<1>2. \A q \in Places : \A i \in 1..Len(C[q]) : 
        at(q, i) \in 1..Len(B[q]) /\ C[q][i] = B[q][at(q, i)]
  <2> SUFFICES ASSUME NEW q \in Places, NEW i \in 1..Len(C[q])
               PROVE  at(q, i) \in 1..Len(B[q]) /\ C[q][i] = B[q][at(q, i)]
    OBVIOUS
  <2>1. CASE q = p
    <3>1. at(q, i) = n + i /\ n + i \in 1..Len(B[p]) /\ C[p][i] = B[p][n + i]
      BY <1>1, <2>1
    <3> QED BY <2>1, <3>1
  <2>2. CASE q # p
    BY <1>1, <2>2
  <2> QED BY <2>1, <2>2
<1>3. Apart(C)
  <2> SUFFICES ASSUME NEW q1 \in Places, NEW q2 \in Places, NEW i \in 1..Len(C[q1]), NEW j \in 1..Len(C[q2]), C[q1][i] = C[q2][j]
      PROVE q1 = q2 /\ i = j
      BY <1>1 DEF Apart
  <2>1. q1 = q2 /\ at(q1, i) = at(q2, j)
     BY SMTT(30), <1>1, <1>2 DEF Apart
  <2> QED BY <2>1
<1>4. ASSUME NEW m \in Msgs, Waits(C, m) PROVE Waits(B, m) /\ m \notin {B[p][i] : i \in 1..n}
  <2>1. PICK q \in Places : \E i \in 1..Len(C[q]) : C[q][i] = m
    BY <1>1, <1>4 DEF Waits
  <2>a. PICK i \in 1..Len(C[q]) : C[q][i] = m
    BY <2>1
  <2>2. at(q, i) \in 1..Len(B[q]) /\ m = B[q][at(q, i)]
    BY <1>2, <2>a
  <2>3. Waits(B, m)
    BY <2>2, <1>1 DEF Waits
  <2>4. ASSUME NEW j \in 1..n, m = B[p][j] PROVE FALSE
    <3>1. q = p /\ at(q, i) = j
      <4>1. /\ q \in DOMAIN B /\ p \in DOMAIN B /\ at(q, i) \in 1..Len(B[q]) /\ j \in 1..Len(B[p])
            /\ B[q][at(q, i)] = B[p][j]
        BY <1>1, <2>2, <2>4
      <4> HIDE DEF at
      <4> QED BY <4>1 DEF Apart
    <3> QED BY <1>1, <2>2, <3>1
  <2> QED BY <2>3, <2>4
<1>5. ASSUME NEW m \in Msgs, Waits(B, m), m \notin {B[p][i] : i \in 1..n} PROVE Waits(C, m)
  <2>1. PICK q \in Places : \E i \in 1..Len(B[q]) : B[q][i] = m
    BY <1>1, <1>5 DEF Waits
  <2>a. PICK i \in 1..Len(B[q]) : B[q][i] = m
    BY <2>1
  <2>2. CASE q # p
    BY <1>1, <2>a, <2>2 DEF Waits
  <2>3. CASE q = p
    <3>1. i > n /\ i - n \in 1..Len(C[p]) /\ C[p][i - n] = m
      BY <1>1, <1>5, <2>a, <2>3
    <3> QED BY <1>1, <3>1 DEF Waits
  <2> QED BY <2>2, <2>3
<1> QED BY <1>3, <1>4, <1>5

\* One queue poured behind another: the same messages wait, each at one place.
LEMMA PourKeeps ==
  ASSUME NEW B \in Families, NEW p \in Places, NEW q \in Places, p # q, Apart(B),
         NEW C \in Families, Pour(B, C, p, q)
  PROVE  Apart(C) /\ \A m \in Msgs : Waits(C, m) <=> Waits(B, m)
<1>1. /\ DOMAIN C = Places /\ DOMAIN B = Places /\ Len(C[p]) = Len(B[p]) + Len(B[q])
      /\ \A i \in 1..Len(B[p]) : C[p][i] = B[p][i]
      /\ \A i \in 1..Len(B[q]) : C[p][Len(B[p]) + i] = B[q][i]
      /\ \A r \in Places : Len(B[r]) \in Nat
      /\ Len(C[q]) = 0
      /\ \A r \in Places \ {p, q} : C[r] = B[r]
  BY ConcatProperties DEF Pour, Families
<1>2. \A r \in Places : \A i \in 1..Len(C[r]) : 
        \/ r # q /\ i \in 1..Len(B[r]) /\ C[r][i] = B[r][i]
        \/ r = p /\ i - Len(B[p]) \in 1..Len(B[q]) /\ C[r][i] = B[q][i - Len(B[p])]
  <2> SUFFICES ASSUME NEW r \in Places, NEW i \in 1..Len(C[r]), ~(r # q /\ i \in 1..Len(B[r]) /\ C[r][i] = B[r][i])
      PROVE r = p /\ i - Len(B[p]) \in 1..Len(B[q]) /\ C[r][i] = B[q][i - Len(B[p])]
    OBVIOUS
  <2>1. r = p /\ i - Len(B[p]) \in 1..Len(B[q])
    <3>1. r # q
      BY <1>1
    <3>2. r = p
      BY <1>1, <3>1
    <3> QED BY <1>1, <3>2
  <2>2. C[p][Len(B[p]) + (i - Len(B[p]))] = B[q][i - Len(B[p])]
    BY <1>1, <2>1
  <2> QED BY <1>1, <2>1, <2>2
<1>3. \A x, y \in Places : \A k \in 1..Len(C[x]), l \in 1..Len(C[y]) : C[x][k] = C[y][l] => x = y /\ k = l
  <2> SUFFICES ASSUME NEW q1 \in Places, NEW q2 \in Places, NEW i \in 1..Len(C[q1]), NEW j \in 1..Len(C[q2]), C[q1][i] = C[q2][j]
               PROVE  q1 = q2 /\ i = j
    OBVIOUS
  <2>1. \A x, y \in Places : \A k \in 1..Len(B[x]), l \in 1..Len(B[y]) : B[x][k] = B[y][l] => x = y /\ k = l
    BY <1>1 DEF Apart
  <2>2. CASE q1 # q /\ i \in 1..Len(B[q1]) /\ C[q1][i] = B[q1][i]
    <3>1. CASE q2 # q /\ j \in 1..Len(B[q2]) /\ C[q2][j] = B[q2][j]
      <4>1. B[q1][i] = B[q2][j]
        BY <2>2, <3>1
      <4> QED BY <2>1, <2>2, <3>1, <4>1
    <3>2. CASE q2 = p /\ j - Len(B[p]) \in 1..Len(B[q]) /\ C[q2][j] = B[q][j - Len(B[p])]
      <4>1. B[q1][i] = B[q][j - Len(B[p])]
        BY <2>2, <3>2
      <4> QED BY <2>1, <2>2, <3>2, <4>1
    <3> QED BY <1>2, <3>1, <3>2
  <2>3. CASE q1 = p /\ i - Len(B[p]) \in 1..Len(B[q]) /\ C[q1][i] = B[q][i - Len(B[p])]
    <3>1. CASE q2 # q /\ j \in 1..Len(B[q2]) /\ C[q2][j] = B[q2][j]
      BY <2>1, <2>3, <3>1
    <3>2. CASE q2 = p /\ j - Len(B[p]) \in 1..Len(B[q]) /\ C[q2][j] = B[q][j - Len(B[p])]
      <4>1. B[q][i - Len(B[p])] = B[q][j - Len(B[p])]
        BY <2>3, <3>2
      <4>2. \A k, l \in 1..Len(B[q]) : B[q][k] = B[q][l] => k = l
        BY <2>1
      <4>3. i - Len(B[p]) = j - Len(B[p])
        BY <2>3, <3>2, <4>1, <4>2
      <4> QED BY <1>1, <4>3, <2>3, <3>2
    <3> QED BY <1>2, <3>1, <3>2
  <2> QED BY <1>2, <2>2, <2>3
<1>4. ASSUME NEW m \in Msgs, Waits(C, m) PROVE Waits(B, m)
  <2>1. PICK r \in Places : \E i \in 1..Len(C[r]) : C[r][i] = m
    BY <1>1, <1>4 DEF Waits
  <2>2. PICK i \in 1..Len(C[r]) : C[r][i] = m
    BY <2>1
  <2>3. \E x \in Places : \E k \in 1..Len(B[x]) : B[x][k] = m
    BY <1>2, <2>2
  <2> QED BY <1>1, <2>3 DEF Waits
<1>5. ASSUME NEW m \in Msgs, Waits(B, m) PROVE Waits(C, m)
  <2>1. PICK r \in Places : \E i \in 1..Len(B[r]) : B[r][i] = m
    BY <1>1, <1>5 DEF Waits
  <2>a. PICK i \in 1..Len(B[r]) : B[r][i] = m
    BY <2>1
  <2>2. CASE r # q
    <3>1. i \in 1..Len(C[r]) /\ C[r][i] = m
      <4>1. CASE r = p
        BY <1>1, <2>a, <4>1
      <4>2. CASE r # p
        <5>1. C[r] = B[r]
          BY <1>1, <2>2, <4>2
        <5> QED BY <2>a, <5>1
      <4> QED BY <4>1, <4>2
    <3> QED BY <1>1, <3>1 DEF Waits
  <2>3. CASE r = q
    <3>1. Len(B[p]) + i \in 1..Len(C[p]) /\ C[p][Len(B[p]) + i] = m
      BY <1>1, <2>a, <2>3
    <3> QED BY <1>1, <3>1 DEF Waits
  <2> QED BY <2>2, <2>3
<1>6. Apart(C)
  <2>1. DOMAIN C = Places
    BY <1>1
  <2> QED BY <1>3, <2>1, ApartIntro
<1> QED BY <1>4, <1>5, <1>6
----------------------------------------------------------------------------
(* What a step does to the queues. *)

\* The queues of a state: the inbound one under None, the pending one of every message.
LEMMA QueuesType ==
  ASSUME TypeOK
  PROVE  /\ Queues \in Families
         /\ Queues[None] = inbound /\ \A q \in Msgs : Queues[q] = pend[q]
BY DispatchAssumption DEF TypeOK, Queues, Places, Families

\* Nothing is queued or taken, and the same messages are pending.
LEMMA PlaceSame ==
  ASSUME PlaceInv, UNCHANGED <<inbound, pend>>,
         \A m \in Msgs : st'[m] = "pending" <=> st[m] = "pending"
  PROVE  PlaceInv'
<1>1. Queues' = Queues
  BY DEF Queues
<1> QED BY <1>1 DEF PlaceInv

\* A message is put on the bus.
LEMMA PlacePut ==
  ASSUME TypeOK, TypeOK', PlaceInv, NEW m \in Msgs, st[m] # "pending", inbound' = Append(inbound, m),
         UNCHANGED pend, st' = [st EXCEPT ![m] = "pending"]
  PROVE  PlaceInv'
<1>1. Queues \in Families /\ Queues' \in Families /\ None \in Places
  BY DEF TypeOK, Queues, Places, Families
<1>2. Put(Queues, Queues', None, m)
  BY DEF Put, Queues, Places
<1>3. Apart(Queues) /\ ~Waits(Queues, m)
  BY DEF PlaceInv
<1>4. Apart(Queues') /\ \A n \in Msgs : Waits(Queues', n) <=> Waits(Queues, n) \/ n = m
  BY <1>1, <1>2, <1>3, PutKeeps
<1>5. \A n \in Msgs : st'[n] = "pending" <=> st[n] = "pending" \/ n = m
  BY DEF TypeOK
<1> QED BY <1>4, <1>5 DEF PlaceInv

\* The first messages of a queue leave it, and are no longer pending.
LEMMA PlaceCut ==
  ASSUME TypeOK, TypeOK', PlaceInv, NEW p \in Places, NEW n \in Nat, n <= Len(Queues[p]),
         Cut(Queues, Queues', p, n),
         \A m \in Msgs : st'[m] = "pending" <=>
            st[m] = "pending" /\ m \notin {Queues[p][i] : i \in 1..n}
  PROVE  PlaceInv'
<1>1. Queues \in Families /\ Queues' \in Families
  BY DEF TypeOK, Queues, Places, Families
<1>2. Apart(Queues)
  BY DEF PlaceInv
<1>3. /\ Apart(Queues')
      /\ \A m \in Msgs : Waits(Queues', m) <=> Waits(Queues, m) /\ m \notin {Queues[p][i] : i \in 1..n}
  BY <1>1, <1>2, CutKeeps
<1> QED BY <1>3 DEF PlaceInv

\* run() takes the first message of the bus, and it is no longer pending.
LEMMA PlaceTake ==
  ASSUME TypeOK, TypeOK', PlaceInv, NEW m \in Msgs, inbound # <<>>, m = Head(inbound),
         inbound' = Tail(inbound), UNCHANGED pend, 
         \A n \in Msgs : st'[n] = "pending" <=> st[n] = "pending" /\ n # m
  PROVE  PlaceInv'
<1>1. None \in Places /\ 1 <= Len(Queues[None]) /\ Queues[None] = inbound /\ {Queues[None][i] : i \in 1..1} = {m}
  BY DEF TypeOK, Queues, Places
<1>2. inbound' = SubSeq(inbound, 2, Len(inbound))
  BY DEF TypeOK
<1>3. Cut(Queues, Queues', None, 1)
  BY <1>2 DEF Cut, Queues, Places
<1> QED BY <1>1, <1>3, PlaceCut

\* What the first message of the bus is.
LEMMA HeadPending ==
  ASSUME TypeOK, PlaceInv, inbound # <<>>
  PROVE  st[Head(inbound)] = "pending" /\ Head(inbound) \in Msgs
<1>1. Head(inbound) \in Msgs
  BY DEF TypeOK
<1>2. None \in DOMAIN Queues /\ 1 \in 1..Len(Queues[None]) /\ Queues[None][1] = Head(inbound)
  BY DEF TypeOK, Queues
<1> QED BY <1>1, <1>2 DEF PlaceInv, Waits

\* run() moves the first message of the bus to the pending queue of a task.
LEMMA PlaceMove ==
  ASSUME TypeOK, TypeOK', PlaceInv, NEW m \in Msgs, inbound # <<>>, m = Head(inbound),
         inbound' = Tail(inbound), NEW q \in Msgs, pend' = [pend EXCEPT ![q] = Append(@, m)],
         UNCHANGED st
  PROVE  PlaceInv'
<1> DEFINE M == [Queues EXCEPT ![None] = Tail(inbound)]
<1>1. /\ Queues \in Families /\ Queues' \in Families /\ M \in Families
      /\ None \in Places /\ q \in Places /\ q # None
  BY DispatchAssumption DEF TypeOK, Queues, Places, Families
<1>2. 1 <= Len(Queues[None]) /\ {Queues[None][i] : i \in 1..1} = {m}
  BY DEF TypeOK, Queues
<1>3. Cut(Queues, M, None, 1)
  <2>1. inbound' = SubSeq(inbound, 2, Len(inbound))
    BY DEF TypeOK
  <2> QED BY <2>1 DEF Cut, Queues, Places
<1>4. Put(M, Queues', q, m)
  BY <1>1 DEF Put, Queues, Places, TypeOK
<1> HIDE DEF M
<1>5. Apart(M) /\ \A n \in Msgs : Waits(M, n) <=> Waits(Queues, n) /\ n # m
  <2>1. Apart(Queues)
    BY DEF PlaceInv
  <2>2. 1 \in Nat
    OBVIOUS
  <2> QED BY <1>1, <1>2, <1>3, <2>1, <2>2, CutKeeps
<1>6. Apart(Queues') /\ \A n \in Msgs : Waits(Queues', n) <=> Waits(M, n) \/ n = m
  BY <1>1, <1>4, <1>5, PutKeeps
<1>7. Waits(Queues, m)
  BY HeadPending DEF PlaceInv
<1> QED BY <1>5, <1>6, <1>7 DEF PlaceInv

\* The finally of a task pours a pending queue into the bus.
LEMMA PlacePour ==
  ASSUME TypeOK, TypeOK', PlaceInv, NEW q \in Msgs \cup {None}, Republish(q),
         \A n \in Msgs : st'[n] = "pending" <=> st[n] = "pending"
  PROVE  PlaceInv'
<1>1. CASE q = None
  BY <1>1, PlaceSame DEF Republish
<1>2. CASE q # None
  <2>1. /\ Queues \in Families /\ Queues' \in Families
        /\ None \in Places /\ q \in Places /\ q \in Msgs
    BY <1>2 DEF TypeOK, Queues, Places, Families
  <2>2. Pour(Queues, Queues', None, q)
    <3>1. inbound' = inbound \o pend[q] /\ pend' = [pend EXCEPT ![q] = <<>>]
      BY <1>2 DEF Republish
    <3> QED BY <1>2, <2>1, <3>1 DEF Pour, Queues, Places, TypeOK
  <2>3. Apart(Queues)
    BY DEF PlaceInv
  <2>4. Apart(Queues') /\ \A n \in Msgs : Waits(Queues', n) <=> Waits(Queues, n)
    BY <1>2, <2>1, <2>2, <2>3, PourKeeps
  <2> QED BY <2>4 DEF PlaceInv
<1> QED BY <1>1, <1>2
\* A drain takes messages from the queue of its turn, and they join the turn.
LEMMA PlaceDrain ==
  ASSUME TypeOK, TypeOK', PlaceInv, NEW m \in Msgs, st[m] # "pending", TakeInjections(m)
  PROVE  PlaceInv'
<1> DEFINE n == IF Len(pend[m]) < MaxInject THEN Len(pend[m]) ELSE MaxInject
           taken == {pend[m][i] : i \in 1..n}
<1>1. n \in Nat /\ n <= Len(pend[m]) /\ m \in Places /\ Queues[m] = pend[m] /\ m # None
  <2>1. Len(pend[m]) \in Nat
    BY DEF TypeOK
  <2>2. n \in Nat /\ n <= Len(pend[m])
    BY <2>1, DispatchAssumption
  <2>3. m \in Places /\ Queues[m] = pend[m] /\ m # None
    BY DispatchAssumption DEF Queues, Places
  <2> QED BY <2>2, <2>3
<1>2. /\ st' = [t \in Msgs |-> IF t = m THEN "run" ELSE IF t \in taken THEN "injected" ELSE st[t]]
      /\ pend' = [pend EXCEPT ![m] = SubSeq(@, n + 1, Len(@))] /\ UNCHANGED inbound
  BY DEF TakeInjections
<1> HIDE DEF n
<1>3. Cut(Queues, Queues', m, n)
  BY <1>1, <1>2 DEF Cut, Queues, Places, TypeOK
<1>4. \A t \in Msgs : st'[t] = "pending" <=> st[t] = "pending" /\ t \notin taken
  BY <1>2
<1> QED BY <1>1, <1>3, <1>4, PlaceCut

\* A sequence without duplicates that grows at its end or loses its head.
LEMMA GrowDistinct ==
  ASSUME NEW S, NEW s \in Seq(S), NEW x \in S, Distinct(s), x \notin Members(s)
  PROVE  Distinct(Append(s, x)) /\ Members(Append(s, x)) = Members(s) \cup {x}
<1>1. /\ Len(s) \in Nat /\ Len(Append(s, x)) = Len(s) + 1 /\ Append(s, x)[Len(s) + 1] = x
      /\ \A i \in 1..Len(s) : Append(s, x)[i] = s[i]
  OBVIOUS
<1> DEFINE t == Append(s, x)
<1> HIDE DEF t
<1>2. \A i \in 1..Len(t) : (i \in 1..Len(s) /\ t[i] = s[i]) \/ (i = Len(s) + 1 /\ t[i] = x)
  BY <1>1 DEF t
<1>3. Distinct(t)
  BY <1>1, <1>2 DEF Distinct, Members
<1>4. Members(t) = Members(s) \cup {x}
  BY <1>1, <1>2 DEF Members, t
<1> QED BY <1>3, <1>4 DEF t

\* A sequence without repetitions less its head.
LEMMA TailDistinct ==
  ASSUME NEW S, NEW s \in Seq(S), s # <<>>, Distinct(s)
  PROVE  /\ Head(s) \in Members(s) /\ Members(s) \subseteq S
         /\ Distinct(Tail(s)) /\ Members(Tail(s)) = Members(s) \ {Head(s)}
<1>1. /\ Len(s) \in Nat /\ Len(s) >= 1 /\ Len(Tail(s)) = Len(s) - 1 /\ Head(s) = s[1]
      /\ \A i \in 1..(Len(s) - 1) : Tail(s)[i] = s[i + 1]
      /\ \A i \in 1..Len(s) : s[i] \in S
  OBVIOUS
<1> DEFINE t == Tail(s)
<1> HIDE DEF t
<1>2. Len(t) = Len(s) - 1 /\ \A i \in 1..Len(t) : i + 1 \in 1..Len(s) /\ t[i] = s[i + 1]
  BY <1>1 DEF t
<1>3. Distinct(t)
  BY <1>1, <1>2 DEF Distinct
<1>4. \A y \in Members(s) \ {Head(s)} : y \in Members(t)
  <2> SUFFICES ASSUME NEW i \in 1..Len(s), s[i] # s[1] PROVE s[i] \in Members(t)
    BY <1>1 DEF Members
  <2>1. i - 1 \in 1..Len(t) /\ t[i - 1] = s[i]
    BY <1>1, <1>2
  <2> QED BY <2>1 DEF Members
<1>5. \A y \in Members(t) : y \in Members(s) /\ y # s[1]
  BY <1>1, <1>2 DEF Distinct, Members
<1>6. Head(s) \in Members(s) /\ Members(s) \subseteq S
  BY <1>1 DEF Members
<1>7. Members(t) = Members(s) \ {Head(s)}
  BY <1>1, <1>4, <1>5
<1> QED BY <1>3, <1>6, <1>7 DEF t

\* The created tasks are messages.
LEMMA CreatedMsgs ==
  ASSUME TypeOK
  PROVE  created \in Seq(Msgs) /\ Members(created) \subseteq Msgs
<1>1. created \in Seq(Msgs)
  BY DEF TypeOK
<1> QED BY <1>1 DEF Members

\* What is at the head of the created tasks.
LEMMA HeadCreated ==
  ASSUME TypeOK, CreatedInv, created # <<>>
  PROVE  Head(created) \in Msgs /\ st[Head(created)] = "created" /\ IsTask(Head(created))
BY TailDistinct DEF TypeOK, CreatedInv

\* Every step keeps PlaceInv.
LEMMA PlaceInvNext ==
  ASSUME TypeOK, TypeOK', PlaceInv, CreatedInv, [Next]_vars
  PROVE  PlaceInv'
<1> USE DEF TypeOK
<1>1. CASE UNCHANGED vars
  BY <1>1, PlaceSame DEF vars, queueVars
<1>2. ASSUME NEW m \in Msgs, RouteCancel(m) \/ RouteInline(m) \/ RouteToTask(m) PROVE PlaceInv'
  <2>1. /\ inbound # <<>> /\ m = Head(inbound) /\ inbound' = Tail(inbound) /\ UNCHANGED pend
        /\ \/ st' = [st EXCEPT ![m] = "await"] \/ st' = [st EXCEPT ![m] = "done"]
           \/ st' = [st EXCEPT ![m] = "created"]
    BY <1>2 DEF RouteCancel, RouteInline, RouteToTask, RunReady, BeginCancel
  <2>2. \A n \in Msgs : st'[n] = "pending" <=> st[n] = "pending" /\ n # m
    BY <2>1
  <2> QED BY <2>1, <2>2, PlaceTake
<1>3. ASSUME NEW m \in Msgs, RouteToQueue(m) PROVE PlaceInv'
  <2> DEFINE q == reg[EffectiveKey(m)]
  <2>1. q \in Msgs
    BY <1>3, KeyTypes DEF RouteToQueue, HasRoom, Registered
  <2>2. /\ inbound # <<>> /\ m = Head(inbound) /\ inbound' = Tail(inbound)
        /\ pend' = [pend EXCEPT ![q] = Append(@, m)] /\ UNCHANGED st
    BY <1>3 DEF RouteToQueue, RunReady
  <2> HIDE DEF q
  <2> QED BY <2>1, <2>2, PlaceMove
<1>4. ASSUME NEW m \in Msgs, Announce(m) \/ Publish(m) PROVE PlaceInv'
  BY <1>4, PlacePut DEF Announce, Publish
<1>5. ASSUME NEW m \in Msgs, Regenerate(m) PROVE PlaceInv'
  <2>1. st[m] = "lock" /\ UNCHANGED pend
    BY <1>5 DEF Regenerate
  <2>2. CASE st' = [st EXCEPT ![m] = "pending"] /\ inbound' = Append(inbound, m)
    BY <2>1, <2>2, PlacePut
  <2>3. CASE st' = [st EXCEPT ![m] = "done"] /\ UNCHANGED inbound
    BY <2>1, <2>3, PlaceSame
  <2> QED BY <1>5, <2>2, <2>3 DEF Regenerate
<1>6. ASSUME NEW m \in Msgs, WakeForSub(m) \/ Drain(m) PROVE PlaceInv'
  BY <1>6, PlaceDrain DEF WakeForSub, Drain, Running
<1>7. ASSUME NEW m \in Msgs, Cancelled(m) \/ EndTurn(m) PROVE PlaceInv'
  <2>1. /\ st[m] # "pending"
        /\ \E f \in Over : st' = [st EXCEPT ![m] = f]
        /\ Republish(reg[EffectiveKey(m)])
    BY <1>7 DEF Cancelled, EndTurn, EndTask, Over
  <2>2. \A n \in Msgs : st'[n] = "pending" <=> st[n] = "pending"
    BY <2>1 DEF Over
  <2>3. reg[EffectiveKey(m)] \in Msgs \cup {None}
    BY KeyTypes
  <2> QED BY <2>1, <2>2, <2>3, PlacePour
<1>8. ASSUME NEW m \in Msgs, CancelSubs(m) \/ FinishCancel(m) PROVE PlaceInv'
  <2>1. UNCHANGED <<inbound, pend>> /\ \A n \in Msgs : st'[n] = "pending" <=> st[n] = "pending"
    BY <1>8 DEF FinishCancel, TasksOver, CancelSubs, SubsOf, queueVars
  <2> QED BY <2>1, PlaceSame
<1>9. ASSUME NEW m \in Msgs, StartTask(m) PROVE PlaceInv'
  <2>1. st[m] = "created"
    BY <1>9, HeadCreated DEF StartTask
  <2> QED BY <1>9, <2>1, PlaceSame DEF StartTask
<1>10. ASSUME NEW m \in Msgs, GotLock(m) \/ SubTimeout(m) \/ WaitForSub(m) \/ DirectCall(m)
              \/ DirectBegin(m) \/ DirectEnd(m)
       PROVE  PlaceInv'
  <2>1. UNCHANGED <<inbound, pend>> /\ \A n \in Msgs : st'[n] = "pending" <=> st[n] = "pending"
    BY <1>10 DEF GotLock, SubTimeout, WaitForSub, DirectCall, DirectBegin, DirectEnd, Running, queueVars
  <2> QED BY <2>1, PlaceSame
<1>11. ASSUME NEW m \in Msgs, BeginTurn(m) PROVE PlaceInv'
  <2>1. UNCHANGED <<inbound, pend>> /\ \A n \in Msgs : st'[n] = "pending" <=> st[n] = "pending"
    BY <1>11 DEF BeginTurn, BeginCancel, queueVars
  <2> QED BY <2>1, PlaceSame
<1>12. ASSUME NEW m \in Msgs, NEW b \in Msgs, Spawn(m, b) PROVE PlaceInv'
  <2>1. UNCHANGED <<inbound, pend>> /\ \A n \in Msgs : st'[n] = "pending" <=> st[n] = "pending"
    BY <1>12 DEF Spawn, queueVars
  <2> QED BY <2>1, PlaceSame
<1>13. CASE Idle
  BY <1>1, <1>13 DEF Idle
<1> QED
  BY <1>1, <1>2, <1>3, <1>4, <1>5, <1>6, <1>7, <1>8, <1>9, <1>10, <1>11, <1>12, <1>13
  DEF Next, Progress, Route
\* The order a message is in does not change while it is not the /regenerate that is
\* published again.
LEMMA RoleSame ==
  ASSUME NEW n \in Msgs, n \in rerun' <=> n \in rerun
  PROVE  Role(n)' = Role(n) /\ EffectiveKey(n)' = EffectiveKey(n) /\ (IsTask(n)' <=> IsTask(n))
BY DEF Role, EffectiveKey, SessionKey, KeyOverride, IsTask

\* Which messages a step publishes again: /regenerate itself, under its session lock.
LEMMA RerunStep ==
  ASSUME [Next]_vars
  PROVE  /\ rerun \subseteq rerun'
         /\ \A n \in rerun' \ rerun : st[n] = "lock" /\ Role(n) = "regen" /\ runCmd' = None
<1>1. ASSUME NEW m \in Msgs, Progress(m), ~Regenerate(m) PROVE UNCHANGED rerun
  BY <1>1 DEF Progress, Route, RouteCancel, RouteInline, RouteToQueue, RouteToTask, FinishCancel, TasksOver, CancelSubs,
     StartTask, GotLock, BeginTurn, WakeForSub, TakeInjections, SubTimeout, Cancelled, EndTask,
     DirectBegin, Announce, runVars
<1>2. ASSUME NEW m \in Msgs, Publish(m) \/ Drain(m) \/ WaitForSub(m) \/ EndTurn(m) \/ DirectCall(m)
             \/ DirectEnd(m) \/ \E b \in Msgs : Spawn(m, b)
      PROVE  UNCHANGED rerun
  BY <1>2 DEF Publish, Drain, TakeInjections, WaitForSub, EndTurn, EndTask, DirectCall, DirectEnd, Spawn
<1>3. ASSUME NEW m \in Msgs, Regenerate(m)
      PROVE  /\ rerun \subseteq rerun'
             /\ \A n \in rerun' \ rerun : st[n] = "lock" /\ Role(n) = "regen" /\ runCmd' = None
  BY <1>3 DEF Regenerate
<1>4. ASSUME Idle \/ UNCHANGED vars PROVE UNCHANGED rerun
  BY <1>4 DEF Idle, vars, runVars
<1> QED BY <1>1, <1>2, <1>3, <1>4 DEF Next

\* A drain changes the state of its turn and of pending messages only.
LEMMA DrainStates ==
  ASSUME TypeOK, PlaceInv, NEW m \in Msgs, TakeInjections(m)
  PROVE  /\ st' \in [Msgs -> States] /\ st'[m] = "run"
         /\ \A t \in Msgs \ {m} : st'[t] = st[t] \/ (st[t] = "pending" /\ st'[t] = "injected")
<1> DEFINE n == IF Len(pend[m]) < MaxInject THEN Len(pend[m]) ELSE MaxInject
           taken == {pend[m][i] : i \in 1..n}
<1>1. n \in Nat /\ n <= Len(pend[m]) /\ Len(pend[m]) \in Nat
  <2>1. Len(pend[m]) \in Nat
    BY DEF TypeOK
  <2> QED BY <2>1, DispatchAssumption
<1>2. st' = [t \in Msgs |-> IF t = m THEN "run" ELSE IF t \in taken THEN "injected" ELSE st[t]]
  BY DEF TakeInjections
<1> HIDE DEF n
<1>3. ASSUME NEW i \in 1..n PROVE st[pend[m][i]] = "pending"
  <2>1. m \in DOMAIN Queues /\ Queues[m] = pend[m]
    BY DispatchAssumption DEF Queues
  <2>2. i \in 1..Len(pend[m]) /\ pend[m][i] \in Msgs
    BY <1>1 DEF TypeOK
  <2> QED BY <2>1, <2>2 DEF PlaceInv, Waits
<1> QED BY <1>2, <1>3 DEF TypeOK, States, Turning, Over

\* Every step keeps CommandInv.
LEMMA CommandInvNext ==
  ASSUME TypeOK, PlaceInv, CreatedInv, CommandInv, [Next]_vars
  PROVE  CommandInv'
<1> USE DEF TypeOK
<1>1. \A n \in rerun' : Kind[n] = "regen"
  BY RerunStep DEF CommandInv, Role
<1> DEFINE Waits2(n) == st[n] \in {"await", "gather"} \/ (st[n] = "lock" /\ Role(n) = "regen")
<1>2. SUFFICES ASSUME NEW c \in Msgs, runCmd' = c PROVE Waits2(c)'
  BY <1>1 DEF CommandInv
<1>3. c # None /\ (c \in rerun' <=> c \in rerun)
  BY <1>2, RerunStep, DispatchAssumption
<1>4. Role(c)' = Role(c)
  BY <1>3, RoleSame
<1>5. runCmd = c => Waits2(c)
  BY DEF CommandInv
<1>6. ASSUME runCmd' = runCmd, st'[c] = st[c] PROVE Waits2(c)'
  BY <1>2, <1>4, <1>5, <1>6
<1>7. CASE UNCHANGED vars
  BY <1>6, <1>7 DEF vars, runVars
<1>8. ASSUME NEW m \in Msgs, Route(m) PROVE Waits2(c)'
  <2>1. runCmd = None
    BY <1>8 DEF Route, RouteCancel, RouteInline, RouteToQueue, RouteToTask, RunReady
  <2>2. RouteCancel(m) /\ c = m
    BY <1>2, <1>3, <1>8, <2>1 DEF Route, RouteCancel, RouteInline, RouteToQueue, RouteToTask, runVars
  <2> QED BY <2>2 DEF RouteCancel, BeginCancel
<1>9. ASSUME NEW m \in Msgs, FinishCancel(m) PROVE Waits2(c)'
  <2>1. runCmd = c /\ Waits2(c)
    BY <1>2, <1>3, <1>5, <1>9 DEF FinishCancel, TasksOver, CancelSubs
  <2>2. c # m => st'[c] = st[c]
    BY <1>9, <2>1 DEF FinishCancel, TasksOver, CancelSubs
  <2>3. c = m => st'[c] = "lock" /\ Role(c) = "regen"
    BY <1>2, <1>3, <1>9, <2>1 DEF FinishCancel, TasksOver, CancelSubs
  <2> QED BY <1>4, <2>1, <2>2, <2>3
<1>19. ASSUME NEW m \in Msgs, CancelSubs(m) PROVE Waits2(c)'
  <2>1. runCmd = c /\ Waits2(c)
    BY <1>2, <1>5, <1>19 DEF CancelSubs
  <2>2. c # m => st'[c] = st[c]
    BY <1>19, <2>1 DEF CancelSubs, SubsOf
  <2>3. c = m => st'[c] = "gather"
    BY <1>19 DEF CancelSubs
  <2> QED BY <1>4, <2>1, <2>2, <2>3
<1>10. ASSUME NEW m \in Msgs, Regenerate(m) PROVE FALSE
  BY <1>2, <1>3, <1>10 DEF Regenerate
<1>11. ASSUME NEW m \in Msgs, runCmd' = runCmd, \A n \in Msgs : n # m => st'[n] = st[n],
              \/ st[m] \notin {"await", "gather", "lock"}
              \/ st[m] = "lock" /\ (IsTask(m) \/ Kind[m] = "direct")
       PROVE  Waits2(c)'
  <2>1. c # m
    BY <1>2, <1>5, <1>11 DEF IsTask, Role, CommandInv
  <2> QED BY <1>6, <1>11, <2>1
<1>12. ASSUME NEW m \in Msgs, GotLock(m) \/ SubTimeout(m) \/ WaitForSub(m) \/ Announce(m) \/ Publish(m)
             \/ DirectBegin(m) \/ DirectEnd(m) \/ DirectCall(m)
      PROVE  Waits2(c)'
  BY <1>11, <1>12 DEF GotLock, SubTimeout, WaitForSub, Running, Announce, Publish, DirectBegin, DirectEnd,
     DirectCall
<1>13. ASSUME NEW m \in Msgs, BeginTurn(m) PROVE Waits2(c)'
  BY <1>11, <1>13 DEF BeginTurn, BeginCancel
<1>14. ASSUME NEW m \in Msgs, NEW b \in Msgs, Spawn(m, b) PROVE Waits2(c)'
  BY <1>11, <1>14 DEF Spawn
<1>15. ASSUME NEW m \in Msgs, Cancelled(m) \/ EndTurn(m) PROVE Waits2(c)'
  BY <1>11, <1>15 DEF Cancelled, EndTurn, EndTask
<1>16. ASSUME NEW m \in Msgs, StartTask(m) PROVE Waits2(c)'
  <2>1. st[m] = "created"
    BY <1>16, HeadCreated DEF StartTask
  <2> QED BY <1>11, <1>16, <2>1 DEF StartTask
<1>17. ASSUME NEW m \in Msgs, WakeForSub(m) \/ Drain(m) PROVE Waits2(c)'
  <2>1. st[m] \in {"run", "subwait"} /\ TakeInjections(m) /\ UNCHANGED runCmd
    BY <1>17 DEF WakeForSub, Drain, Running, TakeInjections
  <2>2. st'[c] = st[c]
    BY <1>2, <1>5, <2>1, DrainStates
  <2> QED BY <1>6, <2>1, <2>2
<1>18. CASE Idle
  BY <1>7, <1>18 DEF Idle
<1> QED
  BY <1>7, <1>8, <1>9, <1>10, <1>12, <1>13, <1>14, <1>15, <1>16, <1>17, <1>18, <1>19 DEF Next, Progress

\* Every step keeps CreatedInv.
LEMMA CreatedInvNext ==
  ASSUME TypeOK, TypeOK', PlaceInv, CreatedInv, CommandInv, [Next]_vars
  PROVE  CreatedInv'
<1> USE DEF TypeOK
<1>1. ASSUME UNCHANGED created, \A n \in Msgs : st[n] = "created" => st'[n] = "created"
      PROVE  CreatedInv'
  <2>1. \A n \in Members(created) : n \in Msgs /\ st[n] = "created" /\ IsTask(n)
    BY CreatedMsgs DEF CreatedInv
  <2>2. \A n \in Msgs : st[n] = "created" => (IsTask(n)' <=> IsTask(n))
    BY RerunStep, RoleSame
  <2> QED BY <1>1, <2>1, <2>2 DEF CreatedInv
<1>2. CASE UNCHANGED vars
  BY <1>1, <1>2 DEF vars, taskVars
<1>3. ASSUME NEW m \in Msgs, RouteToTask(m) PROVE CreatedInv'
  <2>1. /\ m = Head(inbound) /\ inbound # <<>> /\ created' = Append(created, m) /\ IsTask(m)
        /\ st' = [st EXCEPT ![m] = "created"] /\ UNCHANGED rerun
    BY <1>3 DEF RouteToTask, RunReady, NeedsTask, IsTask
  <2>2. st[m] = "pending"
    BY <2>1, HeadPending
  <2>3. \A n \in Msgs : IsTask(n)' <=> IsTask(n)
    BY <2>1, RoleSame
  <2>4. Distinct(created) /\ \A n \in Members(created) : n \in Msgs /\ st[n] = "created" /\ IsTask(n)
    BY CreatedMsgs DEF CreatedInv
  <2>5. m \notin Members(created)
    BY <2>2, <2>4
  <2>6. Distinct(created') /\ Members(created') = Members(created) \cup {m}
    BY SMTT(30), <2>1, <2>4, <2>5, CreatedMsgs, GrowDistinct
  <2> QED BY <2>1, <2>3, <2>4, <2>6 DEF CreatedInv
<1>4. ASSUME NEW m \in Msgs, StartTask(m) PROVE CreatedInv'
  <2>1. /\ m = Head(created) /\ created # <<>> /\ created' = Tail(created) /\ UNCHANGED rerun
        /\ \A n \in Msgs : n # m => st'[n] = st[n]
    BY <1>4 DEF StartTask
  <2>2. \A n \in Msgs : IsTask(n)' <=> IsTask(n)
    BY <2>1, RoleSame
  <2>3. /\ Distinct(created') /\ Members(created') = Members(created) \ {m}
        /\ Members(created) \subseteq Msgs
    BY <2>1, TailDistinct DEF CreatedInv
  <2> QED BY <2>1, <2>2, <2>3 DEF CreatedInv
<1>5. ASSUME NEW m \in Msgs, RouteCancel(m) \/ RouteInline(m) \/ RouteToQueue(m) PROVE CreatedInv'
  <2>1. st[m] = "pending"
    BY <1>5, HeadPending DEF RouteCancel, RouteInline, RouteToQueue, RunReady
  <2> QED BY <1>1, <1>5, <2>1 DEF RouteCancel, BeginCancel, RouteInline, RouteToQueue, taskVars
<1>6. ASSUME NEW m \in Msgs, CancelSubs(m) \/ FinishCancel(m) PROVE CreatedInv'
  BY <1>1, <1>6 DEF FinishCancel, TasksOver, CancelSubs, SubsOf, taskVars
<1>7. ASSUME NEW m \in Msgs, Regenerate(m) PROVE CreatedInv'
  BY <1>1, <1>7 DEF Regenerate, taskVars
<1>8. ASSUME NEW m \in Msgs, GotLock(m) \/ SubTimeout(m) \/ WaitForSub(m) \/ Announce(m) \/ Publish(m)
             \/ DirectBegin(m) \/ DirectEnd(m) \/ DirectCall(m)
      PROVE  CreatedInv'
  BY <1>1, <1>8 DEF GotLock, SubTimeout, WaitForSub, Running, Announce, Publish, DirectBegin, DirectEnd,
     DirectCall, taskVars
<1>9. ASSUME NEW m \in Msgs, BeginTurn(m) PROVE CreatedInv'
  BY <1>1, <1>9 DEF BeginTurn, BeginCancel
<1>10. ASSUME NEW m \in Msgs, NEW b \in Msgs, Spawn(m, b) PROVE CreatedInv'
  BY <1>1, <1>10 DEF Spawn, taskVars
<1>11. ASSUME NEW m \in Msgs, Cancelled(m) \/ EndTurn(m) PROVE CreatedInv'
  BY <1>1, <1>11 DEF Cancelled, EndTurn, EndTask
<1>12. ASSUME NEW m \in Msgs, WakeForSub(m) \/ Drain(m) PROVE CreatedInv'
  <2>1. st[m] \in {"run", "subwait"} /\ TakeInjections(m) /\ UNCHANGED created
    BY <1>12 DEF WakeForSub, Drain, Running, TakeInjections
  <2> QED BY <1>1, <2>1, DrainStates
<1>13. CASE Idle
  BY <1>2, <1>13 DEF Idle
<1> QED
  BY <1>2, <1>3, <1>4, <1>5, <1>6, <1>7, <1>8, <1>9, <1>10, <1>11, <1>12, <1>13
  DEF Next, Progress, Route

\* Every step keeps the registered queues with living dispatch tasks.
LEMMA RegisteredNext ==
  ASSUME TypeOK, TypeOK', PlaceInv, CreatedInv, CommandInv, RegisteredInv, RegisteredAlive, [Next]_vars
  PROVE  RegisteredInv' /\ RegisteredAlive'
<1> USE DEF TypeOK
<1> DEFINE Alive == {"lock", "gate"} \cup Turning
           Live(k, t) == IsTask(t) /\ runCmd # t /\ st[t] \in Alive /\ EffectiveKey(t) = k
<1>1. ASSUME NEW k \in Keys, NEW t \in Msgs, reg[k] = t PROVE Live(k, t)
  <2>1. Registered(k)
    BY <1>1, DispatchAssumption DEF Registered
  <2> QED BY <1>1, <2>1 DEF RegisteredInv, RegisteredAlive
<1>2. SUFFICES ASSUME NEW k \in Keys, NEW t \in Msgs, reg'[k] = t PROVE Live(k, t)'
  BY DEF RegisteredInv, RegisteredAlive, Registered
<1>3. \A n \in Msgs : IsTask(n) \/ st[n] # "lock" =>
         (IsTask(n)' <=> IsTask(n)) /\ EffectiveKey(n)' = EffectiveKey(n)
  BY RerunStep, RoleSame DEF IsTask
<1>4. ASSUME reg[k] = t, runCmd' # t, st'[t] \in Alive PROVE Live(k, t)'
  BY <1>1, <1>3, <1>4
<1>5. ASSUME UNCHANGED reg, runCmd' = runCmd \/ runCmd' = None, st[t] \in Alive => st'[t] \in Alive
      PROVE  Live(k, t)'
  <2>1. reg[k] = t /\ t # None
    BY <1>2, <1>5, DispatchAssumption
  <2> QED BY <1>1, <1>4, <1>5, <2>1
<1>6. CASE UNCHANGED vars
  BY <1>5, <1>6 DEF vars, queueVars, runVars
<1>7. ASSUME NEW m \in Msgs, Route(m) PROVE Live(k, t)'
  <2>1. reg[k] = t /\ st[t] \in Alive
    BY <1>1, <1>2, <1>7 DEF Route, RouteCancel, RouteInline, RouteToQueue, RouteToTask
  <2>2. st[m] = "pending"
    BY <1>7, HeadPending DEF Route, RouteCancel, RouteInline, RouteToQueue, RouteToTask, RunReady
  <2>3. m # t
    BY <2>1, <2>2 DEF Turning
  <2>4. runCmd' = runCmd \/ runCmd' = m
    BY <1>7 DEF Route, RouteCancel, RouteInline, RouteToQueue, RouteToTask, runVars
  <2>5. st'[t] = st[t]
    BY <1>7, <2>3 DEF Route, RouteCancel, BeginCancel, RouteInline, RouteToQueue, RouteToTask
  <2> QED BY <1>1, <1>4, <2>1, <2>3, <2>4, <2>5
<1>18. ASSUME NEW m \in Msgs, CancelSubs(m) PROVE Live(k, t)'
  BY <1>5, <1>18 DEF CancelSubs, TasksOver, SubsOf, queueVars, Turning
<1>8. ASSUME NEW m \in Msgs, FinishCancel(m) PROVE Live(k, t)'
  <2>1. reg[k] = t /\ Live(k, t)
    BY <1>1, <1>2, <1>8 DEF FinishCancel, TasksOver, CancelSubs, queueVars
  <2>2. runCmd' # t
    BY <2>1, <1>8, DispatchAssumption DEF FinishCancel, TasksOver, CancelSubs
  <2>3. st'[t] \in Alive
    BY <2>1, <1>8 DEF FinishCancel, TasksOver, CancelSubs, IsTask, Turning
  <2> QED BY <1>4, <2>1, <2>2, <2>3
<1>9. ASSUME NEW m \in Msgs, Regenerate(m) PROVE Live(k, t)'
  <2>1. reg[k] = t /\ Live(k, t) /\ m # t
    BY <1>1, <1>2, <1>9 DEF Regenerate, IsTask
  <2> QED BY <1>4, <1>9, <2>1, DispatchAssumption DEF Regenerate
<1>10. ASSUME NEW m \in Msgs, StartTask(m) PROVE Live(k, t)'
  <2>1. st[m] = "created" /\ IsTask(m) /\ UNCHANGED runCmd
    BY <1>10, HeadCreated DEF StartTask
  <2>2. CASE reg[k] = t
    <3>1. m # t
      BY <1>1, <2>1, <2>2 DEF Turning
    <3> QED BY SMTT(30), <1>1, <1>4, <1>10, <2>1, <2>2, <3>1 DEF StartTask
  <2>3. CASE reg[k] # t
    <3>1. t = m /\ k = EffectiveKey(m) /\ st'[m] = "lock"
      BY <1>2, <1>10, <2>3, KeyTypes DEF StartTask
    <3>2. runCmd # m
      BY <2>1 DEF CommandInv
    <3> QED BY <1>3, <2>1, <3>1, <3>2
  <2> QED BY <2>2, <2>3
<1>11. ASSUME NEW m \in Msgs, Cancelled(m) \/ EndTurn(m) PROVE Live(k, t)'
  <2>1. /\ reg' = [reg EXCEPT ![EffectiveKey(m)] = None] /\ UNCHANGED runCmd
        /\ \A n \in Msgs : n # m => st'[n] = st[n]
    BY <1>11 DEF Cancelled, EndTurn, EndTask, Unregister
  <2>2. k # EffectiveKey(m) /\ reg[k] = t
    BY <1>2, <2>1, DispatchAssumption
  <2>3. t # m
    BY <1>1, <2>2
  <2> QED BY <1>1, <1>4, <2>1, <2>2, <2>3
<1>12. ASSUME NEW m \in Msgs, WakeForSub(m) \/ Drain(m) PROVE Live(k, t)'
  <2>1. st[m] \in {"run", "subwait"} /\ TakeInjections(m) /\ UNCHANGED <<reg, runCmd>>
    BY <1>12 DEF WakeForSub, Drain, Running, TakeInjections
  <2>2. st[t] \in Alive => st'[t] \in Alive
    BY <2>1, DrainStates DEF Turning
  <2> QED BY <1>5, <2>1, <2>2
<1>13. ASSUME NEW m \in Msgs, GotLock(m) \/ SubTimeout(m) \/ WaitForSub(m) \/ Announce(m) \/ Publish(m)
              \/ DirectBegin(m) \/ DirectCall(m)
       PROVE  Live(k, t)'
  BY <1>5, <1>13 DEF GotLock, SubTimeout, WaitForSub, Announce, Publish, DirectBegin, DirectCall,
     queueVars, Turning
<1>14. ASSUME NEW m \in Msgs, DirectEnd(m) PROVE Live(k, t)'
  <2>1. reg[k] = t /\ Live(k, t)
    BY <1>1, <1>2, <1>14 DEF DirectEnd, queueVars
  <2>2. m # t
    BY <1>14, <2>1 DEF DirectEnd, IsTask, Role, CommandInv
  <2> QED BY <1>5, <1>14, <2>2 DEF DirectEnd, queueVars
<1>15. ASSUME NEW m \in Msgs, BeginTurn(m) PROVE Live(k, t)'
  BY <1>5, <1>15 DEF BeginTurn, BeginCancel, queueVars, Turning
<1>16. ASSUME NEW m \in Msgs, NEW b \in Msgs, Spawn(m, b) PROVE Live(k, t)'
  BY <1>5, <1>16 DEF Spawn, queueVars, Turning
<1>17. CASE Idle
  BY <1>6, <1>17 DEF Idle
<1> QED
  BY <1>6, <1>7, <1>8, <1>9, <1>10, <1>11, <1>12, <1>13, <1>14, <1>15, <1>16, <1>17, <1>18
  DEF Next, Progress

----------------------------------------------------------------------------
\* A message that waits at one place waits at exactly one of the places OnePlace counts.
LEMMA OnePlaceHolds ==
  ASSUME TypeOK, PlaceInv
  PROVE  OnePlace
<1> SUFFICES ASSUME NEW m \in Msgs
             PROVE  LET places == {<<None, i>> : i \in {j \in 1..Len(inbound) : inbound[j] = m}}
                          \cup UNION {{<<q, i>> : i \in {j \in 1..Len(pend[q]) : pend[q][j] = m}} : q \in Msgs}
                    IN  Cardinality(places) = IF st[m] = "pending" THEN 1 ELSE 0
  BY DEF OnePlace
<1> DEFINE places == {<<None, i>> : i \in {j \in 1..Len(inbound) : inbound[j] = m}}
                \cup UNION {{<<q, i>> : i \in {j \in 1..Len(pend[q]) : pend[q][j] = m}} : q \in Msgs}
<1>1. DOMAIN Queues = Places /\ Queues[None] = inbound /\ \A q \in Msgs : Queues[q] = pend[q]
  BY DispatchAssumption DEF Queues, Places
<1>2. \A x \in places : \E p \in Places : \E i \in 1..Len(Queues[p]) : x = <<p, i>> /\ Queues[p][i] = m
  BY <1>1 DEF Places
<1>3. \A p \in Places : \A i \in 1..Len(Queues[p]) : Queues[p][i] = m => <<p, i>> \in places
  BY <1>1 DEF Places
<1> HIDE DEF places
<1>4. CASE st[m] = "pending"
  <2>1. PICK p \in Places : \E i \in 1..Len(Queues[p]) : Queues[p][i] = m
    BY <1>1, <1>4 DEF PlaceInv, Waits
  <2>2. PICK i \in 1..Len(Queues[p]) : Queues[p][i] = m
    BY <2>1
  <2>3. <<p, i>> \in places
    BY <1>3, <2>2
  <2>4. ASSUME NEW x \in places PROVE x = <<p, i>>
    <3>1. PICK q \in Places : \E j \in 1..Len(Queues[q]) : x = <<q, j>> /\ Queues[q][j] = m
      BY <1>2, <2>4
    <3>2. PICK j \in 1..Len(Queues[q]) : x = <<q, j>> /\ Queues[q][j] = m
      BY <3>1
    <3>3. q = p /\ j = i
      BY <1>1, <2>2, <3>2 DEF PlaceInv, Apart
    <3> QED BY <3>2, <3>3
  <2>5. places = {<<p, i>>}
    BY <2>3, <2>4
  <2> QED BY <1>4, <2>5, FS_Singleton DEF places
<1>5. CASE st[m] # "pending"
  <2>1. ~Waits(Queues, m)
    BY <1>5 DEF PlaceInv
  <2>2. places = {}
    BY <1>1, <1>2, <2>1 DEF Waits
  <2> QED BY <1>5, <2>2, FS_EmptySet DEF places
<1> QED BY <1>4, <1>5

\* The inductive invariant holds.
LEMMA QueueInvariant == Spec => []QueueInv
<1>1. Init => QueueInv
  <2> SUFFICES ASSUME Init PROVE QueueInv
    OBVIOUS
  <2>1. DOMAIN Queues = Places /\ \A p \in Places : Len(Queues[p]) = 0
    BY DEF Init, Queues, Places
  <2>2. PlaceInv
    <3>1. Apart(Queues) /\ \A m \in Msgs : ~Waits(Queues, m)
      BY <2>1 DEF Apart, Waits
    <3> QED BY <3>1 DEF Init, PlaceInv
  <2>3. CreatedInv
    BY DEF Init, CreatedInv, Distinct, Members
  <2>4. CommandInv /\ RegisteredInv /\ RegisteredAlive
    BY DispatchAssumption DEF Init, CommandInv, RegisteredInv, RegisteredAlive, Registered
  <2> QED BY <2>2, <2>3, <2>4 DEF QueueInv
<1>2. TypeOK /\ TypeOK' /\ QueueInv /\ [Next]_vars => QueueInv'
  BY PlaceInvNext, CreatedInvNext, CommandInvNext, RegisteredNext DEF QueueInv
<1> QED BY <1>1, <1>2, TypeCorrect, PTL DEF Spec

\* An accepted message waits at exactly one place until it is taken up, and run() puts a
\* follow-up only into the queue of a dispatch task of its session that has yet to reach its
\* finally; whoever is past a session's lock holds it (run, _dispatch, process_direct).
THEOREM QueuesSound == Spec => []DispatchSound
<1>1. TypeOK /\ QueueInv /\ LockInv /\ RegenInv => DispatchSound
  BY OnePlaceHolds DEF QueueInv, DispatchSound
<1> QED BY <1>1, QueueInvariant, TypeCorrect, LockHeld, PTL

----------------------------------------------------------------------------
(* What /stop reaches. *)

\* Where a session is one chat, a message is routed, locked and filed by its chat.
LEMMA KeyIsChat ==
  ASSUME SessionPerChat, NEW m \in Msgs
  PROVE  EffectiveKey(m) = ChatKey[m] /\ SessionKey(m) = ChatKey[m]
BY DispatchAssumption DEF SessionPerChat, EffectiveKey, SessionKey, KeyOverride

\* A command that waits for what it cancelled is run inline, or is a /new in its task.
AwaitInv == \A m \in Msgs : st[m] \in {"await", "gather"} => runCmd = m \/ Role(m) = "new"

\* While an inline command waits for what it cancelled, no task of its key is listed.
DelistedInv == \A m \in Msgs : runCmd = m /\ st[m] \in {"await", "gather"} => active[CancelKey(m)] = {}

\* Only a message that asks for one has a turn, and only a dispatch task waits at the gate.
RunInv ==
    \A d \in Msgs : /\ st[d] = "gate" => IsTask(d)
                    /\ st[d] \in {"run", "subwait"} => Role(d) \in {"text", "sub", "direct"}

\* What runs for the session while /stop waits for its subagents, a direct call has spawned.
GatherInv ==
    \A m, b \in Msgs :
        Kind[m] = "stop" /\ st[m] = "gather" /\ st[b] = "subrun" /\ Override[b] = ChatKey[m]
        => DirectTurn(ChatKey[m])

\* A dispatch task of a message is listed under its key until it is over, or cancelled.
ListedInv ==
    \A t \in Msgs :
        /\ Role(t) \in {"text", "sub"}
        /\ st[t] \in {"created", "lock", "gate"} \cup Turning
        => t \in active[EffectiveKey(t)] \/ t \in cancelled

\* A running subagent carries the key of the session that spawned it.
SpawnedInv == \A b \in Msgs : st[b] = "subrun" => Override[b] # None

StopInv == AwaitInv /\ DelistedInv /\ ListedInv /\ SpawnedInv /\ RunInv /\ GatherInv

\* Only RouteToTask lists a task, and only BeginCancel delists one that goes on.
LEMMA ActiveStep ==
  ASSUME [Next]_vars,
         \A m \in Msgs : ~RouteToTask(m) /\ ~RouteCancel(m) /\ ~BeginTurn(m)
  PROVE  /\ UNCHANGED cancelled
         /\ \/ UNCHANGED active
            \/ \E m \in Msgs : /\ active' = [active EXCEPT ![EffectiveKey(m)] = @ \ {m}]
                               /\ \E f \in Over : EndTask(m, f)
<1>1. ASSUME NEW m \in Msgs, Progress(m), ~Cancelled(m)
      PROVE  UNCHANGED <<active, cancelled>>
  BY <1>1 DEF Progress, Route, RouteInline, RouteToQueue, FinishCancel, TasksOver, CancelSubs, Regenerate, StartTask, GotLock,
     WakeForSub, TakeInjections, SubTimeout, DirectBegin, Announce, taskVars
<1>2. ASSUME NEW m \in Msgs, Cancelled(m) \/ EndTurn(m)
      PROVE  /\ UNCHANGED cancelled
             /\ active' = [active EXCEPT ![EffectiveKey(m)] = @ \ {m}]
             /\ \E f \in Over : EndTask(m, f)
  <2>1. \E f \in Over : EndTask(m, f)
    BY <1>2 DEF Cancelled, EndTurn, Over
  <2> QED BY <2>1 DEF EndTask
<1>3. ASSUME NEW m \in Msgs, Publish(m) \/ Drain(m) \/ WaitForSub(m) \/ DirectCall(m)
             \/ DirectEnd(m) \/ \E b \in Msgs : Spawn(m, b)
      PROVE  UNCHANGED <<active, cancelled>>
  BY <1>3 DEF Publish, Drain, TakeInjections, WaitForSub, DirectCall, DirectEnd, Spawn, taskVars
<1>4. ASSUME Idle \/ UNCHANGED vars PROVE UNCHANGED <<active, cancelled>>
  BY <1>4 DEF Idle, vars, taskVars
<1>5. ASSUME NEW m \in Msgs, Progress(m) \/ Publish(m) \/ Drain(m) \/ WaitForSub(m) \/ EndTurn(m)
             \/ DirectCall(m) \/ DirectEnd(m) \/ \E b \in Msgs : Spawn(m, b)
      PROVE  \/ UNCHANGED <<active, cancelled>>
             \/ Cancelled(m) \/ EndTurn(m)
  BY <1>1, <1>3, <1>5
<1> QED BY <1>2, <1>4, <1>5 DEF Next

\* run() takes up an inline command in RouteCancel, and lays it down when it is over.
LEMMA RunCmdStep ==
  ASSUME TypeOK, RegenInv, [Next]_vars, NEW n \in Msgs
  PROVE  /\ runCmd' = n => runCmd = n \/ RouteCancel(n)
         /\ runCmd = n /\ runCmd' # n => FinishCancel(n) \/ Regenerate(n)
<1> USE DispatchAssumption DEF TypeOK
<1>1. ASSUME NEW m \in Msgs, Route(m)
      PROVE  /\ runCmd' = n => runCmd = n \/ RouteCancel(n)
             /\ runCmd = n /\ runCmd' # n => FALSE
  BY <1>1 DEF Route, RouteCancel, RouteInline, RouteToQueue, RouteToTask, RunReady, runVars
<1>2. ASSUME NEW m \in Msgs, FinishCancel(m) \/ Regenerate(m)
      PROVE  /\ runCmd' = n => runCmd = n
             /\ runCmd = n /\ runCmd' # n => m = n
  BY SMTT(30), <1>2 DEF FinishCancel, TasksOver, CancelSubs, Regenerate, RegenInv
<1>3. ASSUME NEW m \in Msgs, Progress(m), ~Route(m), ~FinishCancel(m), ~Regenerate(m) PROVE UNCHANGED runCmd
  BY <1>3 DEF Progress, CancelSubs, StartTask, GotLock, BeginTurn, WakeForSub, TakeInjections, SubTimeout,
     Cancelled, EndTask, DirectBegin, Announce
<1>4. ASSUME NEW m \in Msgs, Publish(m) \/ Drain(m) \/ WaitForSub(m) \/ EndTurn(m) \/ DirectCall(m)
             \/ DirectEnd(m) \/ \E b \in Msgs : Spawn(m, b)
      PROVE  UNCHANGED runCmd
  BY <1>4 DEF Publish, Drain, TakeInjections, WaitForSub, EndTurn, EndTask, DirectCall, DirectEnd, Spawn
<1>5. ASSUME Idle \/ UNCHANGED vars PROVE UNCHANGED runCmd
  BY <1>5 DEF Idle, vars, runVars
<1> QED BY <1>1, <1>2, <1>3, <1>4, <1>5 DEF Next

\* A message starts to wait for tasks it cancelled in RouteCancel, or as /new in its task,
\* and for its subagents in CancelSubs.
LEMMA AwaitStep ==
  ASSUME TypeOK, PlaceInv, [Next]_vars, NEW n \in Msgs, st'[n] \in {"await", "gather"}, st'[n] # st[n],
         ~CancelSubs(n)
  PROVE  RouteCancel(n) \/ (BeginTurn(n) /\ Role(n) = "new")
<1> USE DEF TypeOK
<1>1. ASSUME NEW m \in Msgs, RouteCancel(m) PROVE m = n
  BY <1>1 DEF RouteCancel, BeginCancel
<1>2. ASSUME NEW m \in Msgs, BeginTurn(m) PROVE m = n /\ Role(n) = "new"
  BY <1>2 DEF BeginTurn, BeginCancel
<1>3. ASSUME NEW m \in Msgs, Progress(m), ~RouteCancel(m), ~BeginTurn(m), ~WakeForSub(m) PROVE FALSE
  BY <1>3 DEF Progress, Route, RouteInline, RouteToQueue, RouteToTask, FinishCancel, TasksOver, CancelSubs, Regenerate,
     SubsOf, StartTask, GotLock, SubTimeout, Cancelled, EndTask, DirectBegin, Announce
<1>4. ASSUME NEW m \in Msgs, Publish(m) \/ WaitForSub(m) \/ EndTurn(m) \/ DirectCall(m)
             \/ DirectEnd(m) \/ \E b \in Msgs : Spawn(m, b)
      PROVE  FALSE
  BY <1>4 DEF Publish, WaitForSub, EndTurn, EndTask, DirectCall, DirectEnd, Spawn
<1>5. ASSUME NEW m \in Msgs, WakeForSub(m) \/ Drain(m) PROVE FALSE
  BY <1>5, DrainStates DEF WakeForSub, Drain
<1>6. ASSUME Idle \/ UNCHANGED vars PROVE FALSE
  BY <1>6 DEF Idle, vars
<1> QED BY <1>1, <1>2, <1>3, <1>4, <1>5, <1>6 DEF Next

\* A message becomes a dispatch task in RouteToTask only.
LEMMA TaskStep ==
  ASSUME TypeOK, PlaceInv, CreatedInv, CommandInv, [Next]_vars, NEW t \in Msgs,
         Role(t)' \in {"text", "sub"}, st'[t] \in {"created", "lock", "gate"} \cup Turning,
         ~RouteToTask(t)
  PROVE  /\ st[t] \in {"created", "lock", "gate"} \cup Turning
         /\ Role(t) \in {"text", "sub"} /\ EffectiveKey(t)' = EffectiveKey(t)
<1> DEFINE Task == {"created", "lock", "gate"} \cup Turning
<1> USE DEF TypeOK
<1>1. ASSUME t \in rerun' \ rerun PROVE FALSE
  <2>1. PICK m \in Msgs : Regenerate(m) /\ m = t
    <3>1. ASSUME NEW m \in Msgs, Progress(m), ~Regenerate(m) PROVE UNCHANGED rerun
      BY <3>1 DEF Progress, Route, RouteCancel, RouteInline, RouteToQueue, RouteToTask, FinishCancel, TasksOver, CancelSubs,
         StartTask, GotLock, BeginTurn, WakeForSub, TakeInjections, SubTimeout, Cancelled, EndTask,
         DirectBegin, Announce, runVars
    <3>2. ASSUME NEW m \in Msgs, Publish(m) \/ Drain(m) \/ WaitForSub(m) \/ EndTurn(m) \/ DirectCall(m)
                 \/ DirectEnd(m) \/ \E b \in Msgs : Spawn(m, b)
          PROVE  UNCHANGED rerun
      BY <3>2 DEF Publish, Drain, TakeInjections, WaitForSub, EndTurn, EndTask, DirectCall, DirectEnd, Spawn
    <3>3. ASSUME Idle \/ UNCHANGED vars PROVE UNCHANGED rerun
      BY <3>3 DEF Idle, vars, runVars
    <3>4. ASSUME NEW m \in Msgs, Regenerate(m) PROVE rerun' = rerun \cup {m} \/ rerun' = rerun
      BY <3>4 DEF Regenerate
    <3> QED BY <1>1, <3>1, <3>2, <3>3, <3>4 DEF Next
  <2>2. st'[t] \in {"pending", "done"}
    BY <2>1 DEF Regenerate
  <2> QED BY <2>2 DEF Turning
<1>2. Role(t)' = Role(t) /\ EffectiveKey(t)' = EffectiveKey(t)
  BY <1>1, RerunStep, RoleSame
<1>3. Role(t) \in {"text", "sub"} /\ Kind[t] # "direct"
  BY <1>2 DEF CommandInv, Role
<1>4. ASSUME NEW m \in Msgs, Route(m) PROVE st[t] \in Task
  <2>1. m = t => st'[t] \in {"pending", "done"}
    BY <1>3, <1>4, HeadPending DEF Route, RouteCancel, RouteInline, RouteToQueue, RouteToTask, RunReady
  <2>2. m # t
    BY <2>1 DEF Turning
  <2> QED BY <1>4, <2>2 DEF Route, RouteCancel, BeginCancel, RouteInline, RouteToQueue, RouteToTask
<1>5. ASSUME NEW m \in Msgs, CancelSubs(m) \/ FinishCancel(m) \/ Regenerate(m) PROVE st[t] \in Task
  BY <1>5 DEF FinishCancel, TasksOver, CancelSubs, SubsOf, Regenerate, Turning
<1>6. ASSUME NEW m \in Msgs, StartTask(m) PROVE st[t] \in Task
  BY <1>6, HeadCreated DEF StartTask
<1>7. ASSUME NEW m \in Msgs, WakeForSub(m) \/ Drain(m) PROVE st[t] \in Task
  BY <1>7, DrainStates DEF WakeForSub, Drain, Running, Turning
<1>8. ASSUME NEW m \in Msgs, GotLock(m) \/ SubTimeout(m) \/ WaitForSub(m) \/ Announce(m) \/ Publish(m)
             \/ DirectBegin(m) \/ DirectCall(m) \/ DirectEnd(m)
      PROVE  st[t] \in Task
  BY <1>3, <1>8 DEF GotLock, SubTimeout, WaitForSub, Running, Announce, Publish, DirectBegin, DirectCall,
     DirectEnd, Turning
<1>9. ASSUME NEW m \in Msgs, BeginTurn(m) PROVE st[t] \in Task
  BY <1>9 DEF BeginTurn, BeginCancel
<1>10. ASSUME NEW m \in Msgs, Cancelled(m) \/ EndTurn(m) PROVE st[t] \in Task
  BY <1>10 DEF Cancelled, EndTurn, EndTask, Turning
<1>11. ASSUME NEW m \in Msgs, NEW b \in Msgs, Spawn(m, b) PROVE st[t] \in Task
  BY <1>11 DEF Spawn, Turning
<1>12. ASSUME Idle \/ UNCHANGED vars PROVE st[t] \in Task
  BY <1>12 DEF Idle, vars
<1> QED
  BY <1>2, <1>3, <1>4, <1>5, <1>6, <1>7, <1>8, <1>9, <1>10, <1>11, <1>12 DEF Next, Progress

\* Every step keeps StopInv.
LEMMA AwaitInvNext ==
  ASSUME TypeOK, PlaceInv, RegenInv, AwaitInv, [Next]_vars
  PROVE  AwaitInv'
<1> SUFFICES ASSUME NEW n \in Msgs, st'[n] \in {"await", "gather"} PROVE runCmd' = n \/ Role(n)' = "new"
  BY DEF AwaitInv
<1>1. CASE st[n] \in {"await", "gather"}
  <2>1. n \in rerun' <=> n \in rerun
    BY <1>1, RerunStep
  <2>2. CASE Role(n) = "new"
    BY <2>1, <2>2, RoleSame
  <2>3. CASE runCmd = n
    <3>1. ~FinishCancel(n) /\ ~Regenerate(n)
      BY <1>1 DEF TypeOK, FinishCancel, TasksOver, CancelSubs, Regenerate
    <3> QED BY <2>3, <3>1, RunCmdStep
  <2> QED BY <1>1, <2>2, <2>3 DEF AwaitInv
<1>2. CASE st[n] \notin {"await", "gather"}
  <2>1. CASE RouteCancel(n)
    BY <2>1 DEF RouteCancel
  <2>2. CASE BeginTurn(n) /\ Role(n) = "new"
    BY <2>2 DEF BeginTurn, Role
  <2>3. ~CancelSubs(n)
    BY <1>2 DEF CancelSubs, TasksOver
  <2> QED BY <1>2, <2>1, <2>2, <2>3, AwaitStep
<1> QED BY <1>1, <1>2

\* Only /stop and its kin empty a list of active turns, and hold the loop until those ended.
LEMMA DelistedInvNext ==
  ASSUME TypeOK, PlaceInv, CommandInv, RegenInv, DelistedInv, [Next]_vars
  PROVE  DelistedInv'
<1> SUFFICES ASSUME NEW n \in Msgs, runCmd' = n, st'[n] \in {"await", "gather"} PROVE active'[CancelKey(n)'] = {}
  BY DEF DelistedInv
<1> USE DEF TypeOK
<1>1. CancelKey(n) \in Keys /\ n # None
  BY KeyTypes, DispatchAssumption
<1>2. CASE RouteCancel(n)
  <2>1. active' = [active EXCEPT ![CancelKey(n)] = {}] /\ UNCHANGED rerun
    BY <1>2 DEF RouteCancel, BeginCancel
  <2>2. CancelKey(n)' = CancelKey(n)
    BY <2>1 DEF CancelKey, Role, EffectiveKey, SessionKey, KeyOverride
  <2> QED BY <1>1, <2>1, <2>2
<1>3. CASE ~RouteCancel(n)
  <2>1. runCmd = n
    BY <1>3, RunCmdStep
  <2>2. st[n] \in {"await", "gather"} /\ active[CancelKey(n)] = {}
    <3>1. ~BeginTurn(n)
      BY <2>1 DEF BeginTurn, CommandInv
    <3>2. CancelSubs(n) => st[n] = "await"
      BY DEF CancelSubs, TasksOver
    <3>3. st[n] \in {"await", "gather"}
      BY <1>3, <3>1, <3>2, AwaitStep
    <3> QED BY <2>1, <3>3 DEF DelistedInv
  <2>3. CancelKey(n)' = CancelKey(n)
    BY <2>2, RerunStep DEF CancelKey, Role, EffectiveKey, SessionKey, KeyOverride
  <2>4. \A m \in Msgs : ~RouteToTask(m) /\ ~RouteCancel(m)
    BY <1>1, <2>1 DEF RouteToTask, RouteCancel, RunReady
  <2>5. CASE \E m \in Msgs : BeginTurn(m)
    <3>1. active' = active \/ \E k \in Keys : active' = [active EXCEPT ![k] = {}]
      BY <2>5, KeyTypes DEF BeginTurn, BeginCancel
    <3> QED BY <1>1, <2>2, <2>3, <3>1
  <2>6. CASE \A m \in Msgs : ~BeginTurn(m)
    <3>1. active' = active \/ \E m \in Msgs : active' = [active EXCEPT ![EffectiveKey(m)] = @ \ {m}]
      BY <2>4, <2>6, ActiveStep
    <3> QED BY <1>1, <2>2, <2>3, <3>1
  <2> QED BY <2>5, <2>6
<1> QED BY <1>2, <1>3

\* A turn is listed when it is created, and leaves the list when it ends or is cancelled.
LEMMA ListedInvNext ==
  ASSUME TypeOK, PlaceInv, CreatedInv, CommandInv, ListedInv, [Next]_vars
  PROVE  ListedInv'
<1> SUFFICES ASSUME NEW t \in Msgs, Role(t)' \in {"text", "sub"},
                    st'[t] \in {"created", "lock", "gate"} \cup Turning
             PROVE  t \in active'[EffectiveKey(t)'] \/ t \in cancelled'
  BY DEF ListedInv
<1> USE DEF TypeOK
<1>1. EffectiveKey(t) \in Keys
  BY KeyTypes
<1>2. CASE RouteToTask(t)
  <2>1. active' = [active EXCEPT ![EffectiveKey(t)] = @ \cup {t}] /\ UNCHANGED rerun
    BY <1>2 DEF RouteToTask
  <2>2. EffectiveKey(t)' = EffectiveKey(t)
    BY <2>1, RoleSame
  <2> QED BY <1>1, <2>1, <2>2
<1>3. CASE ~RouteToTask(t)
  <2>1. /\ st[t] \in {"created", "lock", "gate"} \cup Turning
        /\ Role(t) \in {"text", "sub"} /\ EffectiveKey(t)' = EffectiveKey(t)
    BY <1>3, TaskStep
  <2>2. t \in active[EffectiveKey(t)] \/ t \in cancelled
    BY <2>1 DEF ListedInv
  <2>3. ASSUME NEW m \in Msgs, RouteToTask(m) PROVE t \in active'[EffectiveKey(t)] \/ t \in cancelled'
    <3>1. active' = [active EXCEPT ![EffectiveKey(m)] = @ \cup {m}] /\ UNCHANGED cancelled
      BY <2>3 DEF RouteToTask
    <3> QED BY <1>1, <2>2, <3>1
  <2>4. ASSUME NEW m \in Msgs, NEW k \in Keys, BeginCancel(m, k), m # t
        PROVE  t \in active'[EffectiveKey(t)] \/ t \in cancelled'
    BY <1>1, <2>2, <2>4 DEF BeginCancel
  <2>5. ASSUME NEW m \in Msgs, RouteCancel(m) PROVE t \in active'[EffectiveKey(t)] \/ t \in cancelled'
    <3>1. BeginCancel(m, CancelKey(m)) /\ Role(m) \in {"stop", "regen", "new"}
      BY <2>5 DEF RouteCancel
    <3> QED BY <2>1, <2>4, <3>1, KeyTypes
  <2>6. ASSUME NEW m \in Msgs, BeginTurn(m) PROVE t \in active'[EffectiveKey(t)] \/ t \in cancelled'
    <3>1. CASE Role(m) = "new"
      <4>1. BeginCancel(m, EffectiveKey(m))
        BY <2>6, <3>1 DEF BeginTurn
      <4> QED BY <2>1, <2>4, <3>1, <4>1, KeyTypes
    <3>2. CASE Role(m) # "new"
      BY <2>2, <2>6, <3>2 DEF BeginTurn
    <3> QED BY <3>1, <3>2
  <2>7. ASSUME \A m \in Msgs : ~RouteToTask(m) /\ ~RouteCancel(m) /\ ~BeginTurn(m)
        PROVE  t \in active'[EffectiveKey(t)] \/ t \in cancelled'
    <3>1. UNCHANGED cancelled
      BY <2>7, ActiveStep
    <3>2. CASE UNCHANGED active
      BY <2>2, <3>1, <3>2
    <3>3. ASSUME NEW m \in Msgs, active' = [active EXCEPT ![EffectiveKey(m)] = @ \ {m}],
                 NEW f \in Over, EndTask(m, f)
          PROVE  t \in active'[EffectiveKey(t)] \/ t \in cancelled'
      <4>1. st'[m] = f
        BY <3>3 DEF EndTask
      <4>2. m # t
        BY <4>1 DEF Over, Turning
      <4> QED BY <1>1, <2>2, <3>1, <3>3, <4>2
    <3> QED BY <2>7, <3>2, <3>3, ActiveStep
  <2>8. t \in active'[EffectiveKey(t)] \/ t \in cancelled'
    BY <2>3, <2>5, <2>6, <2>7
  <2> QED BY <2>1, <2>8
<1> QED BY <1>2, <1>3

\* A subagent begins to run where a turn spawns it.
LEMMA SpawnStep ==
  ASSUME TypeOK, PlaceInv, [Next]_vars, NEW b \in Msgs, st'[b] = "subrun", st[b] # "subrun"
  PROVE  \E d \in Msgs : Spawn(d, b)
<1> USE DEF TypeOK
<1>1. ASSUME NEW m \in Msgs, NEW c \in Msgs, Spawn(m, c) PROVE b = c
  BY <1>1 DEF Spawn
<1>2. ASSUME NEW m \in Msgs, Progress(m), ~WakeForSub(m), ~BeginTurn(m) PROVE FALSE
  BY <1>2 DEF Progress, Route, RouteCancel, BeginCancel, RouteInline, RouteToQueue, RouteToTask,
     FinishCancel, TasksOver, CancelSubs, SubsOf, Regenerate, StartTask, GotLock, SubTimeout, Cancelled,
     EndTask, DirectBegin, Announce
<1>3. ASSUME NEW m \in Msgs, BeginTurn(m) PROVE FALSE
  BY <1>3 DEF BeginTurn, BeginCancel
<1>4. ASSUME NEW m \in Msgs, WakeForSub(m) \/ Drain(m) PROVE FALSE
  BY <1>4, DrainStates DEF WakeForSub, Drain
<1>5. ASSUME NEW m \in Msgs, Publish(m) \/ WaitForSub(m) \/ EndTurn(m) \/ DirectCall(m) \/ DirectEnd(m)
      PROVE  FALSE
  BY <1>5 DEF Publish, WaitForSub, EndTurn, EndTask, DirectCall, DirectEnd
<1>6. ASSUME Idle \/ UNCHANGED vars PROVE FALSE
  BY <1>6 DEF Idle, vars
<1> QED BY <1>1, <1>2, <1>3, <1>4, <1>5, <1>6 DEF Next

\* Only a turn whose message has an override becomes a run of its own.
LEMMA SpawnedInvNext ==
  ASSUME TypeOK, PlaceInv, SpawnedInv, [Next]_vars
  PROVE  SpawnedInv'
<1> SUFFICES ASSUME NEW b \in Msgs, st'[b] = "subrun", st[b] # "subrun" PROVE Override[b] # None
  BY DEF SpawnedInv
<1>1. PICK d \in Msgs : Spawn(d, b)
  BY SpawnStep
<1>2. StoreKey(d) \in Keys
  BY KeyTypes, DispatchAssumption DEF StoreKey
<1> QED BY <1>1, <1>2, DispatchAssumption DEF Spawn

\* A turn begins past the gate, and the gate is for dispatch tasks.
LEMMA RunInvNext ==
  ASSUME TypeOK, PlaceInv, CreatedInv, RunInv, [Next]_vars
  PROVE  RunInv'
<1> USE DEF TypeOK
<1>1. SUFFICES ASSUME NEW d \in Msgs
               PROVE  /\ st'[d] = "gate" => IsTask(d)
                      /\ st'[d] \in {"run", "subwait"} => Role(d) \in {"text", "sub", "direct"}
  <2>1. \A n \in Msgs : IsTask(n) => IsTask(n)'
    BY RerunStep, RoleSame DEF IsTask
  <2>2. \A n \in Msgs : Role(n) \in {"text", "sub", "direct"} => Role(n)' \in {"text", "sub", "direct"}
    BY RerunStep DEF Role
  <2> QED BY <1>1, <2>1, <2>2 DEF RunInv
<1> DEFINE Kept == /\ st'[d] = "gate" => IsTask(d)
                   /\ st'[d] \in {"run", "subwait"} => Role(d) \in {"text", "sub", "direct"}
<1>2. ASSUME st'[d] \notin {"gate", "run", "subwait"} \/ st'[d] = st[d] PROVE Kept
  BY <1>2 DEF RunInv
<1>3. ASSUME NEW m \in Msgs, Route(m) \/ CancelSubs(m) \/ FinishCancel(m) \/ Regenerate(m) \/ StartTask(m)
             \/ Cancelled(m) \/ EndTurn(m) \/ Announce(m) \/ Publish(m) \/ DirectCall(m) \/ DirectEnd(m)
             \/ \E b \in Msgs : Spawn(m, b)
      PROVE  Kept
  BY <1>2, <1>3 DEF Route, RouteCancel, BeginCancel, RouteInline, RouteToQueue, RouteToTask, CancelSubs,
     FinishCancel, Regenerate, StartTask, Cancelled, EndTurn, EndTask, Announce, Publish, DirectCall,
     DirectEnd, Spawn
<1>4. ASSUME NEW m \in Msgs, GotLock(m) PROVE Kept
  BY <1>2, <1>4 DEF GotLock
<1>5. ASSUME NEW m \in Msgs, BeginTurn(m) PROVE Kept
  <2>1. m # d => st'[d] = st[d]
    BY <1>5 DEF BeginTurn, BeginCancel
  <2>2. m = d /\ st'[d] \in {"gate", "run", "subwait"} => st'[d] = "run" /\ IsTask(d) /\ Role(d) \notin {"cmd", "new"}
    BY <1>5 DEF BeginTurn, BeginCancel, RunInv
  <2> QED BY <1>2, <2>1, <2>2 DEF IsTask
<1>6. ASSUME NEW m \in Msgs, WakeForSub(m) \/ Drain(m) PROVE Kept
  <2>1. TakeInjections(m) /\ st[m] \in {"run", "subwait"}
    BY <1>6 DEF WakeForSub, Drain, Running
  <2>2. d # m => st'[d] = st[d] \/ st'[d] = "injected"
    BY <2>1, DrainStates
  <2>3. d = m => st'[d] = "run"
    BY <2>1, DrainStates
  <2> QED BY <1>2, <2>1, <2>2, <2>3 DEF RunInv
<1>7. ASSUME NEW m \in Msgs, SubTimeout(m) \/ WaitForSub(m) \/ DirectBegin(m) PROVE Kept
  <2>1. m # d => st'[d] = st[d]
    BY <1>7 DEF SubTimeout, WaitForSub, DirectBegin
  <2>2. m = d => st'[d] # "gate" /\ Role(d) \in {"text", "sub", "direct"}
    BY <1>7 DEF SubTimeout, WaitForSub, Running, DirectBegin, RunInv, Role
  <2> QED BY <1>2, <2>1, <2>2
<1>8. ASSUME Idle \/ UNCHANGED vars PROVE Kept
  BY <1>2, <1>8 DEF Idle, vars
<1> QED BY <1>3, <1>4, <1>5, <1>6, <1>7, <1>8 DEF Next, Progress

\* A direct call that has had its turn has had it for good.
LEMMA DirectTurnNext ==
  ASSUME SessionPerChat, TypeOK, PlaceInv, CreatedInv, CommandInv, [Next]_vars, NEW k \in Keys, DirectTurn(k)
  PROVE  DirectTurn(k)'
<1> USE DEF TypeOK
<1>1. PICK d \in Msgs : Kind[d] = "direct" /\ EffectiveKey(d) = k /\ st[d] \notin {"fresh", "lock"}
  BY DEF DirectTurn
<1>2. EffectiveKey(d)' = k
  BY <1>1, DispatchAssumption DEF EffectiveKey, SessionKey, KeyOverride, SessionPerChat
<1>3. Role(d) = "direct"
  BY <1>1 DEF Role, CommandInv
<1> DEFINE Had == st'[d] \notin {"fresh", "lock"}
<1>4. ASSUME NEW m \in Msgs, Route(m) \/ CancelSubs(m) \/ FinishCancel(m) \/ Regenerate(m)
             \/ Cancelled(m) \/ EndTurn(m) \/ Announce(m) \/ Publish(m) \/ DirectCall(m) \/ DirectEnd(m)
             \/ \E b \in Msgs : Spawn(m, b)
      PROVE  Had
  BY <1>1, <1>3, <1>4 DEF Route, RouteCancel, BeginCancel, RouteInline, RouteToQueue, RouteToTask, CancelSubs,
     FinishCancel, Regenerate, Cancelled, EndTurn, EndTask, Announce, Publish, DirectCall,
     DirectEnd, Spawn, Over
<1>5. ASSUME NEW m \in Msgs, StartTask(m) PROVE Had
  <2>1. m # d
    BY <1>3, <1>5, HeadCreated DEF StartTask, IsTask
  <2> QED BY <1>1, <1>5, <2>1 DEF StartTask
<1>6. ASSUME NEW m \in Msgs, GotLock(m) \/ BeginTurn(m) \/ SubTimeout(m) \/ WaitForSub(m) \/ DirectBegin(m)
      PROVE  Had
  BY <1>1, <1>6 DEF GotLock, BeginTurn, BeginCancel, SubTimeout, WaitForSub, DirectBegin
<1>7. ASSUME NEW m \in Msgs, WakeForSub(m) \/ Drain(m) PROVE Had
  BY <1>1, <1>7, DrainStates DEF WakeForSub, Drain
<1>8. ASSUME Idle \/ UNCHANGED vars PROVE Had
  BY <1>1, <1>8 DEF Idle, vars
<1>9. Had
  BY <1>4, <1>5, <1>6, <1>7, <1>8 DEF Next, Progress
<1> QED BY <1>1, <1>2, <1>9 DEF DirectTurn

\* While /stop waits for the session's subagents, only a direct call is left to spawn one.
LEMMA GatherInvNext ==
  ASSUME SessionPerChat, TypeOK, QueueInv, RegenInv, StopInv, [Next]_vars
  PROVE  GatherInv'
<1> USE DEF TypeOK
<1>1. SUFFICES ASSUME NEW m \in Msgs, NEW b \in Msgs, Kind[m] = "stop", st'[m] = "gather",
                      st'[b] = "subrun", Override[b] = ChatKey[m]
               PROVE  DirectTurn(ChatKey[m])'
  BY DEF GatherInv
<1>2. ChatKey[m] \in Keys /\ CancelKey(m) = ChatKey[m] /\ Role(m) = "stop"
  BY <1>1, KeyIsChat, DispatchAssumption DEF CancelKey, Role, QueueInv, CommandInv
<1>3. CASE CancelSubs(m)
  <2>1. b # m
    BY <1>1
  <2>2. st[b] = "subrun" /\ b \notin SubsOf(m)
    BY <1>1, <1>3, <2>1 DEF CancelSubs
  <2> QED BY <1>1, <1>2, <2>2 DEF SubsOf
<1>4. CASE ~CancelSubs(m)
  <2>1. st[m] = "gather"
    <3>1. ~RouteCancel(m) /\ ~(BeginTurn(m) /\ Role(m) = "new")
      BY <1>1, <1>2 DEF RouteCancel, BeginCancel
    <3> QED BY <1>1, <1>4, <3>1, AwaitStep DEF QueueInv
  <2>2. CASE st[b] = "subrun"
    <3>1. DirectTurn(ChatKey[m])
      BY <1>1, <2>1, <2>2 DEF StopInv, GatherInv
    <3> QED BY <1>2, <3>1, DirectTurnNext DEF QueueInv
  <2>3. CASE st[b] # "subrun"
    <3>1. PICK d \in Msgs : Spawn(d, b)
      BY <1>1, <2>3, SpawnStep DEF QueueInv
    <3>2. Override[b] = StoreKey(d) /\ st[d] = "run" /\ d \notin cancelled
      BY <3>1 DEF Spawn, Running
    <3>3. EffectiveKey(d) = ChatKey[d] /\ ChatKey[d] = ChatKey[m]
      BY <1>1, <3>2, KeyIsChat DEF StoreKey
    <3>4. runCmd = m
      BY <1>2, <2>1 DEF StopInv, AwaitInv
    <3>5. active[EffectiveKey(d)] = {}
      BY <1>2, <2>1, <3>3, <3>4 DEF StopInv, DelistedInv
    <3>6. Role(d) = "direct"
      <4>1. Role(d) \notin {"text", "sub"}
        BY <3>2, <3>5 DEF StopInv, ListedInv, Turning
      <4>2. Role(d) \in {"text", "sub", "direct"}
        BY <3>2 DEF StopInv, RunInv
      <4> QED BY <4>1, <4>2
    <3>7. DirectTurn(ChatKey[m])
      BY <3>2, <3>3, <3>6 DEF DirectTurn, Role
    <3> QED BY <1>2, <3>7, DirectTurnNext DEF QueueInv
  <2> QED BY <2>2, <2>3
<1> QED BY <1>3, <1>4

\* What /stop has reached when it has cancelled and when it answers.
LEMMA StopStep ==
  ASSUME SessionPerChat, TypeOK, QueueInv, RegenInv, StopInv, [Next]_vars,
         NEW m \in Msgs, NEW t \in Msgs, Kind[m] = "stop", st[m] \in {"await", "gather"}, st'[m] # st[m],
         Role(t) \in {"text", "sub"}, EffectiveKey(t) = EffectiveKey(m)
  PROVE  \/ t \in cancelled \/ st'[t] \in {"fresh", "pending"} \cup Over
         \/ st[m] = "gather" /\ st'[t] = "subrun" /\ DirectTurn(EffectiveKey(m))
<1> USE DEF TypeOK
<1> DEFINE Stays == st'[m] = st[m]
<1>1. CancelSubs(m) \/ FinishCancel(m)
  <2>1. ASSUME NEW n \in Msgs, Progress(n), ~FinishCancel(n), ~CancelSubs(n), ~WakeForSub(n), ~BeginTurn(n),
               ~Route(n)
        PROVE  Stays
    <3>1. ASSUME StartTask(n) PROVE Stays
      <4>1. n # m
        BY <3>1, HeadCreated DEF StartTask, QueueInv
      <4> QED BY <3>1, <4>1 DEF StartTask
    <3> QED BY <2>1, <3>1 DEF Progress, Regenerate, GotLock, SubTimeout, Cancelled, EndTask, DirectBegin, Announce
  <2>2. ASSUME NEW n \in Msgs, Route(n) PROVE Stays
    <3>1. n # m
      BY <2>2, HeadPending DEF Route, RouteCancel, RouteInline, RouteToQueue, RouteToTask, RunReady, QueueInv
    <3> QED BY <2>2, <3>1 DEF Route, RouteCancel, BeginCancel, RouteInline, RouteToQueue, RouteToTask
  <2>3. ASSUME NEW n \in Msgs, BeginTurn(n) PROVE Stays
    BY <2>3 DEF BeginTurn, BeginCancel
  <2>4. ASSUME NEW n \in Msgs, WakeForSub(n) \/ Drain(n) PROVE Stays
    BY <2>4, DrainStates DEF WakeForSub, Drain, Running, QueueInv
  <2>5. ASSUME NEW n \in Msgs, Publish(n) \/ WaitForSub(n) \/ EndTurn(n) \/ DirectCall(n) \/ DirectEnd(n)
                               \/ \E b \in Msgs : Spawn(n, b)
        PROVE  Stays
    BY <2>5 DEF Publish, WaitForSub, Running, EndTurn, EndTask, DirectCall, DirectEnd, Spawn
  <2>6. ASSUME Idle \/ UNCHANGED vars PROVE Stays
    BY <2>6 DEF Idle, vars
  <2>7. ASSUME NEW n \in Msgs, CancelSubs(n) \/ FinishCancel(n), n # m PROVE Stays
    BY <2>7 DEF FinishCancel, TasksOver, CancelSubs, SubsOf
  <2> QED BY <2>1, <2>2, <2>3, <2>4, <2>5, <2>6, <2>7 DEF Next
<1>2. Role(m) = "stop" /\ runCmd = m
  BY DEF StopInv, AwaitInv, QueueInv, CommandInv, Role
<1>3. EffectiveKey(t) = CancelKey(m) /\ active[CancelKey(m)] = {}
  BY <1>2, KeyIsChat DEF CancelKey, StopInv, DelistedInv
<1>4. CASE st[t] \in {"created", "lock", "gate"} \cup Turning
  BY <1>3, <1>4 DEF StopInv, ListedInv
<1>5. CASE st[t] = "subrun"
  <2>1. Override[t] = CancelKey(m) /\ t # m
    BY <1>3, <1>5, KeyIsChat DEF StopInv, SpawnedInv, SessionPerChat
  <2>2. t \in SubsOf(m)
    BY <1>5, <2>1 DEF SubsOf
  <2>3. CASE CancelSubs(m)
    BY <2>1, <2>2, <2>3 DEF CancelSubs, Over
  <2>4. CASE FinishCancel(m)
    <3>1. st[m] = "gather" /\ st'[t] = "subrun"
      BY <1>5, <2>1, <2>2, <2>4 DEF FinishCancel
    <3>2. EffectiveKey(m) = ChatKey[m] /\ CancelKey(m) = ChatKey[m]
      BY <1>2, KeyIsChat DEF CancelKey
    <3>3. DirectTurn(ChatKey[m])
      BY <1>5, <2>1, <3>1, <3>2 DEF StopInv, GatherInv
    <3> QED BY <3>1, <3>2, <3>3
  <2> QED BY <1>1, <2>3, <2>4
<1>6. CASE st[t] \in {"fresh", "pending"} \cup Over
  <2>1. t # m
    BY <1>6 DEF Over
  <2>2. t \notin SubsOf(m)
    BY <1>6 DEF SubsOf, Over
  <2> QED BY <1>1, <1>6, <2>1, <2>2 DEF FinishCancel, CancelSubs
<1> QED BY <1>4, <1>5, <1>6 DEF States

\* When /stop has cancelled, and when it answers, no turn or waiting task of the sender's session
\* is left without a cancellation underway, and none of its subagents runs but one that a direct
\* call may have spawned while /stop waited for the others, where a session is one chat
\* (_cancel_active_tasks, cancel_by_session and cmd_stop).
THEOREM StopReachesAll == SessionPerChat => (Spec => StopReaches)
<1> SUFFICES ASSUME SessionPerChat PROVE Spec => StopReaches
  OBVIOUS
<1>1. Init => StopInv
  BY DispatchAssumption DEF Init, StopInv, AwaitInv, DelistedInv, ListedInv, SpawnedInv, RunInv, GatherInv, Turning
<1>2. TypeOK /\ QueueInv /\ RegenInv /\ StopInv /\ [Next]_vars => StopInv'
  BY AwaitInvNext, DelistedInvNext, ListedInvNext, SpawnedInvNext, RunInvNext, GatherInvNext DEF StopInv, QueueInv
<1>3. TypeOK /\ QueueInv /\ RegenInv /\ StopInv /\ [Next]_vars
        => [\A m, t \in Msgs :
              /\ Kind[m] = "stop" /\ st[m] \in {"await", "gather"} /\ st'[m] # st[m]
              /\ Role(t) \in {"text", "sub"} /\ EffectiveKey(t) = EffectiveKey(m)
              => \/ t \in cancelled \/ st'[t] \in {"fresh", "pending"} \cup Over
                 \/ st[m] = "gather" /\ st'[t] = "subrun" /\ DirectTurn(EffectiveKey(m))]_vars
  BY StopStep
<1> QED BY <1>1, <1>2, <1>3, QueueInvariant, TypeCorrect, LockHeld, PTL DEF Spec, StopReaches

----------------------------------------------------------------------------
(* The queues, locks and tasks of TurnDispatch implement SerialTurns, for any number of *)
(* messages, chats and places in the queues and the gate: what that needs beyond         *)
(* DispatchSound.                                                                        *)

\* The gate admits at most GateSize tasks, and every turn from the bus is one of them.
GateInv ==
    /\ IsFiniteSet(gateHeld) /\ Cardinality(gateHeld) <= GateSize
    /\ \A m \in Msgs : InTurn(m) /\ Kind[m] # "direct" => m \in gateHeld

\* A turn that waits for its subagents came from the bus: a direct call has no queue.
SubwaitInv == \A m \in Msgs : st[m] = "subwait" => Kind[m] # "direct"

\* The queue of a task holds messages of its own chat.
ChatQueueInv ==
    \A q \in Msgs : \A i \in 1..Len(pend[q]) : ChatKey[pend[q][i]] = ChatKey[q]

RefineInv == GateInv /\ SubwaitInv /\ ChatQueueInv

----------------------------------------------------------------------------
\* Whoever asks for the gate or leaves it, at most GateSize tasks hold it, and nobody else
\* loses it.
LEMMA GateCount ==
  ASSUME TypeOK, IsFiniteSet(gateHeld), Cardinality(gateHeld) <= GateSize, NEW m \in Msgs,
         RequestGate(m) \/ LeaveGate(m)
  PROVE  /\ IsFiniteSet(gateHeld') /\ Cardinality(gateHeld') <= GateSize
         /\ gateHeld \ {m} \subseteq gateHeld'
<1>1. GateSize \in Nat /\ Cardinality(gateHeld) \in Nat
  BY DispatchAssumption, FS_CardinalityType
<1>2. CASE RequestGate(m)
  <2>1. CASE Cardinality(gateHeld) < GateSize
    <3>1. gateHeld' = gateHeld \cup {m}
      BY <1>2, <2>1 DEF RequestGate
    <3> QED BY <1>1, <2>1, <3>1, FS_AddElement
  <2>2. CASE ~(Cardinality(gateHeld) < GateSize)
    BY <1>2, <2>2 DEF RequestGate
  <2> QED BY <2>1, <2>2
<1>3. CASE LeaveGate(m)
  <2>1. CASE m \in gateHeld
    <3>1. /\ IsFiniteSet(gateHeld \ {m}) /\ Cardinality(gateHeld \ {m}) = Cardinality(gateHeld) - 1
      BY <2>1, FS_RemoveElement
    <3>2. CASE gateHeld' = gateHeld \ {m}
      BY <1>1, <3>1, <3>2
    <3>3. CASE gateHeld' = (gateHeld \ {m}) \cup {Head(gateWait)}
      <4>1. /\ IsFiniteSet(gateHeld')
            /\ \/ Cardinality(gateHeld') = Cardinality(gateHeld \ {m})
               \/ Cardinality(gateHeld') = Cardinality(gateHeld \ {m}) + 1
        BY <3>1, <3>3, FS_AddElement
      <4> QED BY <1>1, <3>1, <3>3, <4>1
    <3> QED BY <1>3, <2>1, <3>2, <3>3 DEF LeaveGate
  <2>2. CASE m \notin gateHeld
    BY <1>3, <2>2 DEF LeaveGate
  <2> QED BY <2>1, <2>2
<1> QED BY <1>2, <1>3

\* Every step keeps GateInv.
LEMMA GateInvNext ==
  ASSUME TypeOK, PlaceInv, CreatedInv, CommandInv, RegenInv, GateInv, [Next]_vars
  PROVE  GateInv'
<1> USE DEF TypeOK
<1> DEFINE Bus(n) == InTurn(n) /\ Kind[n] # "direct"
<1>1. ASSUME UNCHANGED gateHeld, \A n \in Msgs : Bus(n)' => Bus(n) \/ n \in gateHeld
      PROVE  GateInv'
  BY <1>1 DEF GateInv
<1>2. ASSUME NEW m \in Msgs, RequestGate(m) \/ LeaveGate(m),
             \A n \in Msgs : Bus(n)' => n # m /\ Bus(n)
      PROVE  GateInv'
  BY <1>2, GateCount DEF GateInv
<1>3. CASE UNCHANGED vars
  BY <1>1, <1>3 DEF vars, gateVars, runVars, InTurn
<1>4. ASSUME NEW m \in Msgs, Route(m) PROVE GateInv'
  <2>1. runCmd = None /\ UNCHANGED gateHeld
    BY <1>4 DEF Route, RouteCancel, RouteInline, RouteToQueue, RouteToTask, RunReady, gateVars
  <2>2. \A n \in Msgs : n # m => (st'[n] = st[n])
    BY <1>4 DEF Route, RouteCancel, BeginCancel, RouteInline, RouteToQueue, RouteToTask
  <2>3. ~InTurn(m)'
    <3>1. CASE RouteCancel(m)
      BY <3>1 DEF RouteCancel, InTurn
    <3>2. CASE ~RouteCancel(m)
      <4>1. st[m] = "pending"
        BY <1>4, <3>2, HeadPending DEF Route, RouteInline, RouteToQueue, RouteToTask, RunReady
      <4> QED BY <1>4, <3>2, <4>1 DEF Route, RouteInline, RouteToQueue, RouteToTask, InTurn, Turning
    <3> QED BY <3>1, <3>2
  <2>4. \A n \in Msgs : InTurn(n)' => InTurn(n)
    BY <2>1, <2>2, <2>3, DispatchAssumption DEF InTurn
  <2> QED BY <1>1, <2>1, <2>4
<1>5. ASSUME NEW m \in Msgs, FinishCancel(m) PROVE GateInv'
  <2>1. UNCHANGED gateHeld
    BY <1>5 DEF FinishCancel, TasksOver, CancelSubs, gateVars
  <2>2. \A n \in Msgs : n # m => st'[n] = st[n] \/ st'[n] = "dropped"
    BY <1>5 DEF FinishCancel, TasksOver, CancelSubs
  <2>3. runCmd' = runCmd \/ (runCmd = m /\ st'[m] = "done")
    BY <1>5 DEF FinishCancel, TasksOver, CancelSubs
  <2>4. st'[m] = "closing" => runCmd # m /\ st[m] \in {"await", "gather"}
    BY <1>5 DEF FinishCancel, TasksOver
  <2>5. st'[m] \in {"lock", "closing", "done"}
    BY <1>5 DEF FinishCancel, TasksOver, CancelSubs
  <2>6. \A n \in Msgs : InTurn(n)' => InTurn(n)
    BY <2>2, <2>3, <2>4, <2>5 DEF InTurn, Turning
  <2> QED BY <1>1, <2>1, <2>6
<1>14. ASSUME NEW m \in Msgs, CancelSubs(m) PROVE GateInv'
  <2>1. UNCHANGED <<gateHeld, runCmd>> /\ st[m] = "await" /\ st'[m] = "gather"
    BY <1>14 DEF CancelSubs, TasksOver, gateVars
  <2>2. \A n \in Msgs : n # m => st'[n] = st[n] \/ st'[n] = "dropped"
    BY <1>14 DEF CancelSubs
  <2>3. \A n \in Msgs : InTurn(n)' => InTurn(n)
    BY <2>1, <2>2 DEF InTurn, Turning
  <2> QED BY <1>1, <2>1, <2>3
<1>6. ASSUME NEW m \in Msgs, Regenerate(m) PROVE GateInv'
  <2>1. /\ UNCHANGED gateHeld /\ st'[m] \in {"pending", "done"} /\ runCmd = m
        /\ \A n \in Msgs : n # m => st'[n] = st[n]
    BY <1>6 DEF Regenerate, RegenInv, gateVars
  <2>2. \A n \in Msgs : InTurn(n)' => InTurn(n)
    BY <2>1 DEF InTurn, Turning
  <2> QED BY <1>1, <2>1, <2>2
<1>7. ASSUME NEW m \in Msgs, GotLock(m) PROVE GateInv'
  <2>1. RequestGate(m) /\ \A n \in Msgs : InTurn(n)' => n # m /\ InTurn(n)
    BY <1>7 DEF GotLock, InTurn, Turning
  <2> QED BY <1>2, <2>1
<1>8. ASSUME NEW m \in Msgs, Cancelled(m) \/ EndTurn(m) PROVE GateInv'
  <2>1. LeaveGate(m) /\ \A n \in Msgs : InTurn(n)' => n # m /\ InTurn(n)
    BY <1>8 DEF Cancelled, EndTurn, EndTask, InTurn, Turning
  <2> QED BY <1>2, <2>1
<1>9. ASSUME NEW m \in Msgs, BeginTurn(m) PROVE GateInv'
  BY <1>1, <1>9 DEF BeginTurn, BeginCancel, gateVars, InTurn
<1>10. ASSUME NEW m \in Msgs, WakeForSub(m) \/ Drain(m) PROVE GateInv'
  <2>1. st[m] \in {"run", "subwait"} /\ TakeInjections(m) /\ UNCHANGED <<gateHeld, runCmd>>
    BY <1>10 DEF WakeForSub, Drain, Running, TakeInjections, gateVars
  <2>2. \A n \in Msgs : InTurn(n)' => InTurn(n)
    BY <2>1, DrainStates DEF InTurn, Turning
  <2> QED BY <1>1, <2>1, <2>2
<1>11. ASSUME NEW m \in Msgs, StartTask(m) \/ SubTimeout(m) \/ WaitForSub(m) \/ Announce(m)
              \/ Publish(m) \/ DirectBegin(m) \/ DirectCall(m) \/ DirectEnd(m)
       PROVE  GateInv'
  <2>1. /\ UNCHANGED <<gateHeld, runCmd>>
        /\ \A n \in Msgs : n # m => st'[n] = st[n]
        /\ st'[m] \in Turning => st[m] \in Turning \/ Kind[m] = "direct"
    BY <1>11 DEF StartTask, SubTimeout, WaitForSub, Running, Announce, Publish, DirectBegin, DirectCall,
       DirectEnd, gateVars, Turning
  <2>2. \A n \in Msgs : Bus(n)' => Bus(n)
    BY <2>1 DEF InTurn
  <2> QED BY <1>1, <2>1, <2>2
<1>12. ASSUME NEW m \in Msgs, NEW b \in Msgs, Spawn(m, b) PROVE GateInv'
  BY <1>1, <1>12 DEF Spawn, gateVars, InTurn, Turning
<1>13. CASE Idle
  BY <1>3, <1>13 DEF Idle
<1> QED
  BY <1>3, <1>4, <1>5, <1>6, <1>7, <1>8, <1>9, <1>10, <1>11, <1>12, <1>13, <1>14 DEF Next, Progress

\* Only the turn of a message from the bus waits for subagents.
LEMMA SubwaitNext ==
  ASSUME TypeOK, PlaceInv, SubwaitInv, [Next]_vars
  PROVE  SubwaitInv'
<1> SUFFICES ASSUME NEW n \in Msgs, st'[n] = "subwait", Kind[n] = "direct" PROVE FALSE
  BY DEF SubwaitInv
<1> USE DEF TypeOK
<1>1. st[n] # "subwait"
  BY DEF SubwaitInv
<1>2. ASSUME NEW m \in Msgs, Progress(m), ~WakeForSub(m) PROVE st'[n] # "subwait"
  BY <1>1, <1>2 DEF Progress, Route, RouteCancel, BeginCancel, RouteInline, RouteToQueue, RouteToTask,
     FinishCancel, TasksOver, CancelSubs, Regenerate, StartTask, GotLock, BeginTurn, SubTimeout, Cancelled, EndTask,
     DirectBegin, Announce
<1>3. ASSUME NEW m \in Msgs, WakeForSub(m) \/ Drain(m) PROVE st'[n] # "subwait"
  BY <1>1, <1>3, DrainStates DEF WakeForSub, Drain
<1>4. ASSUME NEW m \in Msgs, Publish(m) \/ WaitForSub(m) \/ EndTurn(m) \/ DirectCall(m)
             \/ DirectEnd(m) \/ \E b \in Msgs : Spawn(m, b)
      PROVE  st'[n] # "subwait"
  BY <1>1, <1>4 DEF Publish, WaitForSub, EndTurn, EndTask, DirectCall, DirectEnd, Spawn
<1>5. ASSUME Idle \/ UNCHANGED vars PROVE st'[n] # "subwait"
  BY <1>1, <1>5 DEF Idle, vars
<1> QED BY <1>2, <1>3, <1>4, <1>5 DEF Next

\* Every step keeps the queue of a task to its own chat.
LEMMA ChatQueueNext ==
  ASSUME SessionPerChat, TypeOK, RegisteredAlive, ChatQueueInv, [Next]_vars
  PROVE  ChatQueueInv'
<1> USE DEF TypeOK
<1>1. ASSUME UNCHANGED pend PROVE ChatQueueInv'
  BY <1>1 DEF ChatQueueInv
<1>2. ASSUME NEW m \in Msgs, RouteToQueue(m) PROVE ChatQueueInv'
  <2> DEFINE q == reg[EffectiveKey(m)]
  <2>1. q \in Msgs /\ ChatKey[q] = ChatKey[m]
    <3>1. Registered(EffectiveKey(m)) /\ EffectiveKey(m) \in Keys
      BY <1>2, KeyTypes DEF RouteToQueue, HasRoom
    <3>2. q \in Msgs /\ EffectiveKey(q) = EffectiveKey(m)
      BY <3>1 DEF RegisteredAlive, Registered
    <3> QED BY <3>2, KeyIsChat
  <2>2. pend' = [pend EXCEPT ![q] = Append(@, m)]
    BY <1>2 DEF RouteToQueue
  <2> HIDE DEF q
  <2>3. /\ \A p \in Msgs \ {q} : pend'[p] = pend[p]
        /\ Len(pend[q]) \in Nat /\ Len(pend'[q]) = Len(pend[q]) + 1 /\ pend'[q][Len(pend[q]) + 1] = m
        /\ \A i \in 1..Len(pend[q]) : pend'[q][i] = pend[q][i]
    BY <2>1, <2>2
  <2>4. \A i \in 1..Len(pend'[q]) : ChatKey[pend'[q][i]] = ChatKey[q]
    <3> SUFFICES ASSUME NEW i \in 1..Len(pend'[q]) PROVE ChatKey[pend'[q][i]] = ChatKey[q]
      OBVIOUS
    <3>1. CASE i = Len(pend[q]) + 1
      BY <2>1, <2>3, <3>1
    <3>2. CASE i \in 1..Len(pend[q])
      <4>1. pend'[q][i] = pend[q][i] /\ ChatKey[pend[q][i]] = ChatKey[q]
        BY <2>1, <2>3, <3>2 DEF ChatQueueInv
      <4> QED BY <4>1
    <3> QED BY SMTT(30), <2>3, <3>1, <3>2
  <2>5. ASSUME NEW p \in Msgs, NEW i \in 1..Len(pend'[p]) PROVE ChatKey[pend'[p][i]] = ChatKey[p]
    <3>1. CASE p = q
      BY <2>4, <2>5, <3>1
    <3>2. CASE p # q
      <4>1. pend'[p] = pend[p]
        BY <2>3, <3>2
      <4> QED BY <2>5, <4>1 DEF ChatQueueInv
    <3> QED BY <3>1, <3>2
  <2> QED BY <2>5 DEF ChatQueueInv
<1>3. ASSUME NEW m \in Msgs, TakeInjections(m) PROVE ChatQueueInv'
  <2> DEFINE n == IF Len(pend[m]) < MaxInject THEN Len(pend[m]) ELSE MaxInject
  <2>1. n \in Nat /\ n <= Len(pend[m]) /\ Len(pend[m]) \in Nat
    <3>1. Len(pend[m]) \in Nat
      OBVIOUS
    <3> QED BY <3>1, DispatchAssumption
  <2>2. pend' = [pend EXCEPT ![m] = SubSeq(@, n + 1, Len(@))]
    BY <1>3 DEF TakeInjections
  <2> HIDE DEF n
  <2>3. /\ \A p \in Msgs \ {m} : pend'[p] = pend[p]
        /\ \A i \in 1..Len(pend'[m]) : n + i \in 1..Len(pend[m]) /\ pend'[m][i] = pend[m][n + i]
    BY <2>1, <2>2
  <2>4. ASSUME NEW p \in Msgs, NEW i \in 1..Len(pend'[p]) PROVE ChatKey[pend'[p][i]] = ChatKey[p]
    <3>1. CASE p = m
      <4>1. n + i \in 1..Len(pend[m]) /\ pend'[m][i] = pend[m][n + i]
        BY <2>3, <2>4, <3>1
      <4>2. ChatKey[pend[m][n + i]] = ChatKey[m]
        BY <4>1 DEF ChatQueueInv
      <4> QED BY <3>1, <4>1, <4>2
    <3>2. CASE p # m
      <4>1. pend'[p] = pend[p]
        BY <2>3, <3>2
      <4> QED BY <2>4, <4>1 DEF ChatQueueInv
    <3> QED BY <3>1, <3>2
  <2> QED BY <2>4 DEF ChatQueueInv
<1>4. ASSUME NEW m \in Msgs, Cancelled(m) \/ EndTurn(m) PROVE ChatQueueInv'
  <2>1. Republish(reg[EffectiveKey(m)])
    BY <1>4 DEF Cancelled, EndTurn, EndTask
  <2>2. \A q \in Msgs : pend'[q] = pend[q] \/ pend'[q] = <<>>
    BY <2>1 DEF Republish
  <2>3. ASSUME NEW q \in Msgs, NEW i \in 1..Len(pend'[q]) PROVE ChatKey[pend'[q][i]] = ChatKey[q]
    <3>1. pend'[q] = pend[q]
      BY <2>2, <2>3
    <3> QED BY <2>3, <3>1 DEF ChatQueueInv
  <2> QED BY <2>3 DEF ChatQueueInv
<1>5. ASSUME NEW m \in Msgs, Progress(m), ~RouteToQueue(m), ~WakeForSub(m), ~Cancelled(m)
      PROVE  UNCHANGED pend
  BY <1>5 DEF Progress, Route, RouteCancel, RouteInline, RouteToTask, FinishCancel, TasksOver, CancelSubs, Regenerate,
     StartTask, GotLock, BeginTurn, SubTimeout, DirectBegin, Announce, queueVars
<1>6. ASSUME NEW m \in Msgs, Publish(m) \/ WaitForSub(m) \/ DirectCall(m) \/ DirectEnd(m)
             \/ \E b \in Msgs : Spawn(m, b)
      PROVE  UNCHANGED pend
  BY <1>6 DEF Publish, WaitForSub, DirectCall, DirectEnd, Spawn, queueVars
<1>7. ASSUME Idle \/ UNCHANGED vars PROVE UNCHANGED pend
  BY <1>7 DEF Idle, vars, queueVars
<1> QED BY <1>1, <1>2, <1>3, <1>4, <1>5, <1>6, <1>7 DEF Next, WakeForSub, Drain

----------------------------------------------------------------------------
(* The fate of a message, and the steps of SerialTurns. *)

Fate == [m \in Msgs |-> FateOf(m)]

\* What FateOf says in each of its cases.
LEMMA FateCases ==
  ASSUME NEW m \in Msgs
  PROVE  /\ st[m] \in {"fresh", "subrun"} => FateOf(m) = "outside"
         /\ InTurn(m) => FateOf(m) = "active"
         /\ st[m] = "injected" => FateOf(m) = "joined"
         /\ st[m] \in {"done", "dropped"} => FateOf(m) = "closed"
         /\ st[m] \in {"pending", "created", "lock", "gate"} \/ (st[m] \in Turning /\ runCmd = m)
               => FateOf(m) = "waiting"
BY DEF FateOf, InTurn, Turning

\* The same of the next state.
LEMMA FateCasesNext ==
  ASSUME NEW m \in Msgs
  PROVE  /\ st'[m] \in {"fresh", "subrun"} => FateOf(m)' = "outside"
         /\ InTurn(m)' => FateOf(m)' = "active"
         /\ st'[m] = "injected" => FateOf(m)' = "joined"
         /\ st'[m] \in {"done", "dropped"} => FateOf(m)' = "closed"
         /\ st'[m] \in {"pending", "created", "lock", "gate"} \/ (st'[m] \in Turning /\ runCmd' = m)
               => FateOf(m)' = "waiting"
BY DEF FateOf, InTurn, Turning

\* Only the state of a message and the inline command decide its fate.
LEMMA FateSame ==
  ASSUME NEW m \in Msgs, st'[m] = st[m], runCmd' = m <=> runCmd = m
  PROVE  FateOf(m)' = FateOf(m)
BY DEF FateOf, InTurn

\* A step in which every message keeps its fate is a stuttering step.
LEMMA Stutters ==
  ASSUME \A n \in Msgs : FateOf(n)' = FateOf(n)
  PROVE  UNCHANGED Fate
BY DEF Fate

\* A step in which one message is accepted is Accept.
LEMMA Accepts ==
  ASSUME NEW m \in Msgs, FateOf(m) = "outside", FateOf(m)' = "waiting",
         \A n \in Msgs \ {m} : FateOf(n)' = FateOf(n)
  PROVE  Abstract!Next
<1>1. Abstract!Accept(m)
  BY DEF Abstract!Accept
<1> QED BY <1>1 DEF Abstract!Next

\* A step in which messages are closed is Close.
LEMMA Closes ==
  ASSUME NEW S \in SUBSET Msgs, S # {},
         \A n \in S : FateOf(n) \notin {"joined", "closed"} /\ FateOf(n)' = "closed",
         \A n \in Msgs \ S : FateOf(n)' = FateOf(n)
  PROVE  Abstract!Next
<1>1. Abstract!Close(S)
  BY DEF Abstract!Close
<1> QED BY <1>1 DEF Abstract!Next

\* A step in which messages join a turn of their own chat is Join.
LEMMA Joins ==
  ASSUME NEW t \in Msgs, FateOf(t) = "active", Kind[t] # "direct",
         NEW S \in SUBSET Msgs, S # {},
         \A n \in S : /\ FateOf(n) = "waiting" /\ FateOf(n)' = "joined"
                      /\ ChatKey[n] = ChatKey[t],
         \A n \in Msgs \ S : FateOf(n)' = FateOf(n)
  PROVE  Abstract!Next
<1>1. Abstract!Join(t, S)
  BY DEF Abstract!Join, Abstract!Active
<1> QED BY <1>1 DEF Abstract!Next

\* SerialTurns counts the way TurnDispatch does.
LEMMA SameCount ==
  ASSUME NEW S
  PROVE  Abstract!Cardinality(S) = Cardinality(S)
BY DEF Abstract!Cardinality, Cardinality

\* A step in which the holder of its chat's lock, and of the gate if it came from the bus,
\* starts a turn is Begin.
LEMMA Begins ==
  ASSUME SessionPerChat, LockInv, GateInv, NEW m \in Msgs, FateOf(m) = "waiting", FateOf(m)' = "active",
         ~InTurn(m), lockOwner[EffectiveKey(m)] = m, Kind[m] # "direct" => m \in gateHeld,
         \A n \in Msgs \ {m} : FateOf(n)' = FateOf(n)
  PROVE  Abstract!Next
<1>1. \A n \in Msgs : FateOf(n) = "active" => InTurn(n)
  BY DEF FateOf, InTurn
<1>2. \A n \in Abstract!Active : ChatKey[n] # ChatKey[m]
  <2> SUFFICES ASSUME NEW n \in Msgs, InTurn(n), ChatKey[n] = ChatKey[m] PROVE FALSE
    BY <1>1 DEF Abstract!Active
  <2>1. lockOwner[EffectiveKey(n)] = n
    BY DEF LockInv
  <2>2. EffectiveKey(n) = EffectiveKey(m)
    BY KeyIsChat
  <2> QED BY <2>1, <2>2
<1>3. m \in {n \in Msgs : Kind[n] # "direct"}
        => Cardinality(Abstract!Active \cap {n \in Msgs : Kind[n] # "direct"}) < GateSize
  <2> SUFFICES ASSUME Kind[m] # "direct"
               PROVE  Cardinality(Abstract!Active \cap {n \in Msgs : Kind[n] # "direct"}) < GateSize
    OBVIOUS
  <2> DEFINE A == Abstract!Active \cap {n \in Msgs : Kind[n] # "direct"}
  <2>1. A \subseteq gateHeld \ {m}
    BY <1>1 DEF Abstract!Active, GateInv
  <2>2. /\ IsFiniteSet(gateHeld \ {m}) /\ Cardinality(gateHeld \ {m}) = Cardinality(gateHeld) - 1
        /\ Cardinality(gateHeld) \in Nat /\ Cardinality(gateHeld) <= GateSize
    BY FS_RemoveElement, FS_CardinalityType DEF GateInv
  <2>3. IsFiniteSet(A) /\ Cardinality(A) <= Cardinality(gateHeld \ {m})
    BY <2>1, <2>2, FS_Subset
  <2>4. Cardinality(A) \in Nat
    BY <2>3, FS_CardinalityType
  <2> HIDE DEF A
  <2>5. Cardinality(A) < GateSize
    BY <2>2, <2>3, <2>4, DispatchAssumption
  <2> QED BY <2>5 DEF A
<1>4. [n \in Msgs |-> FateOf(n)]' = [[n \in Msgs |-> FateOf(n)] EXCEPT ![m] = "active"]
  OBVIOUS
<1>5. [n \in Msgs |-> FateOf(n)][m] = "waiting"
  OBVIOUS
<1>6. Abstract!Begin(m)
  BY <1>2, <1>3, <1>4, <1>5, SameCount DEF Abstract!Begin
<1> QED BY <1>6 DEF Abstract!Next

\* A dispatched message is waiting, or in a turn or a command, until its task is over.
LEMMA Involved ==
  ASSUME NEW m \in Msgs, st[m] \notin {"fresh", "subrun", "injected", "done", "dropped"}, st[m] \in States
  PROVE  FateOf(m) \in {"waiting", "active"}
BY DEF FateOf, States, Turning, Over

\* The step of one message changes its own state only.
LEMMA OnlyOne ==
  ASSUME NEW m \in Msgs, \A n \in Msgs : n # m => st'[n] = st[n],
         \A n \in Msgs : n # m => (runCmd' = n <=> runCmd = n)
  PROVE  \A n \in Msgs \ {m} : FateOf(n)' = FateOf(n)
BY FateSame

\* Every step of the queues, locks and tasks is a step of SerialTurns or none.
LEMMA RefinesNext ==
  ASSUME SessionPerChat, TypeOK, QueueInv, LockInv, RegenInv, RefineInv, [Next]_vars
  PROVE  Abstract!Next \/ UNCHANGED Fate
<1> USE DEF TypeOK
<1>1. \A n \in Msgs : n # None
  BY DispatchAssumption
<1>2. ASSUME UNCHANGED <<st, runCmd>> PROVE UNCHANGED Fate
  BY <1>2, FateSame, Stutters
<1>3. ASSUME NEW m \in Msgs, \A n \in Msgs \ {m} : FateOf(n)' = FateOf(n), FateOf(m)' = FateOf(m)
      PROVE  UNCHANGED Fate
  BY <1>3, Stutters
<1>4. ASSUME NEW m \in Msgs, \A n \in Msgs \ {m} : FateOf(n)' = FateOf(n),
             FateOf(m) \notin {"joined", "closed"}, FateOf(m)' = "closed"
      PROVE  Abstract!Next
  BY <1>4, Closes, {m} \in SUBSET Msgs
<1>5. ASSUME NEW m \in Msgs, Route(m) PROVE Abstract!Next \/ UNCHANGED Fate
  <2>1. runCmd = None /\ st[m] = "pending" /\ FateOf(m) = "waiting"
    BY <1>5, HeadPending, FateCases DEF Route, RouteCancel, RouteInline, RouteToQueue, RouteToTask,
       RunReady, QueueInv
  <2>2. \A n \in Msgs \ {m} : FateOf(n)' = FateOf(n)
    <3>1. \A n \in Msgs : n # m => st'[n] = st[n] /\ (runCmd' = n <=> runCmd = n)
      BY <1>1, <1>5, <2>1 DEF Route, RouteCancel, BeginCancel, RouteInline, RouteToQueue, RouteToTask, runVars
    <3> QED BY <3>1, OnlyOne
  <2>3. CASE RouteCancel(m)
    <3>1. st'[m] = "await" /\ runCmd' = m
      BY <2>3 DEF RouteCancel, BeginCancel
    <3>2. FateOf(m)' = "waiting"
      BY <3>1, FateCasesNext DEF Turning
    <3> QED BY <1>3, <2>1, <2>2, <3>2
  <2>4. CASE RouteInline(m)
    <3>1. FateOf(m)' = "closed"
      BY <2>4, FateCasesNext DEF RouteInline
    <3> QED BY <1>4, <2>1, <2>2, <3>1
  <2>5. CASE RouteToQueue(m)
    BY <1>2, <2>5 DEF RouteToQueue, runVars
  <2>6. CASE RouteToTask(m)
    <3>1. FateOf(m)' = "waiting"
      BY <2>6, FateCasesNext DEF RouteToTask
    <3> QED BY <1>3, <2>1, <2>2, <3>1
  <2> QED BY <1>5, <2>3, <2>4, <2>5, <2>6 DEF Route
<1>18. ASSUME NEW m \in Msgs, CancelSubs(m) PROVE Abstract!Next
  <2> DEFINE subs == SubsOf(m)
  <2>1. /\ st[m] = "await" /\ st'[m] = "gather" /\ UNCHANGED runCmd /\ subs # {} /\ m \notin subs
        /\ \A n \in Msgs : n # m => st'[n] = (IF n \in subs THEN "dropped" ELSE st[n])
    BY <1>18 DEF CancelSubs, TasksOver, SubsOf
  <2>2. \A n \in subs : FateOf(n) = "outside" /\ FateOf(n)' = "closed"
    <3>1. \A n \in subs : n \in Msgs /\ st[n] = "subrun" /\ st'[n] = "dropped"
      BY <2>1 DEF SubsOf
    <3> QED BY <3>1, FateCases, FateCasesNext
  <2>3. \A n \in Msgs : n # m /\ n \notin subs => FateOf(n)' = FateOf(n)
    BY <2>1, FateSame
  <2>4. FateOf(m)' = FateOf(m)
    BY <2>1 DEF FateOf, InTurn, Turning
  <2>5. /\ subs \in SUBSET Msgs
        /\ \A n \in subs : FateOf(n) \notin {"joined", "closed"} /\ FateOf(n)' = "closed"
        /\ \A n \in Msgs \ subs : FateOf(n)' = FateOf(n)
    BY <2>2, <2>3, <2>4 DEF SubsOf
  <2> HIDE DEF subs
  <2> QED BY <2>1, <2>5, Closes
<1>6. ASSUME NEW m \in Msgs, FinishCancel(m) PROVE Abstract!Next \/ UNCHANGED Fate
  <2>1. /\ st[m] \in {"await", "gather"}
        /\ \A n \in Msgs : n # m => st'[n] = st[n]
        /\ \A n \in Msgs : n # m => (runCmd' = n <=> runCmd = n)
    BY <1>1, <1>6 DEF FinishCancel, TasksOver
  <2>2. \A n \in Msgs \ {m} : FateOf(n)' = FateOf(n)
    BY <2>1, OnlyOne
  <2>3. CASE st'[m] = "done"
    <3>1. FateOf(m) \in {"waiting", "active"} /\ FateOf(m)' = "closed"
      BY <2>1, <2>3, Involved, FateCasesNext
    <3> QED BY <1>4, <2>2, <3>1
  <2>4. CASE st'[m] # "done"
    <3>1. CASE Role(m) = "regen"
      <4>1. runCmd = m /\ st'[m] = "lock"
        BY <1>6, <2>1, <3>1 DEF FinishCancel, RegenInv
      <4>2. FateOf(m) = "waiting" /\ FateOf(m)' = "waiting"
        BY <2>1, <4>1, FateCases, FateCasesNext DEF Turning
      <4> QED BY <1>3, <2>2, <4>2
    <3>2. CASE Role(m) # "regen"
      <4>1. runCmd # m /\ st'[m] = "closing" /\ runCmd' # m
        BY <1>6, <2>4, <3>2 DEF FinishCancel
      <4>2. InTurn(m) /\ InTurn(m)'
        BY <2>1, <4>1 DEF InTurn, Turning
      <4>3. FateOf(m)' = FateOf(m)
        BY <4>2, FateCases, FateCasesNext
      <4> QED BY <1>3, <2>2, <4>3
    <3> QED BY <3>1, <3>2
  <2> QED BY <2>3, <2>4
<1>7. ASSUME NEW m \in Msgs, Regenerate(m) PROVE Abstract!Next \/ UNCHANGED Fate
  <2>1. /\ st[m] = "lock" /\ st'[m] \in {"pending", "done"} /\ runCmd = m /\ runCmd' = None
        /\ \A n \in Msgs : n # m => st'[n] = st[n]
    BY <1>7 DEF Regenerate, RegenInv
  <2>2. \A n \in Msgs \ {m} : FateOf(n)' = FateOf(n)
    BY <1>1, <2>1, OnlyOne
  <2>3. FateOf(m) = "waiting" /\ FateOf(m)' \in {"waiting", "closed"}
    BY <2>1, FateCases, FateCasesNext
  <2> QED BY <1>3, <1>4, <2>2, <2>3
<1>8. ASSUME NEW m \in Msgs, StartTask(m) PROVE Abstract!Next \/ UNCHANGED Fate
  <2>1. /\ st[m] = "created" /\ st'[m] \in {"lock", "dropped"} /\ UNCHANGED runCmd
        /\ \A n \in Msgs : n # m => st'[n] = st[n]
    BY <1>8, HeadCreated DEF StartTask, QueueInv
  <2>2. \A n \in Msgs \ {m} : FateOf(n)' = FateOf(n)
    BY <2>1, OnlyOne
  <2>3. FateOf(m) = "waiting" /\ FateOf(m)' \in {"waiting", "closed"}
    BY <2>1, FateCases, FateCasesNext
  <2> QED BY <1>3, <1>4, <2>2, <2>3
<1>9. ASSUME NEW m \in Msgs, GotLock(m) PROVE UNCHANGED Fate
  <2>1. /\ st[m] = "lock" /\ st'[m] = "gate" /\ UNCHANGED runCmd
        /\ \A n \in Msgs : n # m => st'[n] = st[n]
    BY <1>9 DEF GotLock
  <2>2. \A n \in Msgs \ {m} : FateOf(n)' = FateOf(n)
    BY <2>1, OnlyOne
  <2>3. FateOf(m) = "waiting" /\ FateOf(m)' = "waiting"
    BY <2>1, FateCases, FateCasesNext
  <2> QED BY <1>3, <2>2, <2>3
<1>10. ASSUME NEW m \in Msgs, BeginTurn(m) PROVE Abstract!Next
  <2>1. /\ st[m] = "gate" /\ m \in gateHeld /\ st'[m] \in {"await", "closing", "run"} /\ UNCHANGED runCmd
        /\ \A n \in Msgs : n # m => st'[n] = st[n]
    BY <1>10 DEF BeginTurn, BeginCancel
  <2>2. runCmd # m
    BY <2>1 DEF QueueInv, CommandInv
  <2>3. \A n \in Msgs \ {m} : FateOf(n)' = FateOf(n)
    BY <2>1, OnlyOne
  <2>4. FateOf(m) = "waiting" /\ FateOf(m)' = "active" /\ ~InTurn(m)
    BY <2>1, <2>2, FateCases, FateCasesNext DEF InTurn, Turning
  <2>5. lockOwner[EffectiveKey(m)] = m
    BY <2>1 DEF LockInv
  <2> QED BY <2>1, <2>3, <2>4, <2>5, Begins DEF RefineInv
<1>11. ASSUME NEW m \in Msgs, DirectBegin(m) PROVE Abstract!Next
  <2>1. /\ st[m] = "lock" /\ Kind[m] = "direct" /\ lockOwner[EffectiveKey(m)] = m
        /\ st'[m] = "run" /\ UNCHANGED runCmd
        /\ \A n \in Msgs : n # m => st'[n] = st[n]
    BY <1>11 DEF DirectBegin
  <2>2. runCmd # m
    BY <2>1 DEF QueueInv, CommandInv, Role
  <2>3. \A n \in Msgs \ {m} : FateOf(n)' = FateOf(n)
    BY <2>1, OnlyOne
  <2>4. FateOf(m) = "waiting" /\ FateOf(m)' = "active" /\ ~InTurn(m)
    BY <2>1, <2>2, FateCases, FateCasesNext DEF InTurn, Turning
  <2> QED BY <2>1, <2>3, <2>4, Begins DEF RefineInv
<1>12. ASSUME NEW m \in Msgs, WakeForSub(m) \/ Drain(m) PROVE Abstract!Next
  <2> DEFINE n == IF Len(pend[m]) < MaxInject THEN Len(pend[m]) ELSE MaxInject
             S == {pend[m][i] : i \in 1..n}
  <2>1. /\ st[m] \in {"run", "subwait"} /\ Kind[m] # "direct" /\ TakeInjections(m) /\ UNCHANGED runCmd
    BY <1>12 DEF WakeForSub, Drain, Running, TakeInjections, RefineInv, SubwaitInv
  <2>2. runCmd # m
    BY <2>1 DEF QueueInv, CommandInv
  <2>3. n \in Nat /\ n <= Len(pend[m]) /\ 1 <= n
    <3>1. Len(pend[m]) \in Nat /\ Len(pend[m]) # 0
      BY <2>1 DEF TakeInjections
    <3> QED BY SMTT(30), <3>1, DispatchAssumption
  <2>4. st' = [t \in Msgs |-> IF t = m THEN "run" ELSE IF t \in S THEN "injected" ELSE st[t]]
    BY <2>1 DEF TakeInjections
  <2> HIDE DEF n
  <2>5. \A i \in 1..n : i \in 1..Len(pend[m]) /\ pend[m][i] \in Msgs
    BY SMTT(30), <2>3
  <2>6. \A t \in S : t \in Msgs /\ st[t] = "pending" /\ ChatKey[t] = ChatKey[m]
    <3> SUFFICES ASSUME NEW i \in 1..n
                 PROVE  pend[m][i] \in Msgs /\ st[pend[m][i]] = "pending" /\ ChatKey[pend[m][i]] = ChatKey[m]
      BY SMTT(30)
    <3>1. i \in 1..Len(pend[m]) /\ pend[m][i] \in Msgs
      BY <2>5
    <3>2. m \in DOMAIN Queues /\ Queues[m] = pend[m]
      BY <1>1 DEF Queues
    <3>3. st[pend[m][i]] = "pending"
      BY <3>1, <3>2 DEF QueueInv, PlaceInv, Waits
    <3> QED BY <3>1, <3>3 DEF RefineInv, ChatQueueInv
  <2>7. S \in SUBSET Msgs /\ S # {} /\ m \notin S
    <3>1. 1 \in 1..n /\ pend[m][1] \in S
      BY <2>3
    <3>2. S \subseteq Msgs /\ \A t \in S : st[t] = "pending"
      BY <2>6
    <3> HIDE DEF S
    <3> QED BY <2>1, <3>1, <3>2
  <2> HIDE DEF S
  <2>8. FateOf(m) = "active" /\ FateOf(m)' = "active"
    BY <2>1, <2>2, <2>4, FateCases, FateCasesNext DEF InTurn, Turning
  <2>9. \A t \in S : FateOf(t) = "waiting" /\ FateOf(t)' = "joined" /\ ChatKey[t] = ChatKey[m]
    <3>1. \A t \in S : t \in Msgs /\ st[t] = "pending" /\ st'[t] = "injected" /\ ChatKey[t] = ChatKey[m]
      BY <2>4, <2>6, <2>7
    <3> QED BY <3>1, FateCases, FateCasesNext
  <2>10. \A t \in Msgs \ S : FateOf(t)' = FateOf(t)
    <3>1. \A t \in Msgs \ S : t # m => st'[t] = st[t]
      BY <2>4
    <3> QED BY <2>1, <2>8, <3>1, FateSame
  <2> QED BY <2>1, <2>7, <2>8, <2>9, <2>10, Joins
<1>13. ASSUME NEW m \in Msgs, SubTimeout(m) \/ WaitForSub(m) PROVE UNCHANGED Fate
  <2>1. /\ st[m] \in {"run", "subwait"} /\ st'[m] \in {"run", "subwait"} /\ UNCHANGED runCmd
        /\ \A n \in Msgs : n # m => st'[n] = st[n]
    BY <1>13 DEF SubTimeout, WaitForSub, Running
  <2>2. \A n \in Msgs \ {m} : FateOf(n)' = FateOf(n)
    BY <2>1, OnlyOne
  <2>3. runCmd # m
    BY <2>1 DEF QueueInv, CommandInv
  <2>4. FateOf(m) = "active" /\ FateOf(m)' = "active"
    BY <2>1, <2>3, FateCases, FateCasesNext DEF InTurn, Turning
  <2> QED BY <1>3, <2>2, <2>4
<1>14. ASSUME NEW m \in Msgs, Cancelled(m) \/ EndTurn(m) \/ DirectEnd(m) PROVE Abstract!Next
  <2>1. /\ st[m] \in {"lock", "gate", "run", "subwait", "closing"} /\ st'[m] \in {"done", "dropped"}
        /\ UNCHANGED runCmd /\ \A n \in Msgs : n # m => st'[n] = st[n]
    BY <1>14 DEF Cancelled, EndTurn, EndTask, DirectEnd
  <2>2. \A n \in Msgs \ {m} : FateOf(n)' = FateOf(n)
    BY <2>1, OnlyOne
  <2>3. FateOf(m) \in {"waiting", "active"} /\ FateOf(m)' = "closed"
    BY <2>1, Involved, FateCasesNext
  <2> QED BY <1>4, <2>2, <2>3
<1>15. ASSUME NEW m \in Msgs, Announce(m) \/ Publish(m) \/ DirectCall(m) PROVE Abstract!Next
  <2>1. /\ st[m] \in {"fresh", "subrun"} /\ st'[m] \in {"pending", "lock"} /\ UNCHANGED runCmd
        /\ \A n \in Msgs : n # m => st'[n] = st[n]
    BY <1>15 DEF Announce, Publish, DirectCall
  <2>2. \A n \in Msgs \ {m} : FateOf(n)' = FateOf(n)
    BY <2>1, OnlyOne
  <2>3. FateOf(m) = "outside" /\ FateOf(m)' = "waiting"
    BY <2>1, FateCases, FateCasesNext
  <2> QED BY <2>2, <2>3, Accepts
<1>16. ASSUME NEW m \in Msgs, NEW b \in Msgs, Spawn(m, b) PROVE UNCHANGED Fate
  <2>1. /\ st[b] = "fresh" /\ st'[b] = "subrun" /\ UNCHANGED runCmd
        /\ \A n \in Msgs : n # b => st'[n] = st[n]
    BY <1>16 DEF Spawn
  <2>2. \A n \in Msgs \ {b} : FateOf(n)' = FateOf(n)
    BY <2>1, OnlyOne
  <2>3. FateOf(b) = "outside" /\ FateOf(b)' = "outside"
    BY <2>1, FateCases, FateCasesNext
  <2> QED BY <1>3, <2>2, <2>3
<1>17. ASSUME Idle \/ UNCHANGED vars PROVE UNCHANGED Fate
  BY <1>2, <1>17 DEF Idle, vars, runVars
<1> QED
  BY <1>5, <1>6, <1>7, <1>8, <1>9, <1>10, <1>11, <1>12, <1>13, <1>14, <1>15, <1>16, <1>17, <1>18
  DEF Next, Progress

\* Where a session is one chat, the dispatcher keeps the promise of SerialTurns: a message is
\* accepted once, then starts a turn alone in its chat and within the gate, joins a turn of its
\* chat, or is closed (run, _dispatch, _drain_pending, process_direct).
THEOREM ImplementsSerialTurns == SessionPerChat => (Spec => SerialSpec)
<1> SUFFICES ASSUME SessionPerChat PROVE Spec => SerialSpec
  OBVIOUS
<1>1. Init => RefineInv
  <2> SUFFICES ASSUME Init PROVE RefineInv
    OBVIOUS
  <2>1. GateInv
    BY FS_EmptySet, DispatchAssumption DEF Init, GateInv, InTurn, Turning
  <2>2. SubwaitInv /\ ChatQueueInv
    BY DEF Init, SubwaitInv, ChatQueueInv
  <2> QED BY <2>1, <2>2 DEF RefineInv
<1>2. TypeOK /\ QueueInv /\ RegenInv /\ RefineInv /\ [Next]_vars => RefineInv'
  BY GateInvNext, SubwaitNext, ChatQueueNext DEF RefineInv, QueueInv
<1>3. Init => Abstract!Init
  <2> SUFFICES ASSUME Init PROVE Abstract!Init
    OBVIOUS
  <2>1. \A m \in Msgs : FateOf(m) = "outside"
    BY FateCases DEF Init
  <2> QED BY <2>1 DEF Abstract!Init
<1>4. TypeOK /\ QueueInv /\ LockInv /\ RegenInv /\ RefineInv /\ [Next]_vars
        => [Abstract!Next]_([m \in Msgs |-> FateOf(m)])
  BY RefinesNext DEF Fate
<1> QED BY <1>1, <1>2, <1>3, <1>4, TypeCorrect, QueueInvariant, LockHeld, PTL
        DEF Spec, SerialSpec, Abstract!Spec

================================================================================
