----------------------- MODULE SubmissionTickets_proofs -----------------------
EXTENDS SubmissionTickets, TLAPS

Left == {"cleanup", "publishing", "done"}

TicketsTyped == /\ pred \in [Jobs -> Jobs \cup {None}]
                /\ tail \in Jobs \cup {None}
                /\ settled \subseteq Jobs
                /\ released \subseteq Jobs

\* What a dispatcher's last step does to the tickets, whatever the step is.
LEMMA SettleKeeps ==
  ASSUME TypeOK, TicketInvariant, NEW j \in Jobs, NEW ph \in Left,
         j < next, Settle(j), pc' = [pc EXCEPT ![j] = ph], next' = next
  PROVE  TicketsTyped' /\ Chain' /\ Turns'
<1> USE SentinelAssumption DEF Jobs, Left
<1>1. CASE pred[j] = None \/ pred[j] \in released
  <2>1. /\ settled' = settled \cup {j} /\ pred' = pred
        /\ released' = released \cup {j}
        /\ tail' = IF tail = j THEN None ELSE tail
    BY <1>1 DEF Settle, Release
  <2>2. \A i \in Jobs : i < j => i \in released
    BY <1>1 DEF TypeOK, TicketInvariant, Chain
  <2>3. TicketsTyped'
    BY <2>1 DEF TypeOK, TicketsTyped
  <2>4. Chain'
    <3>1. \A i \in Jobs : pc'[i] = "idle" <=> i >= next
      BY DEF TypeOK, TicketInvariant, Chain
    <3>2. tail' = None => \A i \in Jobs : i < next => i \in released'
      BY <2>1, <2>2 DEF TypeOK, TicketInvariant, Chain
    <3>3. tail' = None \/ tail' = next - 1
      BY <2>1 DEF TicketInvariant, Chain
    <3>4. \A i, k \in Jobs : i < k /\ k \in released' => i \in released'
      BY <2>1, <2>2 DEF TicketInvariant, Chain
    <3>5. \A k \in Jobs : k < next =>
             /\ pred[k] = None \/ pred[k] = k - 1
             /\ pred[k] = None => \A i \in Jobs : i < k => i \in released'
      BY <2>1 DEF TicketInvariant, Chain
    <3> QED
      BY <2>1, <3>1, <3>2, <3>3, <3>4, <3>5 DEF Chain
  <2>5. Turns'
    BY <2>1 DEF TypeOK, Phases, TicketInvariant, Turns, Chain
  <2>6. QED
    BY <2>3, <2>4, <2>5
<1>2. CASE ~(pred[j] = None \/ pred[j] \in released)
  <2>1. /\ settled' = settled \cup {j} /\ pred' = pred
        /\ released' = released /\ tail' = tail
    BY <1>2 DEF Settle
  <2>2. TicketsTyped'
    BY <2>1 DEF TypeOK, TicketsTyped
  <2>3. Chain'
    BY <2>1 DEF TypeOK, Phases, TicketInvariant, Chain
  <2>4. Turns'
    BY <2>1 DEF TypeOK, Phases, TicketInvariant, Turns, Chain
  <2>5. QED
    BY <2>2, <2>3, <2>4
<1>3. QED
  BY <1>1, <1>2

LEMMA AdmitStep ==
  ASSUME TypeOK, TicketInvariant, NEW j \in Jobs, Admit(j)
  PROVE  TypeOK' /\ TicketInvariant'
<1> USE SentinelAssumption DEF Admit, Jobs, Phases, Statuses, At, Goto, Active, tickets
<1>1. TypeOK'
  BY DEF TypeOK
<1>2. Chain'
  BY DEF TypeOK, TicketInvariant, LockHeld, Turns, Chain
<1>3. Turns'
  BY DEF TypeOK, TicketInvariant, LockHeld, Turns, Chain
<1>4. LockHeld'
  BY DEF TypeOK, TicketInvariant, LockHeld, Turns, Chain
<1>5. QED
  BY <1>1, <1>2, <1>3, <1>4 DEF TicketInvariant

LEMMA CompileStep ==
  ASSUME TypeOK, TicketInvariant, NEW j \in Jobs, Compile(j)
  PROVE  TypeOK' /\ TicketInvariant'
<1> USE SentinelAssumption
<1>1. CASE pc' = [pc EXCEPT ![j] = "preflight"] /\ UNCHANGED <<status, tickets>>
  <2> USE <1>1 DEF Compile, Jobs, Phases, Statuses, At, Goto, Active, tickets
  <2>1. TypeOK'
    BY DEF TypeOK
  <2>2. Chain'
    BY DEF TypeOK, TicketInvariant, LockHeld, Turns, Chain
  <2>3. Turns'
    BY DEF TypeOK, TicketInvariant, LockHeld, Turns, Chain
  <2>4. LockHeld'
    BY DEF TypeOK, TicketInvariant, LockHeld, Turns, Chain
  <2>5. QED
    BY <2>1, <2>2, <2>3, <2>4 DEF TicketInvariant
<1>2. ASSUME NEW ph \in Left, pc' = [pc EXCEPT ![j] = ph], Settle(j),
             FailAdmitted(j) \/ UNCHANGED status
      PROVE  TypeOK' /\ TicketInvariant'
  <2>1. next' = next /\ j < next
    BY DEF Compile, Jobs, Phases, Statuses, At, Goto, Active, tickets, TypeOK, TicketInvariant, LockHeld, Turns, Chain
  <2>2. TicketsTyped' /\ Chain' /\ Turns'
    BY <1>2, <2>1, SettleKeeps
  <2>3. TypeOK'
    BY <1>2, <2>2 DEF Compile, Jobs, Phases, Statuses, At, Goto, Active, tickets, Left, FailAdmitted, TypeOK, TicketsTyped
  <2>4. LockHeld'
    BY <1>2 DEF Compile, Jobs, Phases, Statuses, At, Goto, Active, tickets, Left, TypeOK, TicketInvariant, LockHeld, Turns, Chain
  <2>5. QED
    BY <2>2, <2>3, <2>4 DEF TicketInvariant
<1>3. QED
  BY <1>1, <1>2 DEF Compile, Goto, Left

LEMMA PreflightStep ==
  ASSUME TypeOK, TicketInvariant, NEW j \in Jobs, Preflight(j)
  PROVE  TypeOK' /\ TicketInvariant'
<1> USE SentinelAssumption
<1>1. CASE pc' = [pc EXCEPT ![j] = IF pred[j] = None THEN "ready" ELSE "predecessor"] /\ UNCHANGED <<status, tickets>>
  <2> USE <1>1 DEF Preflight, Jobs, Phases, Statuses, At, Goto, Active, tickets
  <2>1. TypeOK'
    BY DEF TypeOK
  <2>2. Chain'
    BY DEF TypeOK, TicketInvariant, LockHeld, Turns, Chain
  <2>3. Turns'
    BY DEF TypeOK, TicketInvariant, LockHeld, Turns, Chain
  <2>4. LockHeld'
    BY DEF TypeOK, TicketInvariant, LockHeld, Turns, Chain
  <2>5. QED
    BY <2>1, <2>2, <2>3, <2>4 DEF TicketInvariant
<1>2. ASSUME NEW ph \in Left, pc' = [pc EXCEPT ![j] = ph], Settle(j),
             FailAdmitted(j) \/ UNCHANGED status
      PROVE  TypeOK' /\ TicketInvariant'
  <2>1. next' = next /\ j < next
    BY DEF Preflight, Jobs, Phases, Statuses, At, Goto, Active, tickets, TypeOK, TicketInvariant, LockHeld, Turns, Chain
  <2>2. TicketsTyped' /\ Chain' /\ Turns'
    BY <1>2, <2>1, SettleKeeps
  <2>3. TypeOK'
    BY <1>2, <2>2 DEF Preflight, Jobs, Phases, Statuses, At, Goto, Active, tickets, Left, FailAdmitted, TypeOK, TicketsTyped
  <2>4. LockHeld'
    BY <1>2 DEF Preflight, Jobs, Phases, Statuses, At, Goto, Active, tickets, Left, TypeOK, TicketInvariant, LockHeld, Turns, Chain
  <2>5. QED
    BY <2>2, <2>3, <2>4 DEF TicketInvariant
<1>3. QED
  BY <1>1, <1>2 DEF Preflight, Goto, Left

LEMMA TurnStep ==
  ASSUME TypeOK, TicketInvariant, NEW j \in Jobs, Turn(j)
  PROVE  TypeOK' /\ TicketInvariant'
<1> USE SentinelAssumption DEF Turn, Jobs, Phases, Statuses, At, Goto, Active, tickets
<1>1. TypeOK'
  BY DEF TypeOK
<1>2. Chain'
  BY DEF TypeOK, TicketInvariant, LockHeld, Turns, Chain
<1>3. Turns'
  BY DEF TypeOK, TicketInvariant, LockHeld, Turns, Chain
<1>4. LockHeld'
  BY DEF TypeOK, TicketInvariant, LockHeld, Turns, Chain
<1>5. QED
  BY <1>1, <1>2, <1>3, <1>4 DEF TicketInvariant

LEMMA RequestLockStep ==
  ASSUME TypeOK, TicketInvariant, NEW j \in Jobs, RequestLock(j)
  PROVE  TypeOK' /\ TicketInvariant'
<1> USE SentinelAssumption DEF RequestLock, Jobs, Phases, Statuses, At, Goto, Active, tickets
<1>1. TypeOK'
  BY DEF TypeOK
<1>2. Chain'
  BY DEF TypeOK, TicketInvariant, LockHeld, Turns, Chain
<1>3. Turns'
  BY DEF TypeOK, TicketInvariant, LockHeld, Turns, Chain
<1>4. LockHeld'
  BY DEF TypeOK, TicketInvariant, LockHeld, Turns, Chain
<1>5. QED
  BY <1>1, <1>2, <1>3, <1>4 DEF TicketInvariant

LEMMA WakeStep ==
  ASSUME TypeOK, TicketInvariant, NEW j \in Jobs, Wake(j)
  PROVE  TypeOK' /\ TicketInvariant'
<1> USE SentinelAssumption DEF Wake, Jobs, Phases, Statuses, At, Goto, Active, tickets
<1>1. TypeOK'
  BY DEF TypeOK
<1>2. Chain'
  BY DEF TypeOK, TicketInvariant, LockHeld, Turns, Chain
<1>3. Turns'
  BY DEF TypeOK, TicketInvariant, LockHeld, Turns, Chain
<1>4. LockHeld'
  BY DEF TypeOK, TicketInvariant, LockHeld, Turns, Chain
<1>5. QED
  BY <1>1, <1>2, <1>3, <1>4 DEF TicketInvariant

LEMMA PostStep ==
  ASSUME TypeOK, TicketInvariant, NEW j \in Jobs, Post(j)
  PROVE  TypeOK' /\ TicketInvariant'
<1> USE SentinelAssumption DEF Post, Jobs, Phases, Statuses, At, Goto, Active, tickets
<1>1. TypeOK'
  BY DEF TypeOK
<1>2. Chain'
  BY DEF TypeOK, TicketInvariant, LockHeld, Turns, Chain
<1>3. Turns'
  BY DEF TypeOK, TicketInvariant, LockHeld, Turns, Chain
<1>4. LockHeld'
  BY DEF TypeOK, TicketInvariant, LockHeld, Turns, Chain
<1>5. QED
  BY <1>1, <1>2, <1>3, <1>4 DEF TicketInvariant

LEMMA StopStep ==
  ASSUME TypeOK, TicketInvariant, NEW j \in Jobs, Stop(j)
  PROVE  TypeOK' /\ TicketInvariant'
<1> USE SentinelAssumption DEF Stop, Jobs, Phases, Statuses, At, Goto, Active, tickets, ReleaseLock, Waiting
<1>1. TypeOK'
  BY DEF TypeOK
<1>2. Chain'
  BY DEF TypeOK, TicketInvariant, LockHeld, Turns, Chain
<1>3. Turns'
  BY DEF TypeOK, TicketInvariant, LockHeld, Turns, Chain
<1>4. LockHeld'
  BY DEF TypeOK, TicketInvariant, LockHeld, Turns, Chain
<1>5. QED
  BY <1>1, <1>2, <1>3, <1>4 DEF TicketInvariant

LEMMA JoinedStep ==
  ASSUME TypeOK, TicketInvariant, NEW j \in Jobs, Joined(j)
  PROVE  TypeOK' /\ TicketInvariant'
<1> USE SentinelAssumption
<1>1. PICK ph \in Left : pc' = [pc EXCEPT ![j] = ph]
  BY DEF Joined, Goto, Left
<1>2. Settle(j) /\ next' = next /\ j < next
  BY DEF Joined, Jobs, Phases, Statuses, At, Goto, Active, tickets, TypeOK, TicketInvariant, LockHeld, Turns, Chain
<1>3. TicketsTyped' /\ Chain' /\ Turns'
  BY <1>1, <1>2, SettleKeeps
<1>4. TypeOK'
  BY <1>1, <1>3 DEF Joined, Jobs, Phases, Statuses, At, Goto, Active, tickets, Left, TypeOK, TicketsTyped
<1>5. LockHeld'
  BY <1>1 DEF Joined, Jobs, Phases, Statuses, At, Goto, Active, tickets, Left, TypeOK, TicketInvariant, LockHeld, Turns, Chain
<1>6. QED
  BY <1>3, <1>4, <1>5 DEF TicketInvariant

LEMMA FinishStep ==
  ASSUME TypeOK, TicketInvariant, NEW j \in Jobs, Finish(j)
  PROVE  TypeOK' /\ TicketInvariant'
<1> USE SentinelAssumption
<1>1. PICK ph \in Left : pc' = [pc EXCEPT ![j] = ph]
  BY DEF Finish, Goto, Left
<1>2. Settle(j) /\ next' = next /\ j < next
  BY DEF Finish, Jobs, Phases, Statuses, At, Goto, Active, tickets, TypeOK, TicketInvariant, LockHeld, Turns, Chain
<1>3. TicketsTyped' /\ Chain' /\ Turns'
  BY <1>1, <1>2, SettleKeeps
<1>4. TypeOK'
  BY <1>1, <1>3 DEF Finish, Jobs, Phases, Statuses, At, Goto, Active, tickets, Left, ReleaseLock, Waiting, TypeOK, TicketsTyped
<1>5. LockHeld'
  BY <1>1 DEF Finish, Jobs, Phases, Statuses, At, Goto, Active, tickets, Left, ReleaseLock, Waiting, TypeOK, TicketInvariant, LockHeld, Turns, Chain
<1>6. QED
  BY <1>3, <1>4, <1>5 DEF TicketInvariant

LEMMA FailStep ==
  ASSUME TypeOK, TicketInvariant, NEW j \in Jobs, Fail(j)
  PROVE  TypeOK' /\ TicketInvariant'
<1> USE SentinelAssumption
<1>1. PICK ph \in Left : pc' = [pc EXCEPT ![j] = ph]
  BY DEF Fail, Goto, Left
<1>2. Settle(j) /\ next' = next /\ j < next
  BY DEF Fail, Jobs, Phases, Statuses, At, Goto, Active, tickets, TypeOK, TicketInvariant, LockHeld, Turns, Chain
<1>3. TicketsTyped' /\ Chain' /\ Turns'
  BY <1>1, <1>2, SettleKeeps
<1>4. TypeOK'
  BY <1>1, <1>3 DEF Fail, Jobs, Phases, Statuses, At, Goto, Active, tickets, Left, ReleaseLock, Waiting, FailAdmitted, TypeOK, TicketsTyped
<1>5. LockHeld'
  BY <1>1 DEF Fail, Jobs, Phases, Statuses, At, Goto, Active, tickets, Left, ReleaseLock, Waiting, FailAdmitted, TypeOK, TicketInvariant, LockHeld, Turns, Chain
<1>6. QED
  BY <1>3, <1>4, <1>5 DEF TicketInvariant

LEMMA CleanedUpStep ==
  ASSUME TypeOK, TicketInvariant, NEW j \in Jobs, CleanedUp(j)
  PROVE  TypeOK' /\ TicketInvariant'
<1> USE SentinelAssumption DEF CleanedUp, Jobs, Phases, Statuses, At, Goto, Active, tickets
<1>1. TypeOK'
  BY DEF TypeOK
<1>2. Chain'
  BY DEF TypeOK, TicketInvariant, LockHeld, Turns, Chain
<1>3. Turns'
  BY DEF TypeOK, TicketInvariant, LockHeld, Turns, Chain
<1>4. LockHeld'
  BY DEF TypeOK, TicketInvariant, LockHeld, Turns, Chain
<1>5. QED
  BY <1>1, <1>2, <1>3, <1>4 DEF TicketInvariant

LEMMA PublishedStep ==
  ASSUME TypeOK, TicketInvariant, NEW j \in Jobs, Published(j)
  PROVE  TypeOK' /\ TicketInvariant'
<1> USE SentinelAssumption DEF Published, Jobs, Phases, Statuses, At, Goto, Active, tickets
<1>1. TypeOK'
  BY DEF TypeOK
<1>2. Chain'
  BY DEF TypeOK, TicketInvariant, LockHeld, Turns, Chain
<1>3. Turns'
  BY DEF TypeOK, TicketInvariant, LockHeld, Turns, Chain
<1>4. LockHeld'
  BY DEF TypeOK, TicketInvariant, LockHeld, Turns, Chain
<1>5. QED
  BY <1>1, <1>2, <1>3, <1>4 DEF TicketInvariant

LEMMA InterruptedStep ==
  ASSUME TypeOK, TicketInvariant, NEW j \in Jobs, Interrupted(j)
  PROVE  TypeOK' /\ TicketInvariant'
<1> USE SentinelAssumption
<1>1. pc' = [pc EXCEPT ![j] = "done"] /\ next' = next /\ j < next
  BY DEF Interrupted, Jobs, Phases, Statuses, At, Goto, Active, tickets, TypeOK, TicketInvariant, LockHeld, Turns, Chain
<1>2. TicketsTyped' /\ Chain' /\ Turns'
  <2>1. CASE j \in settled
    <3> USE <1>1, <2>1 DEF Interrupted, SettleOnce, Jobs, Phases, Statuses, At, Goto, Active, tickets
    <3>1. TicketsTyped'
      BY DEF TypeOK, TicketsTyped
    <3>2. Chain'
      BY DEF TypeOK, TicketInvariant, LockHeld, Turns, Chain
    <3>3. Turns'
      <4>1. UNCHANGED <<pred, settled, released>> /\ pc[j] \in Left
        BY DEF TypeOK, TicketInvariant, LockHeld, Turns, Chain, Left
      <4>2. QED
        BY <4>1 DEF TypeOK, TicketInvariant, LockHeld, Turns, Chain, Left
    <3>4. QED
      BY <3>1, <3>2, <3>3
  <2>2. CASE j \notin settled
    BY <1>1, <2>2, SettleKeeps DEF Interrupted, SettleOnce, Left
  <2>3. QED
    BY <2>1, <2>2
<1>3. TypeOK'
  BY <1>1, <1>2 DEF Interrupted, Jobs, Phases, Statuses, At, Goto, Active, tickets, ReleaseLock, Waiting, TypeOK, TicketsTyped
<1>4. LockHeld'
  BY <1>1 DEF Interrupted, Jobs, Phases, Statuses, At, Goto, Active, tickets, ReleaseLock, Waiting, TypeOK, TicketInvariant, LockHeld, Turns, Chain
<1>5. QED
  BY <1>2, <1>3, <1>4 DEF TicketInvariant

LEMMA CallbackStep ==
  ASSUME TypeOK, TicketInvariant, NEW j \in Jobs, Callback(j)
  PROVE  TypeOK' /\ TicketInvariant'
<1> USE SentinelAssumption DEF Jobs
<1>1. /\ released' = released \cup {j}
      /\ tail' = IF tail = j THEN None ELSE tail
      /\ UNCHANGED <<pc, status, sent, interrupted, pred, settled, owner, up, next>>
  BY DEF Callback, Release
<1>2. /\ j < next /\ j \in settled
      /\ \A i \in Jobs : i < j => i \in released
  BY DEF Callback, Phases, TypeOK, TicketInvariant, LockHeld, Turns, Chain
<1>3. TypeOK'
  BY <1>1 DEF TypeOK
<1>4. Chain'
  <2>1. tail = j => j = next - 1
    BY DEF TicketInvariant, Chain
  <2>2. tail' = None => \A i \in Jobs : i < next => i \in released'
    BY <1>1, <1>2, <2>1 DEF TypeOK, TicketInvariant, Chain
  <2>3. tail' = None \/ tail' = next' - 1
    BY <1>1 DEF TicketInvariant, Chain
  <2>4. \A i, k \in Jobs : i < k /\ k \in released' => i \in released'
    BY <1>1, <1>2 DEF TicketInvariant, Chain
  <2>5. QED
    BY <1>1, <2>2, <2>3, <2>4 DEF TicketInvariant, Chain
<1>5. Turns'
  BY <1>1, <1>2 DEF Phases, TypeOK, TicketInvariant, Turns
<1>6. LockHeld'
  BY <1>1 DEF TicketInvariant, LockHeld, Active
<1>7. QED
  BY <1>3, <1>4, <1>5, <1>6 DEF TicketInvariant

LEMMA CancelStep ==
  ASSUME TypeOK, TicketInvariant, NEW j \in Jobs, Cancel(j)
  PROVE  TypeOK' /\ TicketInvariant'
<1> USE SentinelAssumption
<1>1. PICK st \in {"cancelled", "cancelling"} : status' = [status EXCEPT ![j] = st]
  BY DEF Cancel
<1>2. /\ interrupted' = interrupted \/ interrupted' = interrupted \cup {j}
      /\ Active(j)
  BY DEF Cancel
<1>3. UNCHANGED <<pc, sent, pred, tail, settled, released, owner, up, next>>
  BY DEF Cancel, tickets
<1>4. TypeOK'
  BY <1>1, <1>2, <1>3 DEF TypeOK, Statuses
<1>5. Chain' /\ Turns'
  BY <1>3 DEF TicketInvariant, Chain, Turns
<1>6. LockHeld'
  BY <1>2, <1>3 DEF TypeOK, TicketInvariant, LockHeld, Active
<1>7. QED
  BY <1>4, <1>5, <1>6 DEF TicketInvariant

LEMMA ShutdownStep ==
  ASSUME TypeOK, TicketInvariant, Shutdown
  PROVE  TypeOK' /\ TicketInvariant'
<1> USE SentinelAssumption DEF Shutdown, Jobs, Phases, Statuses, At, Goto, Active, tickets
<1>1. TypeOK'
  BY DEF TypeOK
<1>2. Chain' /\ Turns'
  BY DEF TicketInvariant, Chain, Turns
<1>3. LockHeld'
  BY DEF TypeOK, TicketInvariant, LockHeld, Turns, Chain
<1>4. QED
  BY <1>1, <1>2, <1>3 DEF TicketInvariant

LEMMA ConfirmStep ==
  ASSUME TypeOK, TicketInvariant, Confirm
  PROVE  TypeOK' /\ TicketInvariant'
<1> USE SentinelAssumption DEF Confirm, Jobs, Phases, Statuses, At, Goto, Active, tickets
<1>1. TypeOK'
  BY DEF TypeOK
<1>2. Chain' /\ Turns'
  BY DEF TicketInvariant, Chain, Turns
<1>3. LockHeld'
  BY DEF TypeOK, TicketInvariant, LockHeld, Turns, Chain
<1>4. QED
  BY <1>1, <1>2, <1>3 DEF TicketInvariant

LEMMA ConfirmedStep ==
  ASSUME TypeOK, TicketInvariant, Confirmed
  PROVE  TypeOK' /\ TicketInvariant'
<1> USE SentinelAssumption DEF Confirmed, Jobs, Phases, Statuses, At, Goto, Active, tickets, ReleaseLock, Waiting
<1>1. TypeOK'
  BY DEF TypeOK
<1>2. Chain' /\ Turns'
  BY DEF TicketInvariant, Chain, Turns
<1>3. LockHeld'
  BY DEF TypeOK, TicketInvariant, LockHeld, Turns, Chain
<1>4. QED
  BY <1>1, <1>2, <1>3 DEF TicketInvariant

LEMMA Initially == Init => TypeOK /\ TicketInvariant
  BY SentinelAssumption DEF Init, Jobs, Phases, Statuses, At, Goto, Active, tickets, TypeOK, TicketInvariant, LockHeld, Turns, Chain

LEMMA NextStep == TypeOK /\ TicketInvariant /\ [Next]_vars => TypeOK' /\ TicketInvariant'
<1> SUFFICES ASSUME TypeOK, TicketInvariant, [Next]_vars
             PROVE  TypeOK' /\ TicketInvariant'
  OBVIOUS
<1>1. ASSUME NEW j \in Jobs, Dispatch(j)
      PROVE  TypeOK' /\ TicketInvariant'
  BY <1>1, CompileStep, PreflightStep, TurnStep, RequestLockStep, WakeStep, StopStep,
     JoinedStep, FinishStep, FailStep, CleanedUpStep, PublishedStep, InterruptedStep DEF Dispatch
<1>2. ASSUME NEW j \in Jobs, Admit(j) \/ Post(j) \/ Callback(j) \/ Cancel(j)
      PROVE  TypeOK' /\ TicketInvariant'
  BY <1>2, AdmitStep, PostStep, CallbackStep, CancelStep
<1>3. CASE UNCHANGED vars
  BY <1>3 DEF vars, tickets, Active, Jobs, TypeOK, TicketInvariant, LockHeld, Turns, Chain
<1>4. QED
  BY <1>1, <1>2, <1>3, ShutdownStep, ConfirmStep, ConfirmedStep DEF Next

-----------------------------------------------------------------------------
(* Theorems *)

\* Every reachable state is well typed and the chain, the turns and the lock
\* are as the dispatchers rely on (app.py:7153-7184, 7365-7371).
THEOREM TicketInvariantHolds == Spec => [](TypeOK /\ TicketInvariant)
  BY Initially, NextStep, PTL DEF Spec

\* A dispatcher whose turn has come finds every earlier admission settled
\* (app.py:7174-7184, 7351-7352).
THEOREM AdmissionOrderHolds == Spec => []AdmissionOrder
<1>1. TypeOK /\ TicketInvariant => AdmissionOrder
  BY SentinelAssumption DEF AdmissionOrder, Jobs, Phases, TypeOK, TicketInvariant, LockHeld, Turns, Chain
<1>2. QED
  BY <1>1, TicketInvariantHolds, PTL

\* The operator's reset of the RayLight row crosses no dispatcher that may
\* have posted (app.py:9749-9768).
THEOREM OperatorIsAloneHolds == Spec => []OperatorIsAlone
<1>1. TypeOK /\ TicketInvariant => OperatorIsAlone
  BY DEF OperatorIsAlone, TicketInvariant, LockHeld
<1>2. QED
  BY <1>1, TicketInvariantHolds, PTL

-----------------------------------------------------------------------------
(* Refinement: every step of a dispatcher is a step of FifoEntry or none *)

\* Whoever has a place has an unsettled ticket.
LEMMA PlaceMeansUnsettled ==
  ASSUME TypeOK, TicketInvariant, NEW j \in Jobs
  PROVE  Fifo!HasPlace(j) <=> pc[j] \notin {"idle", "cleanup", "publishing", "done"}
  BY SentinelAssumption DEF Fifo!HasPlace, Jobs, Phases, TypeOK, TicketInvariant, LockHeld, Turns, Chain

LEMMA LeaveStep ==
  ASSUME TypeOK, TicketInvariant, NEW j \in Jobs, NEW ph \in Left,
         pc' = [pc EXCEPT ![j] = ph], j < next, j \notin settled, Settle(j),
         next' = next, owner' = Operator <=> owner = Operator
  PROVE  Fifo!Leave(j)
<1>1. Inside' = Inside \ {j}
  BY SentinelAssumption DEF Inside, Left, TypeOK
<1>2. settled' = settled \cup {j}
  BY DEF Settle
<1>3. QED
  BY <1>1, <1>2 DEF Fifo!Leave, Fifo!HasPlace

LEMMA EnterStep ==
  ASSUME TypeOK, TicketInvariant, NEW j \in Jobs, pc[j] \in {"ready", "lockwait"},
         pc' = [pc EXCEPT ![j] = "locked"], owner \in {None, j}, owner' = j,
         UNCHANGED <<next, settled>>
  PROVE  Fifo!Enter(j)
<1> USE SentinelAssumption
<1>1. \A i \in Jobs : i < j => i \in settled
  BY DEF Jobs, Phases, Statuses, At, Goto, Active, tickets, TypeOK, TicketInvariant, LockHeld, Turns, Chain
<1>2. ASSUME NEW i \in Jobs, i # j
      PROVE  pc[i] \notin {"locked", "joining"}
  <2>1. pc[i] # "locked"
    BY <1>2 DEF TicketInvariant, LockHeld
  <2>2. CASE pc[i] = "joining" /\ i < j
    BY <1>1, <2>2 DEF TicketInvariant, Turns
  <2>3. CASE pc[i] = "joining" /\ i > j
    <3>1. j \in released
      BY <2>3 DEF Jobs, Phases, Statuses, At, Goto, Active, tickets, TypeOK, TicketInvariant, LockHeld, Turns, Chain
    <3>2. QED
      BY <3>1 DEF TicketInvariant, Turns
  <2>4. QED
    BY <1>2, <2>1, <2>2, <2>3 DEF Jobs
<1>3. Inside = {}
  BY <1>2 DEF Inside
<1>4. Inside' = {j}
  BY <1>2 DEF Inside, TypeOK
<1>5. Fifo!HasPlace(j)
  BY DEF Fifo!HasPlace, Jobs, Phases, Statuses, At, Goto, Active, tickets, TypeOK, TicketInvariant, LockHeld, Turns, Chain
<1>6. \A i \in Jobs : Fifo!HasPlace(i) => i >= j
  BY <1>1 DEF Fifo!HasPlace, Jobs
<1>7. QED
  BY <1>3, <1>4, <1>5, <1>6 DEF Fifo!Enter, Fifo!Jobs, Jobs

LEMMA DispatchMaps ==
  ASSUME TypeOK, TicketInvariant, NEW j \in Jobs, Dispatch(j)
  PROVE  Fifo!Enter(j) \/ Fifo!Leave(j) \/ UNCHANGED <<next, settled, Inside>>
<1> USE SentinelAssumption
<1>1. ASSUME Settle(j), NEW ph \in Left, pc' = [pc EXCEPT ![j] = ph], next' = next, j \notin settled,
             j < next, owner' = owner \/ (ReleaseLock /\ owner # Operator)
      PROVE  Fifo!Leave(j)
  BY <1>1, LeaveStep DEF ReleaseLock, Waiting
<1>2. CASE Compile(j) \/ Preflight(j)
  <2>1. j < next /\ j \notin settled
    BY <1>2 DEF Compile, Preflight, Jobs, Phases, Statuses, At, Goto, Active, tickets, TypeOK, TicketInvariant, LockHeld, Turns, Chain
  <2>2. CASE Settle(j)
    <3>1. next' = next /\ owner' = owner
      BY <1>2 DEF Compile, Preflight
    <3>2. settled' # settled
      BY <2>1, <2>2 DEF Settle
    <3>3. PICK ph \in Left : pc' = [pc EXCEPT ![j] = ph]
      BY <1>2, <3>2 DEF Compile, Preflight, Goto, Left, tickets
    <3>4. QED
      BY <1>1, <2>1, <2>2, <3>1, <3>3
  <2>3. CASE ~Settle(j)
    BY <1>2, <2>3 DEF Compile, Preflight, Goto, At, tickets, Inside, TypeOK, Phases
  <2>4. QED
    BY <2>2, <2>3
<1>3. CASE Turn(j) \/ CleanedUp(j) \/ Published(j)
  BY <1>3 DEF Turn, CleanedUp, Published, Goto, At, tickets, Inside, TypeOK
<1>4. CASE RequestLock(j)
  <2>1. CASE owner = None
    BY <1>4, <2>1, EnterStep DEF RequestLock, At, Goto, tickets
  <2>2. CASE owner # None
    BY <1>4, <2>2 DEF RequestLock, At, Goto, tickets, Inside, TypeOK
  <2>3. QED
    BY <2>1, <2>2
<1>5. CASE Wake(j)
  BY <1>5, EnterStep DEF Wake, At, Goto, tickets
<1>6. CASE Stop(j)
  BY <1>6 DEF Stop, ReleaseLock, Waiting, Jobs, Phases, Statuses, At, Goto, Active, tickets, Inside, TypeOK, TicketInvariant, LockHeld, Turns, Chain
<1>7. CASE Joined(j) \/ Finish(j) \/ Fail(j)
  <2>1. j < next /\ j \notin settled
    BY <1>7 DEF Joined, Finish, Fail, Jobs, Phases, Statuses, At, Goto, Active, tickets, TypeOK, TicketInvariant, LockHeld, Turns, Chain
  <2>2. owner' = owner \/ (ReleaseLock /\ owner # Operator)
    BY <1>7 DEF Joined, Finish, Fail, At, TicketInvariant, LockHeld
  <2>3. QED
    BY <1>1, <1>7, <2>1, <2>2 DEF Joined, Finish, Fail, Goto, Left
<1>8. CASE Interrupted(j)
  <2>1. j < next /\ next' = next /\ pc' = [pc EXCEPT ![j] = "done"]
    BY <1>8 DEF Interrupted, Jobs, Phases, Statuses, At, Goto, Active, tickets, TypeOK, TicketInvariant, LockHeld, Turns, Chain
  <2>2. owner' = owner \/ (ReleaseLock /\ owner # Operator)
    <3>1. IF owner = j THEN ReleaseLock ELSE owner' = owner
      BY <1>8 DEF Interrupted
    <3>2. CASE owner = j
      BY <3>1, <3>2
    <3>3. CASE owner # j
      BY <3>1, <3>3
    <3>4. QED
      BY <3>2, <3>3
  <2>3. CASE j \in settled
    <3>1. pc[j] \in Left /\ owner # j
      BY <2>3 DEF Left, TypeOK, TicketInvariant, LockHeld, Turns, Chain
    <3>2. settled' = settled /\ owner' = owner
      BY <1>8, <2>3, <3>1 DEF Interrupted, SettleOnce, tickets
    <3>3. QED
      BY <2>1, <3>1, <3>2 DEF Inside, Left, TypeOK
  <2>4. CASE j \notin settled
    BY <1>1, <1>8, <2>1, <2>2, <2>4 DEF Interrupted, SettleOnce, Left
  <2>5. QED
    BY <2>3, <2>4
<1>9. QED
  BY <1>2, <1>3, <1>4, <1>5, <1>6, <1>7, <1>8 DEF Dispatch

LEMMA StepMaps ==
  ASSUME TypeOK, TicketInvariant, [Next]_vars
  PROVE  [Fifo!Next]_(Fifo!vars)
<1> USE SentinelAssumption
<1>1. ASSUME NEW j \in Jobs, Dispatch(j)
      PROVE  [Fifo!Next]_(Fifo!vars)
  BY <1>1, DispatchMaps DEF Fifo!Next, Fifo!vars, Fifo!Jobs, Jobs
<1>2. ASSUME NEW j \in Jobs, Admit(j)
      PROVE  Fifo!Arrive
  <2>1. settled' = settled /\ next' = next + 1 /\ next <= MaxJobs
    BY <1>2 DEF Admit, Jobs
  <2>2. Inside' = Inside
    BY <1>2 DEF Admit, Goto, Inside, TypeOK, TicketInvariant, LockHeld, Turns, Chain
  <2>3. QED
    BY <2>1, <2>2 DEF Fifo!Arrive
<1>3. ASSUME NEW j \in Jobs, Post(j) \/ Callback(j) \/ Cancel(j)
      PROVE  UNCHANGED <<next, settled, Inside>>
  BY <1>3 DEF Post, Callback, Cancel, tickets, Inside
<1>4. CASE Shutdown
  BY <1>4 DEF Shutdown, tickets, Inside, Fifo!vars
<1>5. CASE Confirm
  <2>1. Inside = {} /\ Inside' = {Operator}
    BY <1>5 DEF Confirm, Active, Inside
  <2>2. \A j \in Jobs : ~Fifo!HasPlace(j)
    BY <1>5, PlaceMeansUnsettled DEF Confirm, Active
  <2>3. Fifo!OperatorEnters
    BY <1>5, <2>1, <2>2 DEF Confirm, tickets, Fifo!OperatorEnters, Fifo!Jobs, Jobs
  <2>4. QED
    BY <2>3 DEF Fifo!Next
<1>6. CASE Confirmed
  <2>1. Inside' = Inside \ {Operator} /\ Operator \in Inside
    BY <1>6 DEF Confirmed, ReleaseLock, Waiting, Inside
  <2>2. Fifo!OperatorLeaves
    BY <1>6, <2>1 DEF Confirmed, tickets, Fifo!OperatorLeaves
  <2>3. QED
    BY <2>2 DEF Fifo!Next
<1>7. CASE UNCHANGED vars
  BY <1>7 DEF vars, tickets, Inside, Fifo!vars
<1>8. QED
  BY <1>1, <1>2, <1>3, <1>4, <1>5, <1>6, <1>7 DEF Next, Fifo!Next, Fifo!vars

\* The ticket chain and the lock implement entry one at a time and in the
\* order of admission, with the operator as the one who needs it empty.
THEOREM EntersInOrderHolds == Spec => EntersInOrder
<1>1. Init => Fifo!Init
  BY SentinelAssumption DEF Init, Inside, Fifo!Init
<1>2. QED
  BY <1>1, StepMaps, TicketInvariantHolds, PTL DEF Spec, EntersInOrder, Fifo!Spec

=============================================================================
