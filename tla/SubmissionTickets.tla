-------------------------- MODULE SubmissionTickets --------------------------
(***************************************************************************)
(* The order in which admitted jobs submit to ComfyUI: the chain of        *)
(* tickets and the submission lock (backend/directordeck/app.py).          *)
(*                                                                         *)
(* Every admitted job has one dispatcher (_create_timeline_job_impl).      *)
(* Under submission_ticket_lock it takes the tail of the chain as its      *)
(* predecessor and becomes the tail.  It compiles and preflights beside    *)
(* the others, waits for its predecessor's ticket, takes the submission    *)
(* lock, submits, releases the lock and settles its ticket.  A dispatcher  *)
(* that ends before its turn settles too, but its ticket is completed by a *)
(* callback of the unfinished predecessor.                                 *)
(*                                                                         *)
(* One step is the code between two awaits.  The lock is an anyio.Lock     *)
(* (external): releasing it hands it to a waiter.                          *)
(***************************************************************************)
EXTENDS Naturals

CONSTANTS MaxJobs,    \* bound: how many jobs are ever admitted
          Operator,   \* the request that confirms a restart of ComfyUI
          None

\* A job is called by the number of its admission.
Jobs == 1..MaxJobs

ASSUME SentinelAssumption == /\ MaxJobs \in Nat
                             /\ None \notin Jobs
                             /\ Operator \notin Jobs
                             /\ Operator # None

VARIABLES
  pc,           \* pc[j]: where j's dispatcher awaits
  status,       \* status[j]: status of the job's row
  sent,         \* jobs with an entry in possibly_submitted
  interrupted,  \* jobs whose dispatcher was cancelled and has not noticed yet
  pred,         \* pred[j]: predecessor ticket
  tail,         \* submission_tails[endpoint]
  settled,      \* jobs with ticket_settlement_requested
  released,     \* jobs whose ticket future has its result
  owner,        \* owner of the submission lock
  up,           \* the process has not begun to shut down
  next          \* the job that would be admitted next

tickets == <<pred, tail, settled, released>>
vars == <<pc, status, sent, interrupted, tickets, owner, up, next>>

Phases == {"idle", "accepted", "preflight", "predecessor", "ready", "lockwait",
           "locked", "joining", "cleanup", "publishing", "done"}
Statuses == {"none", "preparing", "queued", "cancelling", "cancelled", "failed"}

TypeOK ==
  /\ pc \in [Jobs -> Phases]
  /\ status \in [Jobs -> Statuses]
  /\ sent \subseteq Jobs
  /\ interrupted \subseteq Jobs
  /\ pred \in [Jobs -> Jobs \cup {None}]
  /\ tail \in Jobs \cup {None}
  /\ settled \subseteq Jobs
  /\ released \subseteq Jobs
  /\ owner \in Jobs \cup {Operator, None}
  /\ up \in BOOLEAN
  /\ next \in 1..MaxJobs + 1

Init == /\ pc = [j \in Jobs |-> "idle"]
        /\ status = [j \in Jobs |-> "none"]
        /\ sent = {} /\ interrupted = {}
        /\ pred = [j \in Jobs |-> None]
        /\ tail = None
        /\ settled = {} /\ released = {}
        /\ owner = None
        /\ up = TRUE
        /\ next = 1

Active(j) == pc[j] \notin {"idle", "done"}

-----------------------------------------------------------------------------
(* Tickets and lock *)

\* Mutant: forgets the tail even if a later ticket is the tail by now.
ReleaseAnyTail(j) == released' = released \cup {j} /\ tail' = None

\* The result is set; the tail is forgotten only if it is still this ticket.
Release(j) == /\ released' = released \cup {j}
              /\ tail' = IF tail = j THEN None ELSE tail

\* Mutant: completes the ticket without waiting for its predecessor.
SettleAtOnce(j) == /\ settled' = settled \cup {j}
                   /\ UNCHANGED pred
                   /\ Release(j)

\* Mutant: settling behind an unfinished predecessor leaves no callback.
SettleForgetting(j) == IF pred[j] = None \/ pred[j] \in released
                         THEN SettleAtOnce(j)
                         ELSE UNCHANGED tickets

\* A ticket whose predecessor is unfinished is left to the callback.
Settle(j) == /\ settled' = settled \cup {j}
             /\ UNCHANGED pred
             /\ IF pred[j] = None \/ pred[j] \in released
                  THEN Release(j)
                  ELSE UNCHANGED <<tail, released>>

\* Only the first call of settle_submission_ticket does anything.
SettleOnce(j) == IF j \in settled THEN UNCHANGED tickets ELSE Settle(j)

Waiting == {w \in Jobs : pc[w] = "lockwait" /\ owner # w}

ReleaseLock == IF Waiting = {} THEN owner' = None ELSE owner' \in Waiting

At(j, phase) == pc[j] = phase /\ j \notin interrupted
Goto(j, phase) == pc' = [pc EXCEPT ![j] = phase]

-----------------------------------------------------------------------------
(* The dispatcher of job j *)

Admit(j) == /\ up
            /\ j = next
            /\ next' = next + 1
            /\ Goto(j, "accepted")
            /\ status' = [status EXCEPT ![j] = "preparing"]
            /\ pred' = [pred EXCEPT ![j] = tail]
            /\ tail' = j
            /\ UNCHANGED <<sent, interrupted, settled, released, owner, up>>

\* _fail_admitted_timeline_job: only a row still preparing becomes failed.
FailAdmitted(j) ==
  status' = [status EXCEPT ![j] = IF @ = "preparing" THEN "failed" ELSE @]

\* The response is out; compiling and creating the children is synchronous.
Compile(j) ==
  /\ At(j, "accepted")
  /\ \/ /\ status[j] = "preparing"
        /\ Goto(j, "preflight")
        /\ UNCHANGED <<status, tickets>>
     \/ /\ FailAdmitted(j)
        /\ Settle(j)
        /\ Goto(j, "done")
  /\ UNCHANGED <<sent, interrupted, owner, up, next>>

\* ComfyUI is asked whether it can execute the plan.  A row that is no longer
\* preparing loses the gate.
Preflight(j) ==
  /\ At(j, "preflight")
  /\ \/ /\ status[j] = "preparing"
        /\ Goto(j, IF pred[j] = None THEN "ready" ELSE "predecessor")
        /\ UNCHANGED <<status, tickets>>
     \/ /\ FailAdmitted(j)
        /\ Settle(j)
        /\ Goto(j, "done")
     \/ /\ Settle(j)
        /\ Goto(j, "cleanup")
        /\ UNCHANGED status
  /\ UNCHANGED <<sent, interrupted, owner, up, next>>

\* await asyncio.shield(predecessor)
Turn(j) == /\ At(j, "predecessor")
           /\ pred[j] \in released
           /\ Goto(j, "ready")
           /\ UNCHANGED <<status, sent, interrupted, tickets, owner, up, next>>

\* The websocket is ready or timed out; submission_lock.acquire().
RequestLock(j) ==
  /\ At(j, "ready")
  /\ IF owner = None THEN Goto(j, "locked") /\ owner' = j
                     ELSE Goto(j, "lockwait") /\ UNCHANGED owner
  /\ UNCHANGED <<status, sent, interrupted, tickets, up, next>>

Wake(j) == /\ At(j, "lockwait")
           /\ owner = j
           /\ Goto(j, "locked")
           /\ UNCHANGED <<status, sent, interrupted, tickets, owner, up, next>>

\* A submission intent is persisted; POST /prompt may have effects from now on.
Post(j) == /\ At(j, "locked")
           /\ status[j] = "preparing"
           /\ sent' = sent \cup {j}
           /\ UNCHANGED <<pc, status, interrupted, tickets, owner, up, next>>

\* Between two units the parent is no longer preparing: the lock is released
\* and the dispatcher joins the cancellation, its ticket still unsettled.
Stop(j) == /\ At(j, "locked")
           /\ status[j] # "preparing"
           /\ ReleaseLock
           /\ Goto(j, "joining")
           /\ UNCHANGED <<status, sent, interrupted, tickets, up, next>>

\* The joined cancellation returns, or raises into the cleanup.
Joined(j) == /\ At(j, "joining")
             /\ Settle(j)
             /\ \/ Goto(j, "done")
                \/ j \in sent /\ Goto(j, "cleanup")
             /\ UNCHANGED <<status, sent, interrupted, owner, up, next>>

\* All units are submitted.  The job is published unless someone else moved
\* its row; a cancellation that did is joined after the ticket.
Finish(j) ==
  /\ At(j, "locked")
  /\ ReleaseLock
  /\ Settle(j)
  /\ status' = [status EXCEPT ![j] = IF @ = "preparing" THEN "queued" ELSE @]
  /\ Goto(j, IF status[j] \in {"cancelling", "cancelled"} THEN "publishing" ELSE "done")
  /\ UNCHANGED <<sent, interrupted, up, next>>

\* Every exception releases the lock and settles the ticket before the
\* cleanup; without a possible prompt, or with the cleanup already owned by
\* a failed cancellation, there is nothing to clean up.
Fail(j) ==
  /\ At(j, "locked")
  /\ ReleaseLock
  /\ Settle(j)
  /\ \/ Goto(j, "cleanup") /\ UNCHANGED status
     \/ /\ j \notin sent \/ status[j] = "cancelling"
        /\ FailAdmitted(j)
        /\ Goto(j, "done")
  /\ UNCHANGED <<sent, interrupted, up, next>>

\* The cleanup makes the job a cancelling one; what becomes of it then is
\* the subject of PromptOwnership.
CleanedUp(j) ==
  /\ At(j, "cleanup")
  /\ status' = [status EXCEPT ![j] = IF @ = "preparing" THEN "cancelling" ELSE @]
  /\ Goto(j, "done")
  /\ UNCHANGED <<sent, interrupted, tickets, owner, up, next>>

Published(j) == /\ At(j, "publishing")
                /\ Goto(j, "done")
                /\ UNCHANGED <<status, sent, interrupted, tickets, owner, up, next>>

\* Mutant: releases the lock whoever owns it.
InterruptedUnlocking(j) ==
  /\ j \in interrupted
  /\ interrupted' = interrupted \ {j}
  /\ ReleaseLock
  /\ SettleOnce(j)
  /\ Goto(j, "done")
  /\ UNCHANGED <<status, sent, up, next>>

\* Mutant: an interrupted dispatcher keeps the lock.
InterruptedHolding(j) ==
  /\ j \in interrupted
  /\ interrupted' = interrupted \ {j}
  /\ SettleOnce(j)
  /\ Goto(j, "done")
  /\ UNCHANGED <<status, sent, owner, up, next>>

\* asyncio.CancelledError reaches the dispatcher where it awaits: as the owner
\* of the lock it releases it, as a waiter it withdraws.
Interrupted(j) ==
  /\ j \in interrupted
  /\ interrupted' = interrupted \ {j}
  /\ IF owner = j THEN ReleaseLock ELSE UNCHANGED owner
  /\ SettleOnce(j)
  /\ Goto(j, "done")
  /\ UNCHANGED <<status, sent, up, next>>

\* The callback a settled ticket left with its predecessor.
Callback(j) == /\ j \in settled \ released
               /\ pred[j] \in released
               /\ Release(j)
               /\ UNCHANGED <<pc, status, sent, interrupted, pred, settled, owner, up, next>>

Dispatch(j) == \/ Compile(j) \/ Preflight(j) \/ Turn(j) \/ RequestLock(j) \/ Wake(j)
               \/ Stop(j) \/ Joined(j) \/ Finish(j) \/ Fail(j)
               \/ CleanedUp(j) \/ Published(j) \/ Interrupted(j)

-----------------------------------------------------------------------------
(* Everybody else *)

\* A cancellation that ends the job stops its dispatcher; one that finds a
\* prompt in doubt leaves the dispatcher to finish what it is doing.  (Without
\* a dispatcher a cancellation touches neither tickets nor lock.)
Cancel(j) ==
  /\ Active(j)
  /\ status[j] \in {"preparing", "cancelling", "cancelled"}
  /\ \/ /\ status' = [status EXCEPT ![j] = "cancelled"]
        /\ interrupted' = interrupted \cup {j}
     \/ /\ j \in sent /\ status[j] = "preparing"
        /\ status' = [status EXCEPT ![j] = "cancelling"]
        /\ UNCHANGED interrupted
  /\ UNCHANGED <<pc, sent, tickets, owner, up, next>>

\* The lifespan ends: every submission task is cancelled.
Shutdown == /\ up
            /\ up' = FALSE
            /\ interrupted' = {j \in Jobs : Active(j)}
            /\ UNCHANGED <<pc, status, sent, tickets, owner, next>>

\* Mutant: looks at tickets and lock only.
ConfirmByTickets == /\ up
                    /\ tail = None \/ tail \in released
                    /\ owner = None
                    /\ owner' = Operator
                    /\ UNCHANGED <<pc, status, sent, interrupted, tickets, up, next>>

\* confirm_raylight_runtime_restart: no live submission task, no unfinished
\* tail, and the lock is free; then it is held over two calls to the host.
Confirm == /\ up
           /\ \A j \in Jobs : ~Active(j)
           /\ tail = None \/ tail \in released
           /\ owner = None
           /\ owner' = Operator
           /\ UNCHANGED <<pc, status, sent, interrupted, tickets, up, next>>

Confirmed == /\ owner = Operator
             /\ ReleaseLock
             /\ UNCHANGED <<pc, status, sent, interrupted, tickets, up, next>>

Next == \/ \E j \in Jobs : Admit(j) \/ Dispatch(j) \/ Post(j) \/ Callback(j) \/ Cancel(j)
        \/ Shutdown
        \/ Confirm
        \/ Confirmed

Spec == Init /\ [][Next]_vars

\* Awaits of a dispatcher end (each has a timeout or ends with the host's
\* answer), the event loop runs callbacks, the operator's request returns.
FairSpec == /\ Spec
            /\ \A j \in Jobs : WF_vars(Dispatch(j)) /\ WF_vars(Callback(j))
            /\ WF_vars(Confirmed)

-----------------------------------------------------------------------------
(* Properties *)

\* A job whose turn has come finds every earlier one settled: nobody jumps
\* across a job that is still to submit, however many between them failed.
AdmissionOrder ==
  \A i, j \in Jobs : i < j /\ pc[j] \in {"ready", "lockwait", "locked", "joining"}
                       => i \in settled

\* While the operator discards the RayLight row no dispatcher that may have
\* posted a prompt is still at work on it, not even one that only cleans up.
OperatorIsAlone ==
  owner = Operator => \A j \in Jobs : Active(j) => j \notin sent

\* Every admitted dispatcher ends, whatever the ones before it do.
DispatchersEnd == \A j \in Jobs : (pc[j] = "accepted") ~> (pc[j] = "done")

\* Every ticket is completed, those left to a callback included.
TicketsComplete == \A j \in Jobs : (pc[j] = "accepted") ~> (j \in released)

-----------------------------------------------------------------------------
(* The inductive invariant of the proofs *)

\* The chain: a predecessor is the job admitted just before; where the chain
\* has been forgotten everybody before is through.
Chain ==
  /\ tail = None \/ tail = next - 1
  /\ tail = None => \A i \in Jobs : i < next => i \in released
  /\ \A j \in Jobs : pc[j] = "idle" <=> j >= next
  /\ \A j \in Jobs : j < next => /\ pred[j] = None \/ pred[j] = j - 1
                                 /\ pred[j] = None => \A i \in Jobs : i < j => i \in released
  /\ \A i, j \in Jobs : i < j /\ j \in released => i \in released

\* A dispatcher is past its turn only behind a released predecessor, and its
\* ticket is settled exactly when it has left the section.
Turns ==
  /\ released \subseteq settled
  /\ \A j \in Jobs : j \in settled <=> pc[j] \in {"cleanup", "publishing", "done"}
  /\ \A j \in Jobs : pc[j] \in {"ready", "lockwait", "locked", "joining"}
                       => pred[j] = None \/ pred[j] \in released

\* Who owns the lock is inside or about to be; the operator has it alone.
LockHeld ==
  /\ \A j \in Jobs : owner = j => pc[j] \in {"locked", "lockwait"}
  /\ \A j \in Jobs : pc[j] = "locked" => owner = j
  /\ \A j \in Jobs : j \in sent => pc[j] \in {"locked", "joining", "cleanup", "publishing", "done"}
  /\ owner = Operator => \A j \in Jobs : pc[j] # "joining" /\ (Active(j) => j \notin sent)
  /\ \A j \in interrupted : Active(j)

TicketInvariant == Chain /\ Turns /\ LockHeld

-----------------------------------------------------------------------------
(* Refinement *)

Inside == {j \in Jobs : pc[j] \in {"locked", "joining"}}
          \cup (IF owner = Operator THEN {Operator} ELSE {})

Fifo == INSTANCE FifoEntry WITH left <- settled, inside <- Inside

\* The chain and the lock implement entry one at a time in admission order.
EntersInOrder == Fifo!Spec
=============================================================================
