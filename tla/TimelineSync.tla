---------------------------- MODULE TimelineSync ----------------------------
(***************************************************************************)
(* How the row of one job follows its segments: the flights that read      *)
(* ComfyUI and aggregate the children, the assembly of the final movie,    *)
(* the cancel requests that preempt them, and a restart of the process     *)
(* (backend/directordeck/app.py, database.py).                             *)
(*                                                                         *)
(* _sync_timeline_job keeps one flight per job: a task whose waiters share *)
(* its result.  The reconciler starts flights that may assemble; every     *)
(* other caller starts one that may not.  A cancel request preempts a      *)
(* flight it cannot join and leaves it an heir for its waiters.            *)
(*                                                                         *)
(* The job has been submitted: every segment has its prompt.  Ownership of *)
(* prompts is the subject of PromptOwnership and is left out here.  One    *)
(* step is the code between two awaits.                                    *)
(***************************************************************************)
EXTENDS Naturals

CONSTANTS Segments,    \* children of the job, numbered in their order
          Requests,    \* HTTP requests to cancel the job
          Reconciler,  \* the task of _run_timeline_reconciler
          Worker,      \* the task of _run_interrupted_submission_recovery
          None,
          MaxFlights,  \* bound: flights alive at one time
          MaxFaults,   \* bound: lost answers, errors of ComfyUI or ffmpeg
          MaxStops     \* bound: times the process stops

Flights == 1..MaxFlights
Actors == Requests \cup {Reconciler, Worker}

ASSUME ConstantAssumption == /\ Segments \subseteq Nat
                             /\ None \notin Flights
                             /\ Reconciler # Worker
                             /\ {Reconciler, Worker} \cap Requests = {}
                             /\ MaxFaults \in Nat /\ MaxStops \in Nat

VARIABLES
  status, stage,  \* of the job's row
  cancel,         \* cancel_requested of the row
  claim,          \* the flight whose claim wrote the row's version, or None
  published,      \* the row of the assembled artifact exists
  kids,           \* kids[s]: state of the child's row
  host,           \* host[s]: what became of the prompt in ComfyUI
  kind,           \* kind[f]: what the flight may do
  phase,          \* phase[f]: where the flight awaits
  seen,           \* flights that found the row cancelling when they began
  doomed,         \* flights cancelled that have not unwound yet
  heir,           \* heir[f]: _director_replacement of a doomed flight
  legacy,         \* legacy[f]: result of an heir that ended first
  current,        \* timeline_sync_tasks[job]
  pc,             \* pc[a]: where the actor awaits
  on,             \* on[a]: the flight it waits for
  got,            \* got[a]: a result it has not taken yet
  todo,           \* todo[a]: children its cancel has yet to visit
  held,           \* actors whose claim on the child they visit is its ownership's revision
  trouble,        \* trouble[a]: a directed cancel failed
  answer,         \* answer[r]: the status a request answered
  up, stops, faults,
  assembles       \* the job exports one movie of several segments

row == <<status, stage, cancel, claim>>
flights == <<kind, phase, seen, doomed, heir, legacy, current>>
actors == <<pc, on, got, todo, held, trouble, answer>>
vars == <<row, published, kids, host, flights, actors, up, stops, faults, assembles>>

Terminal == {"succeeded", "failed", "cancelled"}
Statuses == {"running", "cancelling"} \cup Terminal
Stages == {"working", "segments_ready", "assembling", "assembly_retry",
           "cancelling", "restart", "done"}
\* "restart": a stage of the recovery worker; "external": interrupted in ComfyUI.
KidStates == {"active", "restart", "succeeded", "failed", "cancelled", "external"}
\* "queued" may be running.  Our directed cancel removes a pending prompt and
\* asks a running one to stop ("stopping"), which then may end as "stopped".
HostStates == {"queued", "stopping", "removed", "success", "error", "interrupted", "stopped"}
InQueue(s) == host[s] \in {"queued", "stopping"}
\* A removed prompt leaves no history.
InHistory(s) == ~InQueue(s) /\ host[s] # "removed"
Results == Statuses \cup {"raised", "preempted", "none"}
Ended(s) == kids[s] \notin {"active", "restart"}
AllEnded == \A s \in Segments : Ended(s)

TypeOK ==
  /\ status \in Statuses /\ stage \in Stages /\ cancel \in BOOLEAN
  /\ claim \in Flights \cup {None} /\ published \in BOOLEAN
  /\ kids \in [Segments -> KidStates] /\ host \in [Segments -> HostStates]
  /\ kind \in [Flights -> {"assembly", "sync", "probe"}]
  /\ phase \in [Flights -> {"free", "created", "reading", "observed", "assembling"}]
  /\ seen \subseteq Flights /\ doomed \subseteq Flights
  /\ heir \in [Flights -> Flights \cup {None}]
  /\ legacy \in [Flights -> Results]
  /\ current \in Flights \cup {None}
  /\ pc \in [Actors -> {"idle", "probe", "dispatch", "confirmed", "denied", "errored",
                        "await", "handoff", "over", "dead"}]
  /\ on \in [Actors -> Flights \cup {None}]
  /\ got \in [Actors -> Results]
  /\ todo \in [Actors -> SUBSET Segments] /\ held \subseteq Actors
  /\ trouble \in [Actors -> {"none", "plain", "restart"}]
  /\ answer \in [Requests -> Statuses \cup {"none"}]
  /\ up \in BOOLEAN /\ stops \in 0..MaxStops /\ faults \in 0..MaxFaults
  /\ assembles \in BOOLEAN

Init ==
  /\ status = "running" /\ stage = "working" /\ cancel = FALSE
  /\ claim = None /\ published = FALSE
  /\ kids = [s \in Segments |-> "active"]
  /\ host = [s \in Segments |-> "queued"]
  /\ kind = [f \in Flights |-> "sync"] /\ phase = [f \in Flights |-> "free"]
  /\ seen = {} /\ doomed = {}
  /\ heir = [f \in Flights |-> None] /\ legacy = [f \in Flights |-> "none"]
  /\ current = None
  /\ pc = [a \in Actors |-> "idle"] /\ on = [a \in Actors |-> None]
  /\ got = [a \in Actors |-> "none"]
  /\ todo = [a \in Actors |-> {}] /\ held = {} /\ trouble = [a \in Actors |-> "none"]
  /\ answer = [r \in Requests |-> "none"]
  /\ up = TRUE /\ stops = 0 /\ faults = 0
  /\ assembles \in BOOLEAN

Live(f) == phase[f] # "free"
Fault == faults < MaxFaults /\ faults' = faults + 1

\* Every write of the row takes a new version: a claim does not survive it.
Write(newStatus, newStage) ==
  status' = newStatus /\ stage' = newStage /\ claim' = None

(***************************************************************************)
(* Flights.                                                                *)
(***************************************************************************)
\* _register_timeline_sync_task: f is a new flight and the current one.
Register(f, k) ==
  /\ phase[f] = "free" /\ \A g \in Flights : phase[g] = "free" => f <= g
  /\ phase' = [phase EXCEPT ![f] = "created"]
  /\ kind' = [kind EXCEPT ![f] = k]
  /\ current' = f
  /\ UNCHANGED <<seen, legacy>>

\* A flight ends: its done callback, then the results of those that wait.
\* A waiter of a preempted flight turns to its heir; one that already did,
\* and a request that waits for its own flight, take the cancellation.
EndFlight(f, result) ==
  LET Waits(a) == on[a] = f
      Inherits(a) == Waits(a) /\ result = "preempted" /\ pc[a] = "await"
  IN /\ phase' = [phase EXCEPT ![f] = "free"]
     /\ kind' = [kind EXCEPT ![f] = "sync"]
     /\ seen' = seen \ {f} /\ doomed' = doomed \ {f}
     /\ heir' = [g \in Flights |-> IF g = f \/ heir[g] = f THEN None ELSE heir[g]]
     /\ legacy' = [g \in Flights |-> IF g = f THEN "none"
                                     ELSE IF heir[g] = f THEN result ELSE legacy[g]]
     /\ current' = IF current = f THEN None ELSE current
     /\ on' = [a \in Actors |-> IF Inherits(a) THEN heir[f]
                                ELSE IF Waits(a) THEN None ELSE on[a]]
     /\ got' = [a \in Actors |->
                  IF Inherits(a)
                  THEN IF heir[f] # None THEN "none"
                       ELSE IF legacy[f] # "none" THEN legacy[f] ELSE result
                  ELSE IF Waits(a) THEN result ELSE got[a]]
     /\ pc' = [a \in Actors |-> IF Inherits(a) /\ (heir[f] # None \/ legacy[f] # "none")
                                THEN "handoff" ELSE pc[a]]

\* The end of a flight that wrote the row.
Settle(f, newStatus, newStage) ==
  Write(newStatus, newStage) /\ EndFlight(f, newStatus)

\* Mutant: only the reconciler's flights honour a cancel.
HonorsAssembly(f) == kind[f] = "assembly"


Honors(f) == kind[f] # "probe"
Mine == {s \in Segments : kids[s] = "cancelled"}     \* _DIRECTOR_CANCEL_STAGES
Theirs == {s \in Segments : kids[s] = "external"}    \* _EXTERNAL_CANCEL_STAGES

\* Mutant: the request is forgotten once the row says running again.
RefusedByStatus(f) == AllEnded /\ Honors(f) /\ status = "cancelling"

\* The job's fate when every child has ended and none of the rules of
\* cancellation applies; each rule of the code presumes the earlier ones failed.
Refused(f) == AllEnded /\ Honors(f) /\ (cancel \/ status = "cancelling")
Failed == \E s \in Segments : kids[s] = "failed"
Complete == \A s \in Segments : kids[s] = "succeeded"

\* The aggregation of _sync_timeline_job_once, from the latest row.
Decide(f) ==
  /\ UNCHANGED <<cancel, published, kids, host, todo, held, trouble, answer, up, stops, assembles>>
  /\ \/ /\ status \in Terminal
        /\ EndFlight(f, status)
        /\ UNCHANGED <<status, stage, claim, faults>>
     \/ /\ status \notin Terminal /\ ~AllEnded
        /\ IF status = "cancelling" THEN Settle(f, status, stage)
                                    ELSE Settle(f, "running", "working")
        /\ UNCHANGED faults
     \/ /\ status \notin Terminal /\ Refused(f)
        /\ Settle(f, "cancelled", "done")
        /\ UNCHANGED faults
     \/ /\ status \notin Terminal /\ AllEnded /\ ~Refused(f) /\ Failed
        /\ Settle(f, "failed", "done")
        /\ UNCHANGED faults
     \/ /\ status \notin Terminal /\ AllEnded /\ ~Refused(f) /\ ~Failed /\ ~Complete
        /\ IF ~Honors(f) /\ cancel /\ Theirs = {}
           THEN Settle(f, "cancelling", "cancelling")
           ELSE IF Theirs = Segments THEN Settle(f, "cancelled", "done")
                                     ELSE Settle(f, "failed", "done")
        /\ UNCHANGED faults
     \/ /\ status \notin Terminal /\ ~Refused(f) /\ Complete
        /\ \/ Fault /\ Settle(f, "failed", "done")      \* output_missing
           \/ /\ ~assembles /\ UNCHANGED faults
              /\ Settle(f, "succeeded", "done")
           \/ /\ assembles /\ kind[f] # "assembly" /\ UNCHANGED faults
              /\ Settle(f, "running", "segments_ready")
           \/ /\ assembles /\ kind[f] = "assembly" /\ UNCHANGED faults
              /\ status' = "running" /\ stage' = "assembling" /\ claim' = f
              /\ phase' = [phase EXCEPT ![f] = "assembling"]
              /\ UNCHANGED <<kind, seen, doomed, heir, legacy, current, pc, on, got>>

\* The flight's task starts: it re-reads the row and asks ComfyUI about the
\* children that neither ended nor belong to the recovery worker.
Begin(f) ==
  /\ phase[f] = "created" /\ f \notin doomed
  /\ \/ /\ status \in Terminal \/ (stage = "assembling" /\ kind[f] = "assembly")
        /\ EndFlight(f, status)
        /\ UNCHANGED <<row, published, kids, host, todo, held, trouble, answer, up, stops,
                       faults, assembles>>
     \/ /\ status \notin Terminal /\ ~(stage = "assembling" /\ kind[f] = "assembly")
        /\ \A s \in Segments : kids[s] # "active"
        /\ Decide(f)
     \/ /\ status \notin Terminal /\ ~(stage = "assembling" /\ kind[f] = "assembly")
        /\ \E s \in Segments : kids[s] = "active"
        /\ phase' = [phase EXCEPT ![f] = "reading"]
        /\ seen' = IF status = "cancelling" THEN seen \cup {f} ELSE seen
        /\ UNCHANGED <<row, published, kids, host, kind, doomed, heir, legacy, current,
                       actors, up, stops, faults, assembles>>

Visit(a) == CHOOSE s \in todo[a] : \A t \in todo[a] : s <= t

\* Those whose directed cancel of s is under way.
Rivals(s) == {a \in Actors : pc[a] \in {"confirmed", "denied", "errored"} /\ Visit(a) = s}

\* _sync_timeline_child, from a history entry.
Outcome(s, parentCancelling) ==
  CASE host[s] = "success" -> "succeeded"
    [] host[s] = "error"   -> "failed"
    [] OTHER               -> IF parentCancelling THEN "cancelled" ELSE "external"

\* _sync_timeline_children_batch: queue and history answer; an answer that is
\* lost leaves its child for the next flight, a contradictory one raises.  A
\* prompt that neither lists proves nothing: its child stays open, and its
\* ownership becomes unconfirmed.  Both results overtake every claim.
Read(f) ==
  LET found == {s \in Segments : kids[s] = "active" /\ InHistory(s)}
      absent == {s \in Segments : kids[s] = "active" /\ host[s] = "removed"}
  IN /\ phase[f] = "reading" /\ f \notin doomed
     /\ UNCHANGED <<row, published, host, todo, trouble, answer, up, stops, assembles>>
     /\ \/ \E read \in SUBSET found, missed \in SUBSET absent :
             /\ IF read = found THEN UNCHANGED faults ELSE Fault
             /\ kids' = [s \in Segments |-> IF s \in read THEN Outcome(s, f \in seen)
                                            ELSE kids[s]]
             /\ held' = {a \in held : \A s \in read \cup missed : a \notin Rivals(s)}
             /\ phase' = [phase EXCEPT ![f] = "observed"]
             /\ UNCHANGED <<kind, seen, doomed, heir, legacy, current, pc, on, got>>
        \/ Fault /\ EndFlight(f, "raised") /\ UNCHANGED <<kids, held>>

Aggregate(f) == phase[f] = "observed" /\ f \notin doomed /\ Decide(f)

\* Mutant: the claim is kept.
ReleaseNothing(f) == UNCHANGED <<status, stage, claim>>

\* The claim is given back for a later flight.
Release(f) ==
  IF claim = f THEN status' = "running" /\ stage' = "assembly_retry" /\ claim' = None
  ELSE UNCHANGED <<status, stage, claim>>

\* _assemble_timeline_output returned: finalize_observed_assembly_artifact.
Publish(f) ==
  IF claim = f /\ stage = "assembling" /\ ~cancel
  THEN published' = TRUE /\ Settle(f, "succeeded", "done")
  ELSE UNCHANGED <<published, status, stage, claim>> /\ EndFlight(f, status)

\* ffmpeg, the download or the upload failed: the job fails, or for an
\* unexpected exception the claim is given back.
AssemblyFails(f) ==
  /\ Fault /\ UNCHANGED published
  /\ \/ IF claim = f THEN Settle(f, "failed", "done")
        ELSE EndFlight(f, status) /\ UNCHANGED <<status, stage, claim>>
     \/ Release(f) /\ EndFlight(f, "raised")

Assembled(f) ==
  /\ phase[f] = "assembling" /\ f \notin doomed
  /\ (Publish(f) /\ UNCHANGED faults) \/ AssemblyFails(f)
  /\ UNCHANGED <<cancel, kids, host, todo, held, trouble, answer, up, stops, assembles>>

\* CancelledError reaches a doomed flight.
Unwind(f) ==
  /\ f \in doomed
  /\ IF phase[f] = "assembling" THEN Release(f) ELSE UNCHANGED <<status, stage, claim>>
  /\ EndFlight(f, "preempted")
  /\ UNCHANGED <<cancel, published, kids, host, todo, held, trouble, answer, up, stops, faults,
                 assembles>>

(***************************************************************************)
(* Those who wait for flights.                                             *)
(***************************************************************************)
\* _sync_timeline_job: join the flight, do not queue behind one that may
\* assemble, or start one.
Join(a, k) ==
  /\ pc' = [pc EXCEPT ![a] = "await"]
  /\ IF current = None
     THEN \E f \in Flights : /\ Register(f, k)
                             /\ on' = [on EXCEPT ![a] = f]
                             /\ got' = [got EXCEPT ![a] = "none"]
                             /\ UNCHANGED <<doomed, heir>>
     ELSE /\ UNCHANGED flights
          /\ IF k # "assembly" /\ kind[current] = "assembly"
             THEN /\ got' = [got EXCEPT ![a] = status']
                  /\ on' = [on EXCEPT ![a] = None]
             ELSE /\ on' = [on EXCEPT ![a] = current]
                  /\ got' = [got EXCEPT ![a] = "none"]

\* After a hand-over the result may be a view from before the cancel.
Stale(a) == pc[a] = "handoff" /\ got[a] \in Statuses \ Terminal /\ cancel

Rejoin(a) ==
  /\ up /\ Stale(a)
  /\ Join(a, "sync")
  /\ UNCHANGED <<row, published, kids, host, todo, held, trouble, answer, up, stops, faults,
                 assembles>>

Leave(a, where) ==
  /\ pc' = [pc EXCEPT ![a] = where]
  /\ got' = [got EXCEPT ![a] = "none"]
  /\ UNCHANGED <<on, flights>>

Answered(a) == pc[a] \in {"await", "handoff"} /\ got[a] # "none" /\ ~Stale(a)

\* One pass of the reconciler over the job.
Reconcile ==
  /\ up /\ pc[Reconciler] = "idle" /\ status \notin Terminal
  /\ UNCHANGED row
  /\ Join(Reconciler, "assembly")
  /\ UNCHANGED <<published, kids, host, todo, held, trouble, answer, up, stops, faults, assembles>>

\* An exception is caught, a CancelledError ends the task.
Reconciled ==
  /\ up /\ Answered(Reconciler)
  /\ Leave(Reconciler, IF got[Reconciler] = "preempted" THEN "dead" ELSE "idle")
  /\ UNCHANGED <<row, published, kids, host, todo, held, trouble, answer, up, stops, faults,
                 assembles>>

\* Mutant: a retry preempts the first request's probe.
ClickReplacesProbe(r) ==
  LET first == ~cancel /\ status \notin Terminal
      joins == /\ current # None /\ kind[current] # "assembly"
               /\ (kind[current] # "probe" /\ ~first)
  IN /\ up /\ pc[r] = "idle"
     /\ cancel' = (cancel \/ first)
     /\ IF current # None /\ ~joins /\ status \notin Terminal
        THEN Write("cancelling", "cancelling")
        ELSE /\ UNCHANGED <<status, stage>>
             /\ claim' = IF first THEN None ELSE claim
     /\ pc' = [pc EXCEPT ![r] = "probe"]
     /\ IF joins
        THEN on' = [on EXCEPT ![r] = current] /\ UNCHANGED flights
        ELSE \E f \in Flights :
               /\ Register(f, IF first THEN "probe" ELSE "sync")
               /\ on' = [on EXCEPT ![r] = f]
               /\ doomed' = IF current # None THEN doomed \cup {current} ELSE doomed
               /\ heir' = IF current # None THEN [heir EXCEPT ![current] = f] ELSE heir
     /\ UNCHANGED <<published, kids, host, got, todo, held, trouble, answer, up, stops, faults,
                    assembles>>

\* POST /jobs/{id}/cancel: mark_job_cancel_requested, then
\* _sync_timeline_before_cancel.  The first request probes: it lets a history
\* from before the click win.  A flight that may assemble, or that does not
\* probe while the first request wants to, is preempted.
Click(r) ==
  LET first == ~cancel /\ status \notin Terminal
      joins == /\ current # None /\ kind[current] # "assembly"
               /\ (kind[current] = "probe" \/ ~first)
  IN /\ up /\ pc[r] = "idle"
     /\ cancel' = (cancel \/ first)
     /\ IF current # None /\ ~joins /\ status \notin Terminal
        THEN Write("cancelling", "cancelling")
        ELSE /\ UNCHANGED <<status, stage>>
             /\ claim' = IF first THEN None ELSE claim
     /\ pc' = [pc EXCEPT ![r] = "probe"]
     /\ IF joins
        THEN on' = [on EXCEPT ![r] = current] /\ UNCHANGED flights
        ELSE \E f \in Flights :
               /\ Register(f, IF first THEN "probe" ELSE "sync")
               /\ on' = [on EXCEPT ![r] = f]
               /\ doomed' = IF current # None THEN doomed \cup {current} ELSE doomed
               /\ heir' = IF current # None THEN [heir EXCEPT ![current] = f] ELSE heir
     /\ UNCHANGED <<published, kids, host, got, todo, held, trouble, answer, up, stops, faults,
                    assembles>>

\* Mutant: the row is left as the probe wrote it.
ProbedOnly(r) ==
  /\ up /\ pc[r] = "probe" /\ got[r] # "none"
  /\ Leave(r, IF got[r] \in {"raised", "preempted"} \cup Terminal \/ status \in Terminal
              THEN "over" ELSE "dispatch")
  /\ answer' = IF got[r] \in Terminal THEN [answer EXCEPT ![r] = got[r]] ELSE answer
  /\ UNCHANGED <<status, stage, claim>>
  /\ todo' = IF got[r] \in {"running", "cancelling"} THEN [todo EXCEPT ![r] = Segments] ELSE todo
  /\ UNCHANGED <<cancel, published, kids, host, held, trouble, up, stops, faults, assembles>>

\* _cancel_timeline_job after the first pass: nothing is left to cancel, or
\* the row is made cancelling and the children are visited in their order.
Probed(r) ==
  /\ up /\ pc[r] = "probe" /\ got[r] # "none"
  /\ Leave(r, IF got[r] \in {"raised", "preempted"} \cup Terminal \/ status \in Terminal
              THEN "over" ELSE "dispatch")
  /\ answer' = IF got[r] \in Terminal THEN [answer EXCEPT ![r] = got[r]] ELSE answer
  /\ IF got[r] = "running" /\ status = "running"
     THEN Write("cancelling", "cancelling") ELSE UNCHANGED <<status, stage, claim>>
  /\ todo' = IF got[r] \in {"running", "cancelling"} THEN [todo EXCEPT ![r] = Segments] ELSE todo
  /\ UNCHANGED <<cancel, published, kids, host, held, trouble, up, stops, faults, assembles>>

\* ComfyUI acts on a directed cancel.
DirectedCancel(s) ==
  \/ host[s] = "queued" /\ host' = [host EXCEPT ![s] = "removed"]
  \/ InQueue(s) /\ host' = [host EXCEPT ![s] = "stopping"]

\* The actor claims the child's ownership, joining those who hold it, and its
\* directed cancel reaches ComfyUI, or the request fails, perhaps on its way back.
Send(a) ==
  LET s == Visit(a)
  IN /\ up /\ pc[a] = "dispatch" /\ todo[a] # {}
     /\ UNCHANGED <<row, published, flights, on, got, trouble, answer, up, stops, assembles>>
     /\ IF Ended(s)
        THEN /\ todo' = [todo EXCEPT ![a] = @ \ {s}]
             /\ UNCHANGED <<kids, host, held, pc, faults>>
        ELSE /\ kids' = IF a = Worker THEN [kids EXCEPT ![s] = "restart"] ELSE kids
             /\ held' = held \cup {a}
             /\ UNCHANGED todo
             /\ \/ DirectedCancel(s) /\ UNCHANGED faults
                   /\ pc' = [pc EXCEPT ![a] = "confirmed"]
                \/ ~InQueue(s) /\ UNCHANGED <<host, faults>>
                   /\ pc' = [pc EXCEPT ![a] = "denied"]
                \/ Fault /\ (UNCHANGED host \/ DirectedCancel(s))
                   /\ pc' = [pc EXCEPT ![a] = "errored"]

\* Its answer.  An acknowledgement counts if the claim still holds; any other
\* answer makes the ownership unconfirmed, which overtakes the other claims.
\* A refused cancel is no proof; the worker asks the history too.
Reply(a) ==
  LET s == Visit(a)
  IN /\ up /\ pc[a] \in {"confirmed", "denied", "errored"}
     /\ pc' = [pc EXCEPT ![a] = "dispatch"]
     /\ todo' = [todo EXCEPT ![a] = @ \ {s}]
     /\ held' = IF a \in held THEN held \ Rivals(s) ELSE held
     /\ UNCHANGED <<row, published, host, flights, on, got, answer, up, stops, assembles>>
     /\ IF Ended(s) THEN UNCHANGED <<kids, trouble, faults>>
        ELSE \/ /\ pc[a] = "confirmed" /\ a \in held
                /\ kids' = [kids EXCEPT ![s] = "cancelled"]
                /\ UNCHANGED <<trouble, faults>>
             \/ /\ pc[a] = "confirmed" /\ a \notin held
                /\ trouble' = IF a = Worker THEN [trouble EXCEPT ![a] = "restart"] ELSE trouble
                /\ UNCHANGED <<kids, faults>>
             \/ /\ pc[a] = "denied" /\ a # Worker
                /\ UNCHANGED <<kids, trouble, faults>>
             \/ /\ pc[a] = "denied" /\ a = Worker
                /\ \/ /\ InHistory(s) /\ kids' = [kids EXCEPT ![s] = Outcome(s, TRUE)]
                      /\ UNCHANGED <<trouble, faults>>
                   \/ /\ trouble' = [trouble EXCEPT ![a] = "restart"] /\ UNCHANGED kids
                      /\ IF InHistory(s) THEN Fault ELSE UNCHANGED faults
             \/ /\ pc[a] = "errored" /\ UNCHANGED <<kids, faults>>
                /\ trouble' = [trouble EXCEPT ![a] =
                                 IF kids[s] = "restart" THEN "restart"
                                 ELSE IF @ = "none" THEN "plain" ELSE @]

\* Every child has been visited: a request aggregates once more and answers.
Dispatched(r) ==
  /\ up /\ pc[r] = "dispatch" /\ todo[r] = {}
  /\ IF trouble[r] # "none" /\ status \notin Terminal
     THEN Write("cancelling", IF trouble[r] = "restart" THEN "restart" ELSE "cancelling")
     ELSE UNCHANGED <<status, stage, claim>>
  /\ trouble' = [trouble EXCEPT ![r] = "none"]
  /\ Join(r, "sync")
  /\ UNCHANGED <<cancel, published, kids, host, todo, held, answer, up, stops, faults, assembles>>

Responded(r) ==
  /\ up /\ Answered(r)
  /\ Leave(r, "over")
  /\ answer' = IF got[r] \in Statuses THEN [answer EXCEPT ![r] = got[r]] ELSE answer
  /\ UNCHANGED <<row, published, kids, host, todo, held, trouble, up, stops, faults, assembles>>

\* The recovery worker lists the job by its stage.
Recover ==
  /\ up /\ pc[Worker] = "idle" /\ status = "cancelling" /\ stage = "restart"
  /\ pc' = [pc EXCEPT ![Worker] = "dispatch"]
  /\ todo' = [todo EXCEPT ![Worker] = Segments]
  /\ UNCHANGED <<row, published, kids, host, flights, on, got, held, trouble, answer, up,
                 stops, faults, assembles>>

\* Mutant: a failed pass loses the recovery stage.
RecoveredOnce ==
  /\ up /\ pc[Worker] = "dispatch" /\ todo[Worker] = {}
  /\ trouble' = [trouble EXCEPT ![Worker] = "none"]
  /\ UNCHANGED <<cancel, published, kids, host, todo, held, answer, up, stops, faults, assembles>>
  /\ \/ /\ status \in Terminal
        /\ Leave(Worker, "idle") /\ UNCHANGED <<status, stage, claim>>
     \/ /\ status \notin Terminal /\ trouble[Worker] # "none"
        /\ Leave(Worker, "idle") /\ Write("cancelling", "cancelling")
     \/ /\ status \notin Terminal /\ trouble[Worker] = "none"
        /\ UNCHANGED <<status, stage, claim>>
        /\ Join(Worker, "sync")

\* The end of its pass: a failure keeps the job for the next one.
Recovered ==
  /\ up /\ pc[Worker] = "dispatch" /\ todo[Worker] = {}
  /\ trouble' = [trouble EXCEPT ![Worker] = "none"]
  /\ UNCHANGED <<cancel, published, kids, host, todo, held, answer, up, stops, faults, assembles>>
  /\ \/ /\ status \in Terminal
        /\ Leave(Worker, "idle") /\ UNCHANGED <<status, stage, claim>>
     \/ /\ status \notin Terminal /\ trouble[Worker] # "none"
        /\ Leave(Worker, "idle") /\ Write("cancelling", "restart")
     \/ /\ status \notin Terminal /\ trouble[Worker] = "none"
        /\ UNCHANGED <<status, stage, claim>>
        /\ Join(Worker, "sync")

Rested ==
  /\ up /\ Answered(Worker)
  /\ Leave(Worker, IF got[Worker] = "preempted" THEN "dead" ELSE "idle")
  /\ IF got[Worker] = "raised" /\ status \notin Terminal
     THEN Write("cancelling", "restart") ELSE UNCHANGED <<status, stage, claim>>
  /\ UNCHANGED <<cancel, published, kids, host, todo, held, trouble, answer, up, stops, faults,
                 assembles>>

(***************************************************************************)
(* ComfyUI, and the end of the process.                                    *)
(***************************************************************************)
HostEnds(s) ==
  /\ InQueue(s)
  /\ \E h \in {"success", "error", IF host[s] = "stopping" THEN "stopped" ELSE "interrupted"} :
        host' = [host EXCEPT ![s] = h]
  /\ UNCHANGED <<row, published, kids, flights, actors, up, stops, faults, assembles>>

\* Requests, reconciler and worker end with the process.
Gone ==
  /\ pc' = [a \in Actors |-> IF a \in Requests /\ pc[a] # "idle" THEN "over" ELSE "idle"]
  /\ on' = [a \in Actors |-> None] /\ got' = [a \in Actors |-> "none"]
  /\ todo' = [a \in Actors |-> {}] /\ held' = {} /\ trouble' = [a \in Actors |-> "none"]

Crash ==
  /\ up /\ stops < MaxStops /\ stops' = stops + 1 /\ up' = FALSE
  /\ Gone
  /\ kind' = [f \in Flights |-> "sync"] /\ phase' = [f \in Flights |-> "free"]
  /\ seen' = {} /\ doomed' = {} /\ current' = None
  /\ heir' = [f \in Flights |-> None] /\ legacy' = [f \in Flights |-> "none"]
  /\ claim' = None
  /\ UNCHANGED <<status, stage, cancel, published, kids, host, answer, faults, assembles>>

\* The lifespan's finally: the actors first, then every flight.
Shutdown ==
  /\ up /\ stops < MaxStops /\ stops' = stops + 1 /\ up' = FALSE
  /\ Gone
  /\ UNCHANGED <<row, published, kids, host, flights, answer, faults, assembles>>

CancelFlights ==
  /\ ~up /\ \E f \in Flights : Live(f) /\ f \notin doomed
  /\ doomed' = {f \in Flights : Live(f)}
  /\ UNCHANGED <<row, published, kids, host, kind, phase, seen, heir, legacy, current,
                 actors, up, stops, faults, assembles>>

\* Mutant: the job reads cancelled before its prompts are.
StartupCancels ==
  /\ ~up /\ \A f \in Flights : ~Live(f)
  /\ up' = TRUE
  /\ IF status \notin Terminal /\ cancel
     THEN /\ kids' = [s \in Segments |-> IF Ended(s) THEN kids[s] ELSE "restart"]
          /\ Write("cancelled", "done")
     ELSE /\ UNCHANGED kids
          /\ IF stage = "assembling" THEN Write(status, "assembly_retry")
             ELSE UNCHANGED <<status, stage, claim>>
  /\ UNCHANGED <<cancel, published, host, flights, actors, stops, faults, assembles>>

\* Mutant: a claim of the previous process is kept.
StartupKeepsClaim ==
  /\ ~up /\ \A f \in Flights : ~Live(f)
  /\ up' = TRUE
  /\ IF status \notin Terminal /\ cancel
     THEN /\ kids' = [s \in Segments |-> IF Ended(s) THEN kids[s] ELSE "restart"]
          /\ Write("cancelling", "restart")
     ELSE /\ UNCHANGED kids
          /\ UNCHANGED <<status, stage, claim>>
  /\ UNCHANGED <<cancel, published, host, flights, actors, stops, faults, assembles>>

\* recover_interrupted_assemblies, prepare_interrupted_submissions_for_recovery.
Startup ==
  /\ ~up /\ \A f \in Flights : ~Live(f)
  /\ up' = TRUE
  /\ IF status \notin Terminal /\ cancel
     THEN /\ kids' = [s \in Segments |-> IF Ended(s) THEN kids[s] ELSE "restart"]
          /\ Write("cancelling", "restart")
     ELSE /\ UNCHANGED kids
          /\ IF stage = "assembling" THEN Write(status, "assembly_retry")
             ELSE UNCHANGED <<status, stage, claim>>
  /\ UNCHANGED <<cancel, published, host, flights, actors, stops, faults, assembles>>

Fly(f) == Begin(f) \/ Read(f) \/ Aggregate(f) \/ Assembled(f) \/ Unwind(f)
Act(r) == Probed(r) \/ Dispatched(r) \/ Responded(r)
Wait(a) == Send(a) \/ Reply(a) \/ Rejoin(a)
Reconciling == Reconcile \/ Reconciled
Recovering == Recover \/ Recovered \/ Rested

Next ==
  \/ \E f \in Flights : Fly(f)
  \/ \E r \in Requests : Click(r) \/ Act(r)
  \/ \E a \in Actors : Wait(a)
  \/ Reconciling \/ Recovering
  \/ \E s \in Segments : HostEnds(s)
  \/ Crash \/ Shutdown \/ CancelFlights \/ Startup

Spec == Init /\ [][Next]_vars

\* The event loop runs every task that is ready, ComfyUI's answers and ffmpeg
\* have timeouts, the two background tasks poll, and ComfyUI ends every prompt.
Fairness ==
  /\ \A f \in Flights : WF_vars(Fly(f))
  /\ \A r \in Requests : WF_vars(Act(r))
  /\ \A a \in Actors : WF_vars(Wait(a))
  /\ WF_vars(Reconciling) /\ WF_vars(Recovering)
  /\ \A s \in Segments : WF_vars(HostEnds(s))

FairSpec == Spec /\ Fairness

(***************************************************************************)
(* Properties.                                                             *)
(***************************************************************************)
\* A row that says "assembling" has a live owner: the current flight, which
\* holds the row's version and was not preempted.  No failure, cancel, stop or
\* restart strands the claim (claim_job_stage, recover_interrupted_assemblies).
ClaimHasOwner ==
  up /\ stage = "assembling" =>
    claim # None /\ current = claim /\ phase[claim] = "assembling" /\ claim \notin doomed

\* Once a cancel is requested, every assembly under way is being stopped and a
\* job that needs one never succeeds (_sync_timeline_before_cancel).
NoAssemblyAfterClick ==
  cancel => /\ assembles => status # "succeeded"
            /\ \A f \in Flights : phase[f] = "assembling" => f \in doomed

\* A preempted flight is handed over: neither the two background tasks nor a
\* request take its cancellation for their own and end (_sync_timeline_job,
\* _run_timeline_reconciler).
WaitersSurvive ==
  \A a \in Actors : pc[a] # "dead" /\ got[a] # "preempted"

\* What a directed cancel made of a prompt.
Ours == {"stopping", "removed", "stopped"}

\* If a directed cancel stopped one of its prompts, the job ends as cancelled,
\* whatever became of the others and whoever reads their history.
CancelReadsCancelled ==
  status \in Terminal /\ (\E s \in Segments : host[s] \in Ours) => status = "cancelled"

\* A request to cancel never answers that the job still runs, though its first
\* pass may have put the row back to "running" (_cancel_timeline_job).
AnswersFollowClick == \A r \in Requests : answer[r] # "running"

\* A job ends after all of its children; it succeeds with all of them, and
\* with its movie if it has one; it reads cancelled because of a request, or
\* because every child was interrupted in ComfyUI.
TerminalIsCoherent ==
  /\ status \in Terminal => AllEnded
  /\ status = "succeeded" => Complete
  /\ published <=> (assembles /\ status = "succeeded")
  /\ status = "cancelled" => cancel \/ Theirs = Segments

(***************************************************************************)
(* What makes them inductive.                                              *)
(***************************************************************************)
\* The live flights are the current one and those being cancelled.
Registry ==
  /\ \A f \in doomed : Live(f)
  /\ \A f \in Flights : Live(f) /\ f \notin doomed => current = f
  /\ current # None => Live(current)
  /\ up /\ current # None => current \notin doomed

\* Who holds a claim, and of which job.
Claims ==
  /\ claim # None => /\ phase[claim] = "assembling" /\ status = "running"
                     /\ stage = "assembling" /\ ~cancel /\ Complete /\ assembles
  /\ \A f \in Flights : phase[f] = "assembling" /\ f \notin doomed => claim = f
  /\ stage = "assembling" => status = "running" /\ (up => claim # None)
  /\ up /\ claim # None => claim \notin doomed

\* What is there only because of a request to cancel.
Asked == cancel \/ status \in Terminal
Intents ==
  /\ status = "cancelling" => cancel
  /\ \A r \in Requests : pc[r] # "idle" => Asked
  /\ pc[Worker] # "idle" => cancel
  /\ \A f \in Flights : Live(f) /\ kind[f] # "assembly" => Asked
  /\ \A f \in Flights : Live(f) /\ kind[f] = "probe" => cancel
  /\ assembles /\ cancel => status # "succeeded"

\* Only a flight that may assemble is preempted, and its heir is not one.
HandOver ==
  /\ \A f \in Flights : f \notin doomed => heir[f] = None /\ legacy[f] = "none"
  /\ \A f \in Flights : heir[f] # None => Live(heir[f]) /\ kind[heir[f]] # "assembly"
  /\ \A f \in Flights : up /\ f \in doomed =>
       kind[f] = "assembly" /\ (heir[f] # None \/ legacy[f] # "none")
  /\ \A f \in Flights : legacy[f] # "preempted" \/ ~up
  /\ \A a \in Actors : on[a] # None =>
       /\ up /\ Live(on[a]) /\ pc[a] \in {"probe", "await", "handoff"}
       /\ pc[a] # "await" => kind[on[a]] # "assembly"
  /\ \A a \in Actors : got[a] # "none" =>
       on[a] = None /\ pc[a] \in {"probe", "await", "handoff"}

\* A cancel is settled when the row says so and no probe can put it back.
Settled ==
  /\ status \in {"cancelling"} \cup Terminal
  /\ \A f \in Flights : Live(f) => kind[f] # "probe"

\* What requests and worker know of the cancel they work for.
Heard ==
  /\ \A a \in Requests \cup {Worker} :
       pc[a] \in {"dispatch", "confirmed", "denied", "errored", "await", "handoff"} => Settled
  /\ \A r \in Requests : pc[r] = "probe" =>
       /\ \A f \in Flights : Live(f) /\ kind[f] = "probe" => on[r] = f
       /\ got[r] = "cancelling" => Settled
  /\ \A r \in Requests : on[r] # None => kind[on[r]] # "assembly"
  /\ \A r \in Requests : pc[r] \in {"await", "handoff"} => got[r] # "running"

\* Only a settled cancel stops a prompt or is left to the recovery worker, and
\* whoever goes on from its first pass finds it settled: no probe of another
\* request, and no view from before the click, takes it back.
CancelIsSettled ==
  /\ Heard
  /\ stage = "restart" => Settled
  /\ \A s \in Segments : host[s] \in Ours =>
       Settled /\ status \in {"cancelling", "cancelled"}

\* The registry, the claim, the intents and the hand-over stay consistent.
FlightInvariant == Registry /\ Claims /\ Intents /\ HandOver

\* The prompt of s was removed and nothing can tell any more: no history will
\* come, and nobody who was told holds the claim to book it.
Unaccounted(s) ==
  /\ host[s] = "removed" /\ ~Ended(s)
  /\ \A a \in held \cap Rivals(s) : pc[a] # "confirmed"

\* A requested cancel ends the job, unless the process stops; absence of a prompt
\* being no evidence, one that cannot be accounted for keeps its job open.
CancelEnds ==
  (up /\ cancel) ~> (status \in Terminal \/ ~up \/ \E s \in Segments : Unaccounted(s))

\* Without one the job ends too: a failed or interrupted assembly is retried.
JobEnds == (up /\ ~cancel) ~> (status \in Terminal \/ cancel \/ ~up)
=============================================================================
