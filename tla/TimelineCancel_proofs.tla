------------------------ MODULE TimelineCancel_proofs ------------------------
(***************************************************************************)
(* What a request to cancel answers and what the job then reads: from the  *)
(* invariant of TimelineSync_proofs (Flying, Rowing) by CancelIsSettled.   *)
(***************************************************************************)
EXTENDS TimelineSync_proofs

\* The reconciler cancels nothing.
ReconcilerOnlyWaits == pc[Reconciler] \in {"idle", "await", "handoff", "dead"}

After == {"dispatch", "confirmed", "denied", "errored", "await", "handoff"}
Told == CancelIsSettled /\ AnswersFollowClick
Known == Flying /\ Rowing /\ Told /\ ReconcilerOnlyWaits
Stopped == \E s \in Segments : host[s] \in Ours

\* A row as a settled cancel, or a prompt it has stopped, leaves it.
RowFollows ==
  /\ Settled => status' \in {"cancelling"} \cup Terminal
  /\ Stopped => status' \in {"cancelling", "cancelled"}
  /\ stage' = "restart" => stage = "restart"
  /\ host' = host /\ answer' = answer

\* A flight that ends with what the row then says.
LEMMA EndTells ==
  ASSUME Known, NEW f \in Flights, Live(f), NEW r \in Results \ {"none"}, EndFlight(f, r),
         up' = up, f \in doomed <=> r = "preempted", RowFollows,
         r \in Statuses => status' = r
  PROVE  Told'
<1>1. /\ phase' = [phase EXCEPT ![f] = "free"]
      /\ \A g \in Flights : g # f => kind'[g] = kind[g]
  BY EndEffect DEF Known, Flying
<1>2. \A g \in Flights : phase'[g] # "free" => g # f /\ phase[g] # "free" /\ kind'[g] = kind[g]
  BY <1>1 DEF Known, Flying, FlightTypes
<1>3. Settled => Settled'
  BY <1>2 DEF Settled, Live, RowFollows
<1>4. ASSUME NEW a \in Requests
      PROVE  /\ pc'[a] = pc[a]
             /\ on[a] # f => on'[a] = on[a] /\ got'[a] = got[a]
             /\ on[a] = f => on'[a] = None /\ got'[a] = r
  <2>1. a \in Actors
    BY DEF Actors
  <2>2. ~(on[a] = f /\ r = "preempted" /\ pc[a] = "await")
    <3>1. on[a] = f /\ r = "preempted" => up /\ kind[f] = "assembly"
      BY <2>1, ConstantAssumption DEF Known, Flying, HandOver
    <3>2. on[a] = f => kind[f] # "assembly"
      BY ConstantAssumption DEF Known, Told, CancelIsSettled, Heard
    <3>3. QED
      BY <3>1, <3>2
  <2>3. QED
    BY <2>1, <2>2 DEF EndFlight, Known, Flying, FlightTypes
<1>5. \A a \in Requests \cup {Worker} : pc'[a] \in After => pc[a] \in After
  BY DEF EndFlight, Known, Flying, FlightTypes, Actors, After
<1>6. Heard'
  <2>1. \A a \in Requests \cup {Worker} : pc'[a] \in After => Settled'
    BY <1>3, <1>5 DEF Known, Told, CancelIsSettled, Heard, After
  <2>2. ASSUME NEW a \in Requests, pc'[a] = "probe"
        PROVE  /\ \A g \in Flights : phase'[g] # "free" /\ kind'[g] = "probe" => on'[a] = g
               /\ got'[a] = "cancelling" => Settled'
    <3>1. \A g \in Flights : phase'[g] # "free" /\ kind'[g] = "probe" => on[a] = g /\ g # f
      BY <2>2, <1>2, <1>4 DEF Known, Told, CancelIsSettled, Heard, Live
    <3>2. CASE on[a] = f
      <4>1. \A g \in Flights : phase'[g] # "free" => kind'[g] # "probe"
        BY <3>1, <3>2
      <4>2. got'[a] = "cancelling" => status' = "cancelling"
        BY <1>4, <3>2 DEF Statuses
      <4>3. QED
        BY <4>1, <4>2 DEF Settled, Live
    <3>3. CASE on[a] # f
      BY <2>2, <3>1, <3>3, <1>3, <1>4 DEF Known, Told, CancelIsSettled, Heard
    <3>4. QED
      BY <3>2, <3>3
  <2>3. \A a \in Requests : on'[a] # None => kind'[on'[a]] # "assembly"
    BY <1>1, <1>4 DEF Known, Told, CancelIsSettled, Heard, Flying, FlightTypes, Actors
  <2>4. ASSUME NEW a \in Requests, pc'[a] \in {"await", "handoff"}
        PROVE  got'[a] # "running"
    <3>1. Settled'
      BY <2>4, <2>1 DEF After
    <3>2. r # "running"
      BY <3>1 DEF Settled, Terminal, Statuses
    <3>3. QED
      BY <3>2, <2>4, <1>4 DEF Known, Told, CancelIsSettled, Heard
  <2>5. QED
    BY <2>1, <2>2, <2>3, <2>4 DEF Heard, After, Live
<1>7. stage' = "restart" => Settled'
  BY <1>3 DEF Known, Told, CancelIsSettled, RowFollows
<1>8. \A s \in Segments : host'[s] \in Ours =>
        Settled' /\ status' \in {"cancelling", "cancelled"}
  BY <1>3 DEF Known, Told, CancelIsSettled, RowFollows, Stopped
<1>9. AnswersFollowClick'
  BY DEF RowFollows, Known, Told, AnswersFollowClick
<1>10. QED
  BY <1>6, <1>7, <1>8, <1>9 DEF Told, CancelIsSettled

\* An actor's step: it may make the row cancelling, and goes on only with a
\* settled cancel.
LEMMA ActorTells ==
  ASSUME Known, NEW a \in Actors, NEW k \in {"assembly", "sync"},
         \A f \in Flights :
           \/ phase'[f] = phase[f] /\ kind'[f] = kind[f]
           \/ phase[f] = "free" /\ phase'[f] = "created" /\ kind'[f] = k,
         \A b \in Actors : b # a => pc'[b] = pc[b] /\ on'[b] = on[b] /\ got'[b] = got[b],
         status' = status \/ (status' = "cancelling" /\ status \notin Terminal),
         Settled => \A s \in Segments : host'[s] \in Ours =>
                      host[s] \in Ours \/ status' \in {"cancelling", "cancelled"},
         ~Settled => /\ stage' # "restart"
                     /\ \A s \in Segments : host'[s] \in Ours => host[s] \in Ours,
         a # Reconciler /\ pc'[a] \in After => Settled',
         pc'[a] # "probe",
         a \in Requests => /\ on'[a] # None => kind'[on'[a]] # "assembly"
                           /\ pc'[a] \in {"await", "handoff"} => got'[a] # "running",
         \A r \in Requests : answer'[r] = answer[r] \/ answer'[r] # "running"
  PROVE  Told'
<1>1. Settled => Settled'
  BY DEF Settled, Live, Terminal
<1>2. Requests \cup {Worker} \subseteq Actors /\ Reconciler \notin Requests \cup {Worker}
  BY ConstantAssumption DEF Actors
<1>3. ASSUME NEW b \in Requests, b # a
      PROVE  /\ pc'[b] = "probe" =>
                  /\ \A f \in Flights : Live(f)' /\ kind'[f] = "probe" => on'[b] = f
                  /\ got'[b] = "cancelling" => Settled'
             /\ on'[b] # None => kind'[on'[b]] # "assembly"
             /\ pc'[b] \in {"await", "handoff"} => got'[b] # "running"
  <2>1. b \in Actors /\ pc'[b] = pc[b] /\ on'[b] = on[b] /\ got'[b] = got[b]
    BY <1>2, <1>3
  <2>2. \A f \in Flights : Live(f)' /\ kind'[f] = "probe" => Live(f) /\ kind[f] = "probe"
    BY DEF Live
  <2>3. on[b] # None => on[b] \in Flights /\ Live(on[b])
    BY <2>1 DEF Known, Flying, FlightTypes, HandOver
  <2>4. on[b] # None => kind'[on[b]] = kind[on[b]]
    BY <2>3 DEF Live
  <2>5. QED
    BY <2>1, <2>2, <2>4, <1>1 DEF Known, Told, CancelIsSettled, Heard
<1>4. \A b \in Requests \cup {Worker} : pc'[b] \in After => Settled'
  BY <1>1, <1>2 DEF Known, Told, CancelIsSettled, Heard, After
<1>5. Heard'
  BY <1>3, <1>4 DEF Heard, After
<1>6. stage' = "restart" => Settled'
  BY <1>1
<1>7. \A s \in Segments : host'[s] \in Ours =>
        Settled' /\ status' \in {"cancelling", "cancelled"}
  BY <1>1 DEF Known, Told, CancelIsSettled, Terminal
<1>8. AnswersFollowClick'
  BY DEF Known, Told, AnswersFollowClick
<1>9. QED
  BY <1>5, <1>6, <1>7, <1>8 DEF Told, CancelIsSettled

\* What a stopped prompt says of the row.
LEMMA StoppedFacts ==
  ASSUME Known
  PROVE  /\ Stopped => Settled /\ status \in {"cancelling", "cancelled"}
         /\ Settled /\ status \notin Terminal => status = "cancelling" /\ cancel
         /\ claim # None => ~Settled /\ ~Stopped
BY DEF Known, Told, CancelIsSettled, Stopped, Settled, Rowing, Claims, Intents, Terminal

LEMMA DecideTells ==
  ASSUME Known, NEW f \in Flights, Live(f), f \notin doomed, Decide(f)
  PROVE  Told'
<1>1. UNCHANGED <<cancel, published, kids, host, todo, held, trouble, answer, up, stops, assembles>>
  BY DEF Decide
<1>2. Settled => kind[f] # "probe"
  BY DEF Settled
<1>3. CASE status \in Terminal /\ EndFlight(f, status) /\ UNCHANGED <<status, stage, claim, faults>>
  <2>1. status \in Results \ {"none"} /\ status # "preempted"
    BY <1>3 DEF Results, Statuses, Terminal
  <2>2. RowFollows
    BY <1>1, <1>3, StoppedFacts DEF RowFollows, Settled
  <2>3. QED
    BY <1>1, <1>3, <2>1, <2>2, EndTells
<1>4. ASSUME NEW st \in Statuses, NEW sg \in Stages, Settle(f, st, sg), status \notin Terminal,
             sg = "restart" => stage = "restart",
             status = "cancelling" /\ kind[f] # "probe" => st \in {"cancelling", "cancelled"}
      PROVE  Told'
  <2>1. /\ EndFlight(f, st) /\ status' = st /\ stage' = sg
        /\ st \in Results \ {"none"} /\ st # "preempted"
    BY <1>4 DEF Settle, Write, Results, Statuses, Terminal
  <2>2. Settled \/ Stopped => st \in {"cancelling", "cancelled"}
    BY <1>2, <1>4, StoppedFacts
  <2>3. RowFollows
    BY <1>1, <1>4, <2>1, <2>2 DEF RowFollows, Terminal
  <2>4. QED
    BY <1>1, <2>1, <2>3, EndTells
<1>5. Complete => AllEnded
  BY DEF Complete, AllEnded, Ended
<1>6. status = "cancelling" /\ kind[f] # "probe" /\ AllEnded => Refused(f)
  BY DEF Refused, Honors
<1>7. CASE status \notin Terminal /\ ~AllEnded
           /\ IF status = "cancelling" THEN Settle(f, status, stage)
                                      ELSE Settle(f, "running", "working")
  BY <1>4, <1>7 DEF Statuses, Stages, Known, Rowing, RowTypes
<1>8. CASE status \notin Terminal /\ Refused(f) /\ Settle(f, "cancelled", "done")
  BY <1>4, <1>8 DEF Statuses, Stages, Terminal
<1>9. CASE /\ status \notin Terminal /\ ~Refused(f) /\ AllEnded
           /\ \E st \in Statuses, sg \in {"done", "cancelling", "segments_ready"} :
                Settle(f, st, sg)
  BY <1>4, <1>6, <1>9 DEF Stages
<1>10. CASE /\ status \notin Terminal /\ ~Refused(f) /\ Complete
            /\ kind[f] = "assembly"
            /\ status' = "running" /\ stage' = "assembling" /\ claim' = f
            /\ phase' = [phase EXCEPT ![f] = "assembling"]
            /\ UNCHANGED <<kind, seen, doomed, heir, legacy, current, pc, on, got>>
  <2>1. ~Settled /\ ~Stopped
    BY <1>5, <1>6, <1>10, StoppedFacts
  <2>2. \A g \in Flights : Live(g)' => Live(g)
    BY <1>10 DEF Live, Known, Flying, FlightTypes
  <2>3. Heard'
    BY <1>10, <2>1, <2>2 DEF Known, Told, CancelIsSettled, Heard
  <2>4. QED
    BY <1>1, <1>10, <2>1, <2>3 DEF Known, Told, CancelIsSettled, Stopped, AnswersFollowClick
<1>11. QED
  BY <1>3, <1>5, <1>7, <1>8, <1>9, <1>10 DEF Decide, Statuses, Terminal

LEMMA BeginTells ==
  ASSUME Known, NEW f \in Flights, Begin(f)
  PROVE  Told'
<1>1. Live(f) /\ f \notin doomed
  BY DEF Begin, Live
<1>2. CASE EndFlight(f, status) /\ UNCHANGED <<row, published, kids, host, todo, held, trouble,
                                              answer, up, stops, faults, assembles>>
  <2>1. status \in Results \ {"none"} /\ status # "preempted"
    BY DEF Results, Statuses, Terminal, Known, Rowing, RowTypes
  <2>2. RowFollows
    BY <1>2, StoppedFacts DEF RowFollows, row, Settled
  <2>3. QED
    BY <1>1, <1>2, <2>1, <2>2, EndTells DEF row
<1>3. CASE Decide(f)
  BY <1>1, <1>3, DecideTells
<1>4. CASE /\ phase' = [phase EXCEPT ![f] = "reading"]
           /\ UNCHANGED <<row, published, kids, host, kind, doomed, heir, legacy, current,
                          actors, up, stops, faults, assembles>>
  <2>1. \A g \in Flights : Live(g)' <=> Live(g)
    BY <1>1, <1>4 DEF Live, Known, Flying, FlightTypes
  <2>2. Settled' <=> Settled
    BY <1>4, <2>1 DEF Settled, row
  <2>3. QED
    BY <1>4, <2>1, <2>2 DEF Known, Told, CancelIsSettled, Heard, AnswersFollowClick, row, actors
<1>5. QED
  BY <1>2, <1>3, <1>4 DEF Begin

LEMMA ReadTells ==
  ASSUME Known, NEW f \in Flights, Read(f)
  PROVE  Told'
<1>1. /\ Live(f) /\ f \notin doomed /\ phase[f] = "reading"
      /\ UNCHANGED <<row, published, host, todo, trouble, answer, up, stops, assembles>>
  BY DEF Read, Live
<1>2. CASE /\ phase' = [phase EXCEPT ![f] = "observed"]
           /\ UNCHANGED <<kind, seen, doomed, heir, legacy, current, pc, on, got>>
  <2>1. \A g \in Flights : Live(g)' <=> Live(g)
    BY <1>1, <1>2 DEF Live, Known, Flying, FlightTypes
  <2>2. Settled' <=> Settled
    BY <1>1, <1>2, <2>1 DEF Settled, row
  <2>3. QED
    BY <1>1, <1>2, <2>1, <2>2 DEF Known, Told, CancelIsSettled, Heard, AnswersFollowClick, row
<1>3. CASE EndFlight(f, "raised")
  <2>1. RowFollows
    BY <1>1, StoppedFacts DEF RowFollows, row, Settled
  <2>2. QED
    BY <1>1, <1>3, <2>1, EndTells DEF Results, Statuses, Terminal
<1>4. QED
  BY <1>2, <1>3 DEF Read

LEMMA AssembledTells ==
  ASSUME Known, NEW f \in Flights, Assembled(f)
  PROVE  Told'
<1>1. /\ Live(f) /\ f \notin doomed
      /\ UNCHANGED <<cancel, kids, host, todo, held, trouble, answer, up, stops, assembles>>
  BY DEF Assembled, Live
<1>2. claim = f /\ stage = "assembling" /\ ~cancel
  BY ConstantAssumption DEF Assembled, Known, Rowing, Claims
<1>3. ~Settled /\ ~Stopped /\ status = "running"
  BY <1>2, ConstantAssumption, StoppedFacts DEF Known, Rowing, Claims
<1>4. PICK r \in {"succeeded", "failed", "raised"} :
        EndFlight(f, r) /\ (r \in Statuses => status' = r) /\ stage' # "restart"
  BY <1>2 DEF Assembled, Publish, AssemblyFails, Release, Settle, Write, Statuses, Terminal
<1>5. RowFollows
  BY <1>1, <1>3, <1>4 DEF RowFollows, Terminal
<1>6. QED
  BY <1>1, <1>4, <1>5, EndTells DEF Results, Statuses, Terminal

LEMMA UnwindTells ==
  ASSUME Known, NEW f \in Flights, Unwind(f)
  PROVE  Told'
<1>1. /\ Live(f) /\ f \in doomed /\ EndFlight(f, "preempted")
      /\ UNCHANGED <<cancel, host, answer, up>>
  BY DEF Unwind, Known, Flying, Registry
<1>2. RowFollows
  <2>1. CASE claim = f
    <3>1. status = "running" /\ ~Stopped /\ stage' # "restart"
      BY <2>1, ConstantAssumption, StoppedFacts DEF Unwind, Release, Known, Rowing, Claims
    <3>2. QED
      BY <1>1, <3>1 DEF RowFollows, Terminal, Settled
  <2>2. CASE claim # f
    BY <1>1, <2>2, StoppedFacts DEF Unwind, Release, RowFollows, Settled
  <2>3. QED
    BY <2>1, <2>2
<1>3. QED
  BY <1>1, <1>2, EndTells DEF Results, Statuses, Terminal

\* Who joins a flight of his own cancel is not told that the job runs.
LEMMA JoinTells ==
  ASSUME FlightTypes, NEW a \in Actors, NEW k \in {"assembly", "sync"}, Join(a, k)
  PROVE  /\ \A b \in Actors : b # a => pc'[b] = pc[b] /\ on'[b] = on[b] /\ got'[b] = got[b]
         /\ pc'[a] = "await"
         /\ k = "sync" /\ status' # "running" =>
              /\ on'[a] # None => kind'[on'[a]] # "assembly"
              /\ got'[a] # "running"
<1>1. CASE current = None
  <2>1. PICK f \in Flights : /\ Register(f, k) /\ on' = [on EXCEPT ![a] = f]
                             /\ got' = [got EXCEPT ![a] = "none"]
                             /\ pc' = [pc EXCEPT ![a] = "await"]
    BY <1>1 DEF Join
  <2>2. QED
    BY <2>1 DEF Register, FlightTypes
<1>2. CASE current # None
  BY <1>2 DEF Join, flights, FlightTypes
<1>3. QED
  BY <1>1, <1>2

\* Who moves on without a flight.
LEMMA LeaveTells ==
  ASSUME FlightTypes, NEW a \in Actors, NEW where, Leave(a, where)
  PROVE  /\ \A b \in Actors : b # a => pc'[b] = pc[b] /\ on'[b] = on[b] /\ got'[b] = got[b]
         /\ pc'[a] = where /\ on'[a] = on[a] /\ got'[a] = "none"
         /\ \A f \in Flights : phase'[f] = phase[f] /\ kind'[f] = kind[f]
BY DEF Leave, flights, FlightTypes

LEMMA RejoinTells ==
  ASSUME Known, NEW a \in Actors, Rejoin(a)
  PROVE  Told'
<1>1. Join(a, "sync") /\ UNCHANGED <<row, host, answer>> /\ pc[a] = "handoff" /\ FlightTypes
  BY DEF Rejoin, Stale, Known, Flying
<1>2. \A f \in Flights : \/ phase'[f] = phase[f] /\ kind'[f] = kind[f]
                         \/ phase[f] = "free" /\ phase'[f] = "created" /\ kind'[f] = "sync"
  BY <1>1, JoinEffect
<1>3. a # Reconciler => Settled
  BY <1>1 DEF Known, Told, CancelIsSettled, Heard, Actors
<1>4. Settled => Settled'
  BY <1>1, <1>2 DEF Settled, Live, row
<1>5. Settled => status' # "running"
  BY <1>1 DEF Settled, row, Terminal
<1>6. a \in Requests => a # Reconciler
  BY ConstantAssumption
<1>7. ~Settled => stage' # "restart"
  BY <1>1 DEF row, Known, Told, CancelIsSettled
<1>8. QED
  BY <1>1, <1>2, <1>3, <1>4, <1>5, <1>6, <1>7, JoinTells, ActorTells DEF row

LEMMA ReconcileTells ==
  ASSUME Known, Reconcile
  PROVE  Told'
<1>1. /\ Join(Reconciler, "assembly") /\ UNCHANGED <<row, host, answer>>
      /\ FlightTypes /\ Reconciler \in Actors
  BY DEF Reconcile, Known, Flying, row, Actors
<1>2. \A f \in Flights : \/ phase'[f] = phase[f] /\ kind'[f] = kind[f]
                         \/ phase[f] = "free" /\ phase'[f] = "created" /\ kind'[f] = "assembly"
  BY <1>1, JoinEffect
<1>3. Reconciler \notin Requests
  BY ConstantAssumption
<1>4. ~Settled => stage' # "restart"
  BY <1>1 DEF row, Known, Told, CancelIsSettled
<1>5. QED
  BY <1>1, <1>2, <1>3, <1>4, JoinTells, ActorTells DEF row

LEMMA ReconciledTells ==
  ASSUME Known, Reconciled
  PROVE  Told'
<1>1. PICK where \in {"idle", "dead"} : Leave(Reconciler, where)
  BY DEF Reconciled
<1>2. FlightTypes /\ Reconciler \in Actors /\ Reconciler \notin Requests
      /\ UNCHANGED <<row, host, answer>>
  BY ConstantAssumption DEF Reconciled, Known, Flying, Actors
<1>3. ~Settled => stage' # "restart"
  BY <1>2 DEF row, Known, Told, CancelIsSettled
<1>4. QED
  BY <1>1, <1>2, <1>3, LeaveTells, ActorTells DEF row

\* The first pass is over: its probe is gone, and the row is cancelling.
LEMMA ProbedTells ==
  ASSUME Known, NEW r \in Requests, Probed(r)
  PROVE  Told'
<1>1. PICK where \in {"dispatch", "over"} :
        /\ Leave(r, where)
        /\ where = "dispatch" => got[r] \notin {"raised", "preempted"} \cup Terminal
                                 /\ status \notin Terminal
  BY DEF Probed
<1>2. /\ pc[r] = "probe" /\ got[r] # "none" /\ got[r] \in Results /\ r \in Actors
      /\ FlightTypes /\ host' = host /\ status \in Statuses
  BY DEF Probed, Known, Flying, FlightTypes, Actors, Rowing, RowTypes
<1>3. on[r] = None /\ \A f \in Flights : Live(f) => kind[f] # "probe"
  <2>1. on[r] = None
    BY <1>2 DEF Known, Flying, HandOver
  <2>2. QED
    BY <2>1, <1>2, ConstantAssumption DEF Known, Told, CancelIsSettled, Heard
<1>4. IF got[r] = "running" /\ status = "running"
      THEN status' = "cancelling" /\ stage' = "cancelling"
      ELSE status' = status /\ stage' = stage
  BY DEF Probed, Write
<1>5. where = "dispatch" => status' \in {"cancelling"} \cup Terminal
  <2>1. where = "dispatch" => got[r] \in {"running", "cancelling"}
    BY <1>1, <1>2 DEF Results, Statuses
  <2>2. got[r] = "cancelling" => status # "running"
    BY <1>2 DEF Known, Told, CancelIsSettled, Heard, Settled, Terminal
  <2>3. QED
    BY <2>1, <2>2, <1>2, <1>4 DEF Statuses, Terminal
<1>6. where = "dispatch" => Settled'
  BY <1>1, <1>2, <1>3, <1>5, LeaveTells DEF Settled, Live
<1>7. ~Settled => stage' # "restart"
  BY <1>4 DEF Known, Told, CancelIsSettled
<1>8. \A q \in Requests : answer'[q] = answer[q] \/ answer'[q] # "running"
  BY DEF Probed, Terminal, Known, Rowing, RowTypes
<1>9. QED
  BY <1>1, <1>2, <1>3, <1>4, <1>6, <1>7, <1>8, LeaveTells, ActorTells DEF After, Terminal

LEMMA RespondedTells ==
  ASSUME Known, NEW r \in Requests, Responded(r)
  PROVE  Told'
<1>1. /\ Leave(r, "over") /\ got[r] # "none" /\ pc[r] \in {"await", "handoff"} /\ r \in Actors
      /\ FlightTypes /\ UNCHANGED <<row, host>>
  BY DEF Responded, Answered, Known, Flying, Actors
<1>2. got[r] # "running" /\ on[r] = None
  BY <1>1 DEF Known, Told, CancelIsSettled, Heard, Flying, HandOver
<1>3. \A q \in Requests : answer'[q] = answer[q] \/ answer'[q] # "running"
  BY <1>2 DEF Responded, Known, Rowing, RowTypes
<1>4. ~Settled => stage' # "restart"
  BY <1>1 DEF row, Known, Told, CancelIsSettled
<1>5. QED
  BY <1>1, <1>2, <1>3, <1>4, LeaveTells, ActorTells DEF After, row

LEMMA RestedTells ==
  ASSUME Known, Rested
  PROVE  Told'
<1>1. PICK where \in {"idle", "dead"} : Leave(Worker, where)
  BY DEF Rested
<1>2. /\ pc[Worker] \in {"await", "handoff"} /\ Worker \in Actors /\ Worker \notin Requests
      /\ FlightTypes /\ UNCHANGED <<host, answer>>
      /\ \/ status' = status /\ stage' = stage
         \/ status' = "cancelling" /\ status \notin Terminal
  BY ConstantAssumption DEF Rested, Answered, Known, Flying, Actors, Write
<1>3. Settled
  BY <1>2 DEF Known, Told, CancelIsSettled, Heard
<1>4. QED
  BY <1>1, <1>2, <1>3, LeaveTells, ActorTells DEF After

\* A directed cancel is sent, or its answer taken, with a settled cancel.
LEMMA MoveTells ==
  ASSUME Known, NEW a \in Requests \cup {Worker}, Settled, NEW where \in After \ {"await", "handoff"},
         pc' = [pc EXCEPT ![a] = where], pc[a] \in {"idle"} \cup (After \ {"await", "handoff"}),
         UNCHANGED <<row, flights, on, got, answer>>,
         host' = host \/ status = "cancelling"
  PROVE  Told'
<1>1. a \in Actors /\ Reconciler # a /\ on[a] = None
  BY ConstantAssumption DEF Actors, After, Known, Flying, HandOver
<1>2. /\ \A f \in Flights : phase'[f] = phase[f] /\ kind'[f] = kind[f]
      /\ \A b \in Actors : b # a => pc'[b] = pc[b] /\ on'[b] = on[b] /\ got'[b] = got[b]
      /\ pc'[a] = where /\ on'[a] = None /\ status' = status
  BY <1>1 DEF flights, Known, Flying, FlightTypes, row
<1>3. Settled'
  BY <1>2 DEF Settled, Live
<1>4. QED
  BY <1>1, <1>2, <1>3, ActorTells DEF After

LEMMA SendTells ==
  ASSUME Known, NEW a \in Requests \cup {Worker}, Send(a)
  PROVE  Told'
<1> DEFINE s == Visit(a)
<1>1. /\ pc[a] = "dispatch" /\ todo[a] # {}
      /\ UNCHANGED <<row, flights, on, got, answer>>
      /\ host' = host \/ ~Ended(s)
  BY DEF Send
<1>2. Settled
  BY <1>1 DEF Known, Told, CancelIsSettled, Heard
<1>3. host' = host \/ status = "cancelling"
  <2>1. \A t \in Segments : host'[t] = host[t] \/ s \in Segments
    BY DEF Send, DirectedCancel, Known, Rowing, RowTypes
  <2>2. s \in Segments /\ ~Ended(s) => status = "cancelling"
    BY <1>2, StoppedFacts DEF Known, Rowing, TerminalIsCoherent, AllEnded
  <2>3. host' \in [Segments -> HostStates] /\ host \in [Segments -> HostStates]
    BY DEF Send, DirectedCancel, Known, Rowing, RowTypes, HostStates
  <2>4. QED
    BY <1>1, <2>1, <2>2, <2>3
<1>4. PICK where \in After \ {"await", "handoff"} : pc' = [pc EXCEPT ![a] = where]
  BY <1>1 DEF Send, After, Known, Flying, FlightTypes
<1>5. QED
  BY <1>1, <1>2, <1>3, <1>4, MoveTells DEF After

LEMMA ReplyTells ==
  ASSUME Known, NEW a \in Requests \cup {Worker}, Reply(a)
  PROVE  Told'
<1>1. /\ pc[a] \in {"confirmed", "denied", "errored"}
      /\ pc' = [pc EXCEPT ![a] = "dispatch"]
      /\ UNCHANGED <<row, flights, on, got, answer, host>>
  BY DEF Reply
<1>2. Settled
  BY <1>1 DEF Known, Told, CancelIsSettled, Heard
<1>3. QED
  BY <1>1, <1>2, MoveTells DEF After

LEMMA RecoverTells ==
  ASSUME Known, Recover
  PROVE  Told'
<1>1. /\ pc[Worker] = "idle" /\ stage = "restart" /\ pc' = [pc EXCEPT ![Worker] = "dispatch"]
      /\ UNCHANGED <<row, flights, on, got, answer, host>>
  BY DEF Recover
<1>2. QED
  BY <1>1, MoveTells DEF After, Known, Told, CancelIsSettled

\* The last aggregation of a request or of the worker's pass.
LEMMA LastJoinTells ==
  ASSUME Known, NEW a \in Requests \cup {Worker}, pc[a] = "dispatch", Join(a, "sync"),
         UNCHANGED <<host, answer>>,
         \/ status' = status /\ stage' = stage
         \/ status' = "cancelling" /\ status \notin Terminal
  PROVE  Told'
<1>1. a \in Actors /\ Reconciler # a /\ FlightTypes
  BY ConstantAssumption DEF Actors, Known, Flying
<1>2. \A f \in Flights : \/ phase'[f] = phase[f] /\ kind'[f] = kind[f]
                         \/ phase[f] = "free" /\ phase'[f] = "created" /\ kind'[f] = "sync"
  BY <1>1, JoinEffect
<1>3. Settled
  BY DEF Known, Told, CancelIsSettled, Heard
<1>4. Settled' /\ status' # "running"
  BY <1>2, <1>3 DEF Settled, Live, Terminal
<1>5. QED
  BY <1>1, <1>2, <1>3, <1>4, JoinTells, ActorTells

LEMMA DispatchedTells ==
  ASSUME Known, NEW r \in Requests, Dispatched(r)
  PROVE  Told'
BY LastJoinTells DEF Dispatched, Write

LEMMA RecoveredTells ==
  ASSUME Known, Recovered
  PROVE  Told'
<1>1. CASE Join(Worker, "sync") /\ UNCHANGED <<status, stage, claim>>
  BY <1>1, LastJoinTells DEF Recovered
<1>2. CASE /\ Leave(Worker, "idle")
           /\ \/ status' = status /\ stage' = stage
              \/ status' = "cancelling" /\ status \notin Terminal
  <2>1. /\ Worker \in Actors /\ Worker \notin Requests /\ Worker # Reconciler
        /\ FlightTypes /\ UNCHANGED <<host, answer>> /\ pc[Worker] = "dispatch"
    BY ConstantAssumption DEF Recovered, Known, Flying, Actors
  <2>2. Settled
    BY <2>1 DEF Known, Told, CancelIsSettled, Heard
  <2>3. QED
    BY <1>2, <2>1, <2>2, LeaveTells, ActorTells DEF After
<1>3. QED
  BY <1>1, <1>2 DEF Recovered, Write

LEMMA HostEndsTells ==
  ASSUME Known, NEW s \in Segments, HostEnds(s)
  PROVE  Told'
<1>1. /\ UNCHANGED <<row, flights, actors, answer>>
      /\ \A t \in Segments : host'[t] \in Ours => host[t] \in Ours
  BY DEF HostEnds, InQueue, Ours, actors, Known, Rowing, RowTypes
<1>2. Settled' <=> Settled
  BY <1>1 DEF Settled, Live, row, flights
<1>3. QED
  BY <1>1, <1>2 DEF Known, Told, CancelIsSettled, Heard, AnswersFollowClick, Live, row, flights,
     actors

\* A first request finds no other that waits for its own probe.
LEMMA ClickTells ==
  ASSUME Known, NEW r \in Requests, Click(r)
  PROVE  Told'
<1> DEFINE first == ~cancel /\ status \notin Terminal
           joins == /\ current # None /\ kind[current] # "assembly"
                    /\ (kind[current] = "probe" \/ ~first)
<1> HIDE DEF first, joins
<1>1. /\ up /\ pc[r] = "idle" /\ r \in Actors
      /\ pc' = [pc EXCEPT ![r] = "probe"] /\ UNCHANGED <<host, got, answer>>
      /\ \/ status' = status /\ stage' = stage
         \/ status' = "cancelling" /\ stage' = "cancelling" /\ status \notin Terminal
  BY DEF Click, Actors, Write
<1>2. \A q \in Requests : first => pc[q] = "idle"
  BY DEF first, Known, Rowing, Intents, Asked
<1>3. Settled => ~first
  BY StoppedFacts DEF first
<1>4. on[r] = None /\ got[r] = "none"
  BY <1>1 DEF Known, Flying, HandOver
<1>5. \A f \in Flights : Live(f) /\ kind[f] = "probe" => current = f /\ ~first
  BY <1>1, ConstantAssumption DEF Known, Flying, Registry, HandOver, Rowing, Intents, first
<1>6. CASE joins /\ on' = [on EXCEPT ![r] = current] /\ UNCHANGED flights
  <2>1. Settled => Settled'
    BY <1>1, <1>6 DEF Settled, Live, flights, Terminal
  <2>2. current \in Flights /\ kind[current] # "assembly"
    BY <1>6 DEF joins, Known, Flying, FlightTypes
  <2>3. Heard'
    BY <1>1, <1>4, <1>5, <1>6, <2>1, <2>2
       DEF Known, Told, CancelIsSettled, Heard, flights, Live, Flying, FlightTypes, Actors
  <2>4. QED
    BY <1>1, <2>1, <2>3 DEF Known, Told, CancelIsSettled, AnswersFollowClick, Terminal
<1>7. ASSUME NEW f \in Flights, ~joins, Register(f, IF first THEN "probe" ELSE "sync"),
             on' = [on EXCEPT ![r] = f]
      PROVE  Told'
  <2>1. PICK k \in {"probe", "sync"} : Register(f, k) /\ (k = "probe" <=> first)
    BY <1>7
  <2>2. /\ phase[f] = "free" /\ kind'[f] = k
        /\ \A g \in Flights : g # f => phase'[g] = phase[g] /\ kind'[g] = kind[g]
    BY <2>1 DEF Register, Known, Flying, FlightTypes
  <2>3. \A g \in Flights : Live(g) => kind[g] # "probe"
    BY <1>5, <1>7, ConstantAssumption DEF joins
  <2>4. Settled => Settled'
    BY <1>1, <1>3, <2>1, <2>2, <2>3 DEF Settled, Live, Terminal
  <2>5. \A q \in Requests : q # r => pc'[q] = pc[q] /\ on'[q] = on[q] /\ got'[q] = got[q]
    BY <1>1, <1>7 DEF Known, Flying, FlightTypes, Actors
  <2>6. pc'[r] = "probe" /\ on'[r] = f /\ got'[r] = "none" /\ pc'[Worker] = pc[Worker]
    BY <1>1, <1>4, <1>7, ConstantAssumption DEF Known, Flying, FlightTypes, Actors
  <2>7. \A q \in Requests : on[q] # None => on[q] \in Flights /\ on[q] # f
    BY <2>2 DEF Known, Flying, FlightTypes, HandOver, Live, Actors
  <2>8. \A q \in Requests \cup {Worker} : pc'[q] \in After => Settled'
    BY <2>4, <2>5, <2>6 DEF Known, Told, CancelIsSettled, Heard, After
  <2>9. \A q \in Requests : pc'[q] = "probe" =>
          /\ \A g \in Flights : Live(g)' /\ kind'[g] = "probe" => on'[q] = g
          /\ got'[q] = "cancelling" => Settled'
    <3>1. \A g \in Flights : Live(g)' /\ kind'[g] = "probe" => g = f /\ first
      BY <2>1, <2>2, <2>3 DEF Live
    <3>2. QED
      BY <3>1, <1>2, <2>4, <2>5, <2>6 DEF Known, Told, CancelIsSettled, Heard
  <2>10. \A q \in Requests : on'[q] # None => kind'[on'[q]] # "assembly"
    BY <2>2, <2>5, <2>6, <2>7 DEF Known, Told, CancelIsSettled, Heard
  <2>11. Heard'
    BY <2>5, <2>6, <2>8, <2>9, <2>10 DEF Known, Told, CancelIsSettled, Heard, After
  <2>12. QED
    BY <1>1, <2>4, <2>11 DEF Known, Told, CancelIsSettled, AnswersFollowClick, Terminal
<1>8. QED
  BY <1>6, <1>7 DEF Click, joins, first

\* The process stops: requests, worker and their waits are gone.
LEMMA StopTells ==
  ASSUME Known, Gone, UNCHANGED <<status, stage, host, answer>>,
         \A f \in Flights : Live(f)' => Live(f) /\ kind'[f] = kind[f]
  PROVE  Told'
<1>1. Settled => Settled'
  BY DEF Settled
<1>2. Heard'
  BY ConstantAssumption DEF Gone, Heard, Actors
<1>3. QED
  BY <1>1, <1>2 DEF Known, Told, CancelIsSettled, AnswersFollowClick

LEMMA RestartTells ==
  ASSUME Known, Crash \/ Shutdown \/ CancelFlights \/ Startup
  PROVE  Told'
<1>1. CASE Crash
  <2>1. \A f \in Flights : ~Live(f)'
    BY <1>1 DEF Crash, Live
  <2>2. QED
    BY <1>1, <2>1, StopTells DEF Crash
<1>2. CASE Shutdown
  BY <1>2, StopTells DEF Shutdown, row, flights, Live
<1>3. CASE CancelFlights
  <2>1. UNCHANGED <<row, host, kind, phase, actors, answer>>
    BY <1>3 DEF CancelFlights, actors
  <2>2. Settled' <=> Settled
    BY <2>1 DEF Settled, Live, row
  <2>3. QED
    BY <2>1, <2>2 DEF Known, Told, CancelIsSettled, Heard, AnswersFollowClick, Live, row, actors
<1>4. CASE Startup
  <2>1. /\ \A f \in Flights : ~Live(f)
        /\ UNCHANGED <<host, flights, actors, answer>>
        /\ \/ status' = status /\ (stage' = stage \/ stage' = "assembly_retry")
           \/ status' = "cancelling" /\ status \notin Terminal
    BY <1>4 DEF Startup, actors, Write
  <2>2. (Settled => Settled') /\ (status' = "cancelling" => Settled')
    BY <2>1 DEF Settled, Live, flights, Terminal
  <2>3. QED
    BY <2>1, <2>2
       DEF Known, Told, CancelIsSettled, Heard, AnswersFollowClick, Live, flights, actors, Terminal
<1>5. QED
  BY <1>1, <1>2, <1>3, <1>4

LEMMA InitTells ==
  ASSUME Init
  PROVE  Told
BY ConstantAssumption DEF Init, Told, CancelIsSettled, Heard, AnswersFollowClick, Actors, Ours

LEMMA ToldStep ==
  ASSUME Known, [Next]_vars
  PROVE  Told'
<1>1. CASE \E f \in Flights : Fly(f)
  BY <1>1, BeginTells, ReadTells, DecideTells, AssembledTells, UnwindTells DEF Fly, Aggregate, Live
<1>2. CASE \E r \in Requests : Click(r) \/ Act(r)
  BY <1>2, ClickTells, ProbedTells, DispatchedTells, RespondedTells DEF Act
<1>3. CASE \E a \in Actors : Wait(a)
  <2>1. \A a \in Actors : Send(a) \/ Reply(a) => a # Reconciler
    BY DEF Send, Reply, Known, ReconcilerOnlyWaits
  <2>2. QED
    BY <1>3, <2>1, SendTells, ReplyTells, RejoinTells DEF Wait, Actors
<1>4. CASE Reconciling \/ Recovering
  BY <1>4, ReconcileTells, ReconciledTells, RecoverTells, RecoveredTells, RestedTells
     DEF Reconciling, Recovering
<1>5. CASE \E s \in Segments : HostEnds(s)
  BY <1>5, HostEndsTells
<1>6. CASE Crash \/ Shutdown \/ CancelFlights \/ Startup
  BY <1>6, RestartTells
<1>7. CASE UNCHANGED vars
  BY <1>7 DEF vars, row, flights, actors, Known, Told, CancelIsSettled, Heard, Settled, Live,
     AnswersFollowClick
<1>8. QED
  BY <1>1, <1>2, <1>3, <1>4, <1>5, <1>6, <1>7 DEF Next

LEMMA ReconcilerStep ==
  ASSUME Known, [Next]_vars
  PROVE  ReconcilerOnlyWaits'
<1> USE ConstantAssumption DEF Known, ReconcilerOnlyWaits, Flying, FlightTypes, Actors
<1>1. ASSUME NEW f \in Flights, NEW r, EndFlight(f, r)
      PROVE  ReconcilerOnlyWaits'
  BY <1>1 DEF EndFlight
<1>2. ASSUME NEW f \in Flights, Fly(f)
      PROVE  ReconcilerOnlyWaits'
  <2>1. \/ \E r : EndFlight(f, r)
        \/ pc' = pc
    <3>1. Decide(f) => (\E r : EndFlight(f, r)) \/ pc' = pc
      BY DEF Decide, Settle
    <3>2. Assembled(f) => \E r : EndFlight(f, r)
      BY DEF Assembled, Publish, AssemblyFails, Settle
    <3>3. QED
      BY <1>2, <3>1, <3>2 DEF Fly, Begin, Read, Aggregate, Unwind, actors
  <2>2. QED
    BY <1>1, <2>1
<1>3. ASSUME NEW r \in Requests, Click(r) \/ Act(r)
      PROVE  ReconcilerOnlyWaits'
  BY <1>3 DEF Click, Act, Probed, Dispatched, Responded, Join, Leave
<1>4. ASSUME NEW a \in Actors, Wait(a)
      PROVE  ReconcilerOnlyWaits'
  BY <1>4 DEF Wait, Send, Reply, Rejoin, Join
<1>5. CASE Reconciling \/ Recovering
  BY <1>5 DEF Reconciling, Recovering, Reconcile, Reconciled, Recover, Recovered, Rested, Join,
     Leave
<1>6. CASE \E s \in Segments : HostEnds(s)
  BY <1>6 DEF HostEnds, actors
<1>7. CASE Crash \/ Shutdown \/ CancelFlights \/ Startup
  BY <1>7 DEF Crash, Shutdown, CancelFlights, Startup, Gone, actors
<1>8. CASE UNCHANGED vars
  BY <1>8 DEF vars, actors
<1>9. QED
  BY <1>2, <1>3, <1>4, <1>5, <1>6, <1>7, <1>8 DEF Next

LEMMA ToldAlways == Spec => []Known
<1>1. Init => Known
  BY InitStep, InitTells, ConstantAssumption DEF Known, Init, ReconcilerOnlyWaits, Actors
<1>2. Known /\ [Next]_vars => Known'
  BY NextStep, ToldStep, ReconcilerStep DEF Known
<1>3. QED
  BY <1>1, <1>2, PTL DEF Spec

\* Whoever goes on from the first pass of a cancel, whoever stops a prompt and
\* whatever is left to the recovery worker finds a cancel that no probe and no
\* earlier view takes back (_cancel_timeline_job).
THEOREM CancelIsSettledHolds == Spec => []CancelIsSettled
<1>1. Known => CancelIsSettled
  BY DEF Known, Told
<1>2. QED
  BY <1>1, ToldAlways, PTL

\* No request to cancel answers that the job still runs (_cancel_timeline_job).
THEOREM AnswersFollowClickHolds == Spec => []AnswersFollowClick
<1>1. Known => AnswersFollowClick
  BY DEF Known, Told
<1>2. QED
  BY <1>1, ToldAlways, PTL

\* A job of which a directed cancel stopped a prompt ends as cancelled
\* (_sync_timeline_job_once).
THEOREM CancelReadsCancelledHolds == Spec => []CancelReadsCancelled
<1>1. Known => CancelReadsCancelled
  BY DEF Known, Told, CancelIsSettled, CancelReadsCancelled, Terminal
<1>2. QED
  BY <1>1, ToldAlways, PTL
=============================================================================
