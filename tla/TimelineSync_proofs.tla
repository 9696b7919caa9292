------------------------- MODULE TimelineSync_proofs -------------------------
EXTENDS TimelineSync, TLAPS

\* The type invariant, by the part of the state.
FlightTypes ==
  /\ kind \in [Flights -> {"assembly", "sync", "probe"}]
  /\ phase \in [Flights -> {"free", "created", "reading", "observed", "assembling"}]
  /\ seen \subseteq Flights /\ doomed \subseteq Flights
  /\ heir \in [Flights -> Flights \cup {None}]
  /\ legacy \in [Flights -> Results]
  /\ current \in Flights \cup {None}
  /\ pc \in [Actors -> {"idle", "probe", "dispatch", "confirmed", "denied", "errored",
                        "await", "handoff", "over", "dead"}]
  /\ on \in [Actors -> Flights \cup {None}]
  /\ got \in [Actors -> Results]

RowTypes ==
  /\ status \in Statuses /\ stage \in Stages /\ cancel \in BOOLEAN
  /\ claim \in Flights \cup {None} /\ published \in BOOLEAN
  /\ kids \in [Segments -> KidStates] /\ host \in [Segments -> HostStates]
  /\ todo \in [Actors -> SUBSET Segments] /\ held \subseteq Actors
  /\ trouble \in [Actors -> {"none", "plain", "restart"}]
  /\ answer \in [Requests -> Statuses \cup {"none"}]
  /\ up \in BOOLEAN /\ stops \in 0..MaxStops /\ faults \in 0..MaxFaults
  /\ assembles \in BOOLEAN

LEMMA TypesSplit == TypeOK <=> FlightTypes /\ RowTypes
BY DEF TypeOK, FlightTypes, RowTypes

\* The flights and those that wait for them; the row and what depends on it.
Flying == FlightTypes /\ Registry /\ HandOver /\ WaitersSurvive
Rowing == RowTypes /\ Claims /\ Intents /\ TerminalIsCoherent

\* A flight that ends leaves the registry and the hand-over in order.
LEMMA EndKeeps ==
  ASSUME Flying, up \in BOOLEAN, up' = up, NEW f \in Flights, Live(f),
         NEW r \in Results \ {"none"}, EndFlight(f, r), f \in doomed <=> r = "preempted"
  PROVE  Flying'
<1> USE ConstantAssumption DEF Flying, EndFlight, Live, Results
<1>1. FlightTypes'
  BY DEF FlightTypes
<1>2. Registry'
  BY DEF FlightTypes, Registry
<1>3. HandOver' /\ WaitersSurvive'
  BY DEF FlightTypes, Registry, HandOver, WaitersSurvive
<1>4. QED
  BY <1>1, <1>2, <1>3

\* What else an ending flight leaves alone.
LEMMA EndEffect ==
  ASSUME FlightTypes, NEW f \in Flights, NEW r, EndFlight(f, r)
  PROVE  /\ phase' = [phase EXCEPT ![f] = "free"]
         /\ \A g \in Flights : g # f => kind'[g] = kind[g] /\ (g \in doomed' <=> g \in doomed)
         /\ f \notin doomed'
         /\ current' # f
         /\ \A g \in Flights : current' = g => current = g
         /\ \A a \in Actors : pc'[a] = "idle" <=> pc[a] = "idle"
BY ConstantAssumption DEF FlightTypes, EndFlight

LEMMA JoinKeeps ==
  ASSUME Flying, up, up', NEW a \in Actors, NEW k \in {"assembly", "sync"},
         status' \in Statuses, Join(a, k)
  PROVE  Flying'
<1> USE ConstantAssumption DEF Flying, Live, Results, Statuses, Terminal
<1>1. CASE current = None
  <2>1. PICK f \in Flights : Register(f, k) /\ on' = [on EXCEPT ![a] = f]
                             /\ got' = [got EXCEPT ![a] = "none"]
                             /\ UNCHANGED <<doomed, heir>>
    BY <1>1 DEF Join
  <2> USE <1>1, <2>1 DEF Join, Register
  <2>2. FlightTypes'
    BY DEF FlightTypes
  <2>3. Registry'
    BY DEF FlightTypes, Registry
  <2>4. HandOver' /\ WaitersSurvive'
    BY DEF FlightTypes, Registry, HandOver, WaitersSurvive
  <2>5. QED
    BY <2>2, <2>3, <2>4
<1>2. CASE current # None
  <2> USE <1>2 DEF Join, flights
  <2>1. FlightTypes'
    BY DEF FlightTypes
  <2>2. Registry'
    BY DEF FlightTypes, Registry
  <2>3. HandOver' /\ WaitersSurvive'
    BY DEF FlightTypes, Registry, HandOver, WaitersSurvive
  <2>4. QED
    BY <2>1, <2>2, <2>3
<1>3. QED
  BY <1>1, <1>2

LEMMA JoinEffect ==
  ASSUME FlightTypes, NEW a \in Actors, NEW k, Join(a, k)
  PROVE  /\ doomed' = doomed /\ pc' = [pc EXCEPT ![a] = "await"]
         /\ \A f \in Flights :
              \/ phase'[f] = phase[f] /\ kind'[f] = kind[f]
              \/ phase[f] = "free" /\ phase'[f] = "created" /\ kind'[f] = k
<1>1. CASE current = None
  <2>1. PICK f \in Flights : Register(f, k) /\ UNCHANGED doomed
    BY <1>1 DEF Join
  <2>2. QED
    BY <2>1 DEF Join, Register, FlightTypes
<1>2. CASE current # None
  BY <1>2 DEF Join, flights
<1>3. QED
  BY <1>1, <1>2

LEMMA LeaveKeeps ==
  ASSUME Flying, up' = up, NEW a \in Actors, NEW where \in {"idle", "dispatch", "over"},
         Leave(a, where), got[a] # "none" \/ pc[a] = "dispatch"
  PROVE  Flying'
BY ConstantAssumption DEF Flying, Leave, flights, FlightTypes, Registry, HandOver,
   WaitersSurvive, Live, Results

LEMMA FaultKeeps ==
  ASSUME RowTypes, Fault
  PROVE  faults' \in 0..MaxFaults
BY ConstantAssumption DEF RowTypes, Fault

\* A write of the row by a flight that ends with it.
LEMMA SettleKeeps ==
  ASSUME Flying, Rowing, NEW f \in Flights, Live(f), f \notin doomed,
         NEW st \in Statuses, NEW sg \in Stages \ {"assembling"}, Settle(f, st, sg),
         UNCHANGED <<cancel, kids, host, todo, held, trouble, answer, up, stops, assembles>>,
         faults' \in 0..MaxFaults, published' \in BOOLEAN, status \notin Terminal,
         st = "cancelling" => cancel,
         st \in Terminal => AllEnded,
         st = "succeeded" => Complete /\ (assembles => ~cancel),
         st = "cancelled" => cancel \/ Theirs = Segments,
         published' <=> (assembles /\ st = "succeeded")
  PROVE  Flying' /\ Rowing'
<1> USE DEF Settle, Write
<1>1. st \in Results \ {"none"} /\ st # "preempted"
  BY DEF Results, Statuses, Terminal
<1>2. Flying'
  BY <1>1, EndKeeps DEF Rowing, RowTypes
<1>3. /\ phase' = [phase EXCEPT ![f] = "free"]
      /\ \A g \in Flights : g # f => kind'[g] = kind[g] /\ (g \in doomed' <=> g \in doomed)
      /\ \A a \in Actors : pc'[a] = "idle" <=> pc[a] = "idle"
  BY EndEffect DEF Flying
<1>4. \A g \in Flights : phase[g] = "assembling" /\ g \notin doomed => g = f
  BY ConstantAssumption DEF Flying, Registry, Live
<1>5. RowTypes'
  BY DEF Rowing, RowTypes
<1>6. Claims'
  BY <1>3, <1>4 DEF Rowing, Claims, Flying, FlightTypes
<1>7. Intents'
  BY <1>3, ConstantAssumption DEF Rowing, Intents, Asked, Live, Flying, FlightTypes, Actors,
     Terminal
<1>8. TerminalIsCoherent'
  BY DEF Rowing, TerminalIsCoherent, AllEnded, Ended, Complete, Theirs, Terminal
<1>9. QED
  BY <1>2, <1>5, <1>6, <1>7, <1>8 DEF Rowing

\* A flight that ends and leaves the row alone.
LEMMA EndRowKeeps ==
  ASSUME Flying, Rowing, NEW f \in Flights, Live(f), claim # f,
         NEW r \in Results \ {"none"}, EndFlight(f, r), f \in doomed <=> r = "preempted",
         UNCHANGED <<row, published, kids, host, todo, held, trouble, answer, up, stops, assembles>>,
         faults' \in 0..MaxFaults
  PROVE  Flying' /\ Rowing'
<1>1. Flying'
  BY EndKeeps DEF Rowing, RowTypes, row
<1>2. /\ phase' = [phase EXCEPT ![f] = "free"]
      /\ \A g \in Flights : g # f => kind'[g] = kind[g] /\ (g \in doomed' <=> g \in doomed)
      /\ \A a \in Actors : pc'[a] = "idle" <=> pc[a] = "idle"
  BY EndEffect DEF Flying
<1>3. RowTypes'
  BY DEF Rowing, RowTypes, row
<1>4. Claims'
  BY <1>2, ConstantAssumption DEF Rowing, RowTypes, Claims, Complete, row, Flying, FlightTypes
<1>5. Intents'
  BY <1>2, ConstantAssumption DEF Rowing, Intents, Asked, Live, row, Flying, FlightTypes, Actors
<1>6. TerminalIsCoherent'
  BY DEF Rowing, TerminalIsCoherent, AllEnded, Ended, Complete, Theirs, row
<1>7. QED
  BY <1>1, <1>3, <1>4, <1>5, <1>6 DEF Rowing

\* The aggregation, whatever it concludes.
LEMMA DecideStep ==
  ASSUME Flying, Rowing, NEW f \in Flights, Live(f), f \notin doomed,
         phase[f] # "assembling", Decide(f)
  PROVE  Flying' /\ Rowing'
<1> DEFINE Rest == UNCHANGED <<cancel, kids, host, todo, held, trouble, answer, up, stops,
                               assembles>>
<1>1. Rest /\ UNCHANGED published /\ claim # f
  BY ConstantAssumption DEF Decide, Rowing, Claims
<1>2. faults \in 0..MaxFaults /\ status \in Statuses /\ stage \in Stages /\ published \in BOOLEAN
  BY DEF Rowing, RowTypes
<1>3. (stage = "assembling" => status = "running") /\ (status = "cancelling" => cancel)
  BY DEF Rowing, Claims, Intents
<1>4. status \notin Terminal => ~published
  BY DEF Rowing, TerminalIsCoherent, Terminal
<1>5. CASE /\ status \in Terminal /\ EndFlight(f, status)
           /\ UNCHANGED <<status, stage, claim, faults>>
  <2>1. status \in Results \ {"none"} /\ status # "preempted"
    BY <1>5 DEF Results, Statuses, Terminal
  <2>2. QED
    BY <1>5, <1>1, <1>2, <2>1, EndRowKeeps DEF row
<1>6. ASSUME NEW st \in Statuses, NEW sg \in Stages \ {"assembling"}, Settle(f, st, sg),
             status \notin Terminal, st = "cancelling" => cancel,
             st \in Terminal => AllEnded,
             st = "succeeded" => Complete /\ ~assembles,
             st = "cancelled" => cancel \/ Theirs = Segments,
             faults' \in 0..MaxFaults
      PROVE  Flying' /\ Rowing'
  <2>1. published' \in BOOLEAN /\ (published' <=> (assembles /\ st = "succeeded"))
    BY <1>6, <1>1, <1>2, <1>4
  <2>2. QED
    BY <1>6, <1>1, <2>1, SettleKeeps
<1> USE DEF Statuses, Terminal, Stages
<1>7. CASE status \notin Terminal /\ ~AllEnded /\ UNCHANGED faults
           /\ IF status = "cancelling" THEN Settle(f, status, stage)
                                      ELSE Settle(f, "running", "working")
  BY <1>2, <1>3, <1>6, <1>7
<1>8. CASE status \notin Terminal /\ Refused(f) /\ Settle(f, "cancelled", "done")
           /\ UNCHANGED faults
  BY <1>2, <1>3, <1>6, <1>8 DEF Refused
<1>9. CASE status \notin Terminal /\ AllEnded /\ Settle(f, "failed", "done") /\ UNCHANGED faults
  BY <1>2, <1>6, <1>9
<1>10. CASE /\ status \notin Terminal /\ AllEnded /\ UNCHANGED faults
            /\ IF ~Honors(f) /\ cancel /\ Theirs = {}
               THEN Settle(f, "cancelling", "cancelling")
               ELSE IF Theirs = Segments THEN Settle(f, "cancelled", "done")
                                         ELSE Settle(f, "failed", "done")
  BY <1>2, <1>6, <1>10
<1>11. Complete => AllEnded
  BY DEF Complete, AllEnded, Ended
<1>12. CASE status \notin Terminal /\ Complete /\ Fault /\ Settle(f, "failed", "done")
  <2>1. faults' \in 0..MaxFaults
    BY <1>12, FaultKeeps DEF Rowing
  <2>2. QED
    BY <2>1, <1>11, <1>6, <1>12
<1>13. CASE status \notin Terminal /\ Complete /\ ~assembles /\ UNCHANGED faults
            /\ Settle(f, "succeeded", "done")
  BY <1>2, <1>11, <1>6, <1>13
<1>14. CASE status \notin Terminal /\ Complete /\ UNCHANGED faults
            /\ Settle(f, "running", "segments_ready")
  BY <1>2, <1>6, <1>14
<1>15. CASE /\ status \notin Terminal /\ ~Refused(f) /\ Complete
            /\ assembles /\ kind[f] = "assembly" /\ UNCHANGED faults
            /\ status' = "running" /\ stage' = "assembling" /\ claim' = f
            /\ phase' = [phase EXCEPT ![f] = "assembling"]
            /\ UNCHANGED <<kind, seen, doomed, heir, legacy, current, pc, on, got>>
  <2>1. ~cancel
    BY <1>15, <1>11 DEF Refused, Honors
  <2>2. Flying'
    BY <1>15, <1>1, ConstantAssumption
       DEF Flying, FlightTypes, Registry, HandOver, WaitersSurvive, Live
  <2>3. \A g \in Flights : phase[g] = "assembling" => g \in doomed \/ g = f
    BY DEF Flying, Registry, Live
  <2>4. RowTypes' /\ Complete'
    BY <1>15, <1>1 DEF Rowing, RowTypes, Complete
  <2>5. Claims'
    BY <1>15, <1>1, <2>1, <2>3, <2>4, ConstantAssumption
       DEF Rowing, Claims, Flying, FlightTypes, Registry
  <2>6. Intents'
    BY <1>15, <1>1, <2>1 DEF Rowing, Intents, Asked, Live, Flying, FlightTypes, Registry
  <2>7. TerminalIsCoherent'
    BY <1>15, <1>1, <1>4 DEF Rowing, TerminalIsCoherent
  <2>8. QED
    BY <2>2, <2>4, <2>5, <2>6, <2>7 DEF Rowing
<1>16. QED
  BY <1>5, <1>7, <1>8, <1>9, <1>10, <1>12, <1>13, <1>14, <1>15 DEF Decide

LEMMA BeginStep ==
  ASSUME Flying, Rowing, NEW f \in Flights, Begin(f)
  PROVE  Flying' /\ Rowing'
<1>1. Live(f) /\ f \notin doomed /\ phase[f] # "assembling" /\ claim # f
  BY ConstantAssumption DEF Begin, Live, Rowing, Claims
<1>2. faults \in 0..MaxFaults /\ status \in Results \ {"none"} /\ status # "preempted"
  BY DEF Rowing, RowTypes, Results, Statuses, Terminal
<1>3. CASE EndFlight(f, status) /\ UNCHANGED <<row, published, kids, host, todo, held, trouble,
                                              answer, up, stops, faults, assembles>>
  BY <1>1, <1>2, <1>3, EndRowKeeps
<1>4. CASE Decide(f)
  BY <1>1, <1>4, DecideStep
<1>5. CASE /\ phase' = [phase EXCEPT ![f] = "reading"]
           /\ seen' = IF status = "cancelling" THEN seen \cup {f} ELSE seen
           /\ UNCHANGED <<row, published, kids, host, kind, doomed, heir, legacy, current,
                          actors, up, stops, faults, assembles>>
  <2> USE <1>1, <1>5 DEF row, actors
  <2>1. Flying'
    BY ConstantAssumption DEF Flying, FlightTypes, Registry, HandOver, WaitersSurvive, Live
  <2>2. Rowing'
    BY DEF Rowing, RowTypes, Claims, Intents, Asked, Live, Complete, TerminalIsCoherent,
       AllEnded, Ended, Theirs, Flying, FlightTypes
  <2>3. QED
    BY <2>1, <2>2
<1>6. QED
  BY <1>3, <1>4, <1>5 DEF Begin

\* Children only end: what has ended stays as it is.
LEMMA ReadStep ==
  ASSUME Flying, Rowing, NEW f \in Flights, Read(f)
  PROVE  Flying' /\ Rowing'
<1>1. /\ Live(f) /\ f \notin doomed /\ phase[f] = "reading" /\ claim # f
      /\ UNCHANGED <<row, published, host, todo, trouble, answer, up, stops, assembles>>
  BY ConstantAssumption DEF Read, Live, Rowing, Claims
<1>2. ASSUME NEW read \in SUBSET {s \in Segments : kids[s] = "active"},
             (faults' = faults) \/ Fault, held' \subseteq Actors,
             kids' = [s \in Segments |-> IF s \in read THEN Outcome(s, f \in seen) ELSE kids[s]],
             phase' = [phase EXCEPT ![f] = "observed"],
             UNCHANGED <<kind, seen, doomed, heir, legacy, current, pc, on, got>>
      PROVE  Flying' /\ Rowing'
  <2> USE <1>1, <1>2 DEF row
  <2>1. Flying'
    BY ConstantAssumption DEF Flying, FlightTypes, Registry, HandOver, WaitersSurvive, Live
  <2>2. faults' \in 0..MaxFaults
    BY FaultKeeps DEF Rowing, RowTypes
  <2>3. \A s \in read : Outcome(s, f \in seen) \in KidStates
    BY DEF Outcome, KidStates
  <2>4. RowTypes'
    BY <2>2, <2>3 DEF Rowing, RowTypes
  <2>5. \A s \in Segments : Ended(s) => kids'[s] = kids[s]
    BY DEF Ended
  <2>6. (AllEnded => kids' = kids) /\ (Complete => kids' = kids)
    BY <2>5 DEF AllEnded, Ended, Complete, Rowing, RowTypes
  <2>7. Claims'
    BY <2>6, ConstantAssumption DEF Rowing, Claims, Complete, Flying, FlightTypes
  <2>8. Intents'
    BY DEF Rowing, Intents, Asked, Live, Flying, FlightTypes
  <2>9. TerminalIsCoherent'
    BY <2>6 DEF Rowing, TerminalIsCoherent, AllEnded, Ended, Complete, Theirs, Terminal
  <2>10. QED
    BY <2>1, <2>4, <2>7, <2>8, <2>9 DEF Rowing
<1>3. CASE Fault /\ EndFlight(f, "raised") /\ UNCHANGED <<kids, held>>
  BY <1>1, <1>3, FaultKeeps, EndRowKeeps DEF Results, Rowing, row
<1>4. CASE ~(Fault /\ EndFlight(f, "raised") /\ UNCHANGED <<kids, held>>)
  <2>1. PICK read \in SUBSET {s \in Segments : kids[s] = "active"} :
          /\ (faults' = faults) \/ Fault
          /\ held' \subseteq held
          /\ kids' = [s \in Segments |-> IF s \in read THEN Outcome(s, f \in seen) ELSE kids[s]]
          /\ phase' = [phase EXCEPT ![f] = "observed"]
          /\ UNCHANGED <<kind, seen, doomed, heir, legacy, current, pc, on, got>>
    BY <1>4 DEF Read
  <2>2. held' \subseteq Actors
    BY <2>1 DEF Rowing, RowTypes
  <2>3. QED
    BY <2>1, <2>2, <1>2
<1>5. QED
  BY <1>3, <1>4

LEMMA AssembledStep ==
  ASSUME Flying, Rowing, NEW f \in Flights, Assembled(f)
  PROVE  Flying' /\ Rowing'
<1>1. /\ Live(f) /\ f \notin doomed
      /\ UNCHANGED <<cancel, kids, host, todo, held, trouble, answer, up, stops, assembles>>
  BY DEF Assembled, Live
<1>2. /\ claim = f /\ stage = "assembling" /\ status = "running" /\ ~cancel
      /\ Complete /\ assembles
  BY ConstantAssumption DEF Assembled, Rowing, Claims
<1>3. AllEnded /\ ~published
  BY <1>2 DEF Complete, AllEnded, Ended, Rowing, TerminalIsCoherent
<1> USE DEF Statuses, Terminal, Stages
<1>4. CASE published' = TRUE /\ Settle(f, "succeeded", "done") /\ UNCHANGED faults
  <2>1. faults' \in 0..MaxFaults
    BY <1>4 DEF Rowing, RowTypes
  <2>2. QED
    BY <1>1, <1>2, <1>3, <1>4, <2>1, SettleKeeps
<1>5. CASE Fault /\ UNCHANGED published /\ Settle(f, "failed", "done")
  <2>1. faults' \in 0..MaxFaults /\ published' \in BOOLEAN /\ ~published'
    BY <1>3, <1>5, FaultKeeps DEF Rowing, RowTypes
  <2>2. QED
    BY <1>1, <1>2, <1>3, <1>5, <2>1, SettleKeeps
<1>6. CASE Fault /\ UNCHANGED published /\ Release(f) /\ EndFlight(f, "raised")
  <2>1. faults' \in 0..MaxFaults
    BY <1>6, FaultKeeps DEF Rowing
  <2>2. /\ status' = "running" /\ stage' = "assembly_retry" /\ claim' = None
        /\ EndFlight(f, "raised")
    BY <1>2, <1>6 DEF Release
  <2>3. Flying'
    BY <2>2, <1>1, EndKeeps DEF Rowing, RowTypes, Results
  <2>4. /\ phase' = [phase EXCEPT ![f] = "free"]
        /\ \A g \in Flights : g # f => kind'[g] = kind[g] /\ (g \in doomed' <=> g \in doomed)
        /\ \A a \in Actors : pc'[a] = "idle" <=> pc[a] = "idle"
    BY <2>2, EndEffect DEF Flying
  <2>5. RowTypes'
    BY <1>1, <1>6, <2>1, <2>2 DEF Rowing, RowTypes
  <2>6. Claims'
    BY <1>1, <1>2, <2>2, <2>4, ConstantAssumption DEF Rowing, Claims, Flying, FlightTypes
  <2>7. Intents'
    BY <1>1, <1>2, <2>2, <2>4 DEF Rowing, Intents, Asked, Live, Flying, FlightTypes, Actors
  <2>8. TerminalIsCoherent'
    BY <1>1, <1>3, <1>6, <2>2 DEF TerminalIsCoherent
  <2>9. QED
    BY <2>3, <2>5, <2>6, <2>7, <2>8 DEF Rowing
<1>7. QED
  BY <1>2, <1>4, <1>5, <1>6 DEF Assembled, Publish, AssemblyFails

LEMMA UnwindStep ==
  ASSUME Flying, Rowing, NEW f \in Flights, Unwind(f)
  PROVE  Flying' /\ Rowing'
<1>1. /\ Live(f) /\ f \in doomed /\ EndFlight(f, "preempted")
      /\ UNCHANGED <<cancel, published, kids, host, todo, held, trouble, answer, up, stops, faults,
                     assembles>>
      /\ faults \in 0..MaxFaults
  BY DEF Unwind, Flying, Registry, Rowing, RowTypes
<1>2. CASE claim # f
  <2>1. UNCHANGED row
    BY <1>1, <1>2 DEF Unwind, Release, row
  <2>2. QED
    BY <1>1, <1>2, <2>1, EndRowKeeps DEF Results
<1>3. CASE claim = f
  <2>1. /\ phase[f] = "assembling" /\ status = "running" /\ ~cancel /\ ~published
        /\ status' = "running" /\ stage' = "assembly_retry" /\ claim' = None
    BY <1>1, <1>3, ConstantAssumption
       DEF Unwind, Release, Rowing, Claims, TerminalIsCoherent, Terminal
  <2>2. Flying'
    BY <1>1, EndKeeps DEF Rowing, RowTypes, Results
  <2>3. /\ phase' = [phase EXCEPT ![f] = "free"]
        /\ \A g \in Flights : g # f => kind'[g] = kind[g] /\ (g \in doomed' <=> g \in doomed)
        /\ \A a \in Actors : pc'[a] = "idle" <=> pc[a] = "idle"
    BY <1>1, EndEffect DEF Flying
  <2>4. RowTypes'
    BY <1>1, <2>1 DEF Rowing, RowTypes, Statuses, Stages
  <2>5. Claims'
    BY <1>1, <1>3, <2>1, <2>3, ConstantAssumption DEF Rowing, Claims, Flying, FlightTypes
  <2>6. Intents'
    BY <1>1, <2>1, <2>3 DEF Rowing, Intents, Asked, Live, Flying, FlightTypes, Actors, Terminal
  <2>7. TerminalIsCoherent'
    BY <1>1, <2>1 DEF TerminalIsCoherent, Terminal
  <2>8. QED
    BY <2>2, <2>4, <2>5, <2>6, <2>7 DEF Rowing
<1>4. QED
  BY <1>2, <1>3


\* Steps of the actors: the row is left alone, or made cancelling when a
\* request to cancel is there; children that have ended stay as they are.
LEMMA ActorKeeps ==
  ASSUME Flying, Rowing, NEW k \in {"assembly", "sync"}, k = "sync" => Asked,
         doomed' = doomed,
         \A f \in Flights :
           \/ phase'[f] = phase[f] /\ kind'[f] = kind[f]
           \/ phase[f] = "free" /\ phase'[f] = "created" /\ kind'[f] = k,
         \A r \in Requests : pc'[r] # "idle" => Asked,
         pc'[Worker] # "idle" => cancel,
         \/ UNCHANGED <<status, stage, claim>>
         \/ /\ Asked /\ status \notin Terminal
            /\ \E sg \in {"cancelling", "restart"} : Write("cancelling", sg),
         UNCHANGED <<cancel, published, up, stops, assembles>>,
         kids' \in [Segments -> KidStates], host' \in [Segments -> HostStates],
         \A s \in Segments : Ended(s) => kids'[s] = kids[s],
         todo' \in [Actors -> SUBSET Segments], held' \subseteq Actors,
         trouble' \in [Actors -> {"none", "plain", "restart"}],
         answer' \in [Requests -> Statuses \cup {"none"}], faults' \in 0..MaxFaults
  PROVE  Rowing'
<1>1. PICK sg \in {"cancelling", "restart"} :
        \/ UNCHANGED <<status, stage, claim>>
        \/ Asked /\ status \notin Terminal /\ Write("cancelling", sg)
  OBVIOUS
<1>2. RowTypes'
  BY <1>1 DEF Rowing, RowTypes, Write, Statuses, Stages
<1>3. (AllEnded => kids' = kids) /\ (Complete => kids' = kids)
  BY DEF AllEnded, Ended, Complete, Rowing, RowTypes
<1>4. Asked => claim = None /\ \A f \in Flights : phase[f] = "assembling" => f \in doomed
  BY ConstantAssumption DEF Asked, Rowing, Claims, Terminal
<1>5. Claims'
  <2>1. CASE UNCHANGED <<status, stage, claim>>
    BY <2>1, <1>3, ConstantAssumption DEF Rowing, RowTypes, Claims, Complete
  <2>2. CASE Asked /\ Write("cancelling", sg)
    BY <2>2, <1>4 DEF Claims, Write
  <2>3. QED
    BY <1>1, <2>1, <2>2
<1>6. Intents'
  BY <1>1 DEF Rowing, Intents, Asked, Live, Write, Terminal
<1>7. TerminalIsCoherent'
  BY <1>1, <1>3 DEF Rowing, TerminalIsCoherent, AllEnded, Ended, Complete, Theirs, Terminal, Write
<1>8. QED
  BY <1>2, <1>5, <1>6, <1>7 DEF Rowing

\* Of the actors, only the reconciler is at work before anybody asked.
LEMMA WhoActs ==
  ASSUME Rowing
  PROVE  /\ \A r \in Requests : pc[r] # "idle" => Asked
         /\ pc[Worker] # "idle" => cancel
         /\ \A r \in Requests : r # Worker /\ r # Reconciler
         /\ status \in Statuses /\ faults \in 0..MaxFaults
         /\ kids \in [Segments -> KidStates] /\ host \in [Segments -> HostStates]
         /\ todo \in [Actors -> SUBSET Segments] /\ held \subseteq Actors
         /\ trouble \in [Actors -> {"none", "plain", "restart"}]
         /\ answer \in [Requests -> Statuses \cup {"none"}]
BY ConstantAssumption DEF Rowing, Intents, RowTypes

LEMMA RejoinStep ==
  ASSUME Flying, Rowing, NEW a \in Actors, Rejoin(a)
  PROVE  Flying' /\ Rowing'
<1>1. /\ up /\ up' /\ cancel /\ Asked /\ pc[a] # "idle" /\ Join(a, "sync")
      /\ UNCHANGED <<row, published, kids, host, todo, held, trouble, answer, up, stops, faults,
                     assembles>>
  BY DEF Rejoin, Stale, Asked
<1>2. status' \in Statuses
  BY <1>1, WhoActs DEF row
<1>3. Flying'
  BY <1>1, <1>2, JoinKeeps
<1>4. Rowing'
  BY <1>1, JoinEffect, WhoActs, ActorKeeps DEF Flying, row
<1>5. QED
  BY <1>3, <1>4

LEMMA ReconcileStep ==
  ASSUME Flying, Rowing, Reconcile
  PROVE  Flying' /\ Rowing'
<1>1. /\ up /\ up' /\ Reconciler \in Actors /\ Join(Reconciler, "assembly")
      /\ UNCHANGED <<row, published, kids, host, todo, held, trouble, answer, up, stops, faults,
                     assembles>>
  BY DEF Reconcile, Actors
<1>2. status' \in Statuses
  BY <1>1, WhoActs DEF row
<1>3. Flying'
  BY <1>1, <1>2, JoinKeeps
<1>4. \A a \in Actors : a # Reconciler => pc'[a] = pc[a]
  BY <1>1, JoinEffect DEF Flying, FlightTypes
<1>5. Worker \in Actors /\ Worker # Reconciler /\ Requests \subseteq Actors
  BY ConstantAssumption DEF Actors
<1>6. Rowing'
  BY <1>1, <1>4, <1>5, JoinEffect, WhoActs, ActorKeeps DEF Flying, row
<1>7. QED
  BY <1>3, <1>6

\* An actor that leaves a flight behind, whatever it then writes.
LEMMA LeaveEffect ==
  ASSUME Flying, NEW a \in Actors, NEW where, Leave(a, where)
  PROVE  /\ doomed' = doomed
         /\ \A f \in Flights : phase'[f] = phase[f] /\ kind'[f] = kind[f]
         /\ \A b \in Actors : pc'[b] = IF b = a THEN where ELSE pc[b]
         /\ Worker \in Actors /\ Reconciler \in Actors /\ Requests \subseteq Actors
BY DEF Leave, flights, Flying, FlightTypes, Actors

LEMMA ReconciledStep ==
  ASSUME Flying, Rowing, Reconciled
  PROVE  Flying' /\ Rowing'
<1>1. /\ Reconciler \in Actors /\ Reconciler # Worker /\ Leave(Reconciler, "idle")
      /\ got[Reconciler] # "none"
      /\ UNCHANGED <<row, published, kids, host, todo, held, trouble, answer, up, stops, faults,
                     assembles>>
  BY ConstantAssumption DEF Reconciled, Answered, Actors, Flying, WaitersSurvive
<1>2. Flying'
  BY <1>1, LeaveKeeps
<1>3. Rowing'
  BY <1>1, LeaveEffect, WhoActs, ActorKeeps DEF row
<1>4. QED
  BY <1>2, <1>3

LEMMA ProbedStep ==
  ASSUME Flying, Rowing, NEW r \in Requests, Probed(r)
  PROVE  Flying' /\ Rowing'
<1>1. PICK where \in {"dispatch", "over"} : Leave(r, where)
  BY DEF Probed
<1>2. /\ r \in Actors /\ got[r] # "none" /\ pc[r] # "idle" /\ got[r] \in Results
      /\ UNCHANGED <<cancel, published, kids, host, held, trouble, up, stops, faults, assembles>>
      /\ (UNCHANGED <<status, stage, claim>>)
         \/ (status = "running" /\ Write("cancelling", "cancelling"))
  BY DEF Probed, Actors, Flying, FlightTypes
<1>3. Flying'
  BY <1>1, <1>2, LeaveKeeps
<1>4. answer' \in [Requests -> Statuses \cup {"none"}] /\ todo' \in [Actors -> SUBSET Segments]
  BY <1>2, WhoActs DEF Probed, Statuses
<1>5. Asked /\ r # Worker /\ "running" \notin Terminal
  BY <1>2, WhoActs DEF Terminal
<1>6. Rowing'
  BY <1>1, <1>2, <1>4, <1>5, LeaveEffect, WhoActs, ActorKeeps
<1>7. QED
  BY <1>3, <1>6

LEMMA RespondedStep ==
  ASSUME Flying, Rowing, NEW r \in Requests, Responded(r)
  PROVE  Flying' /\ Rowing'
<1>1. /\ r \in Actors /\ r # Worker /\ got[r] # "none" /\ pc[r] # "idle" /\ Leave(r, "over")
      /\ UNCHANGED <<row, published, kids, host, todo, held, trouble, up, stops, faults, assembles>>
  BY ConstantAssumption DEF Responded, Answered, Actors
<1>2. Flying'
  BY <1>1, LeaveKeeps
<1>3. answer' \in [Requests -> Statuses \cup {"none"}] /\ Asked
  BY <1>1, WhoActs DEF Responded
<1>4. Rowing'
  BY <1>1, <1>3, LeaveEffect, WhoActs, ActorKeeps DEF row
<1>5. QED
  BY <1>2, <1>4

LEMMA RestedStep ==
  ASSUME Flying, Rowing, Rested
  PROVE  Flying' /\ Rowing'
<1>1. /\ Worker \in Actors /\ got[Worker] # "none" /\ pc[Worker] # "idle"
      /\ Leave(Worker, "idle")
      /\ UNCHANGED <<cancel, published, kids, host, todo, held, trouble, answer, up, stops, faults,
                     assembles>>
      /\ (UNCHANGED <<status, stage, claim>>)
         \/ (status \notin Terminal /\ Write("cancelling", "restart"))
  BY DEF Rested, Answered, Actors, Flying, WaitersSurvive
<1>2. Flying'
  BY <1>1, LeaveKeeps
<1>3. Asked
  BY <1>1, WhoActs DEF Asked
<1>4. Rowing'
  BY <1>1, <1>3, LeaveEffect, WhoActs, ActorKeeps
<1>5. QED
  BY <1>2, <1>4


\* An actor that only moves on with its cancel; no flight is touched.
LEMMA MoveKeeps ==
  ASSUME Flying, up' = up, NEW a \in Actors,
         NEW where \in {"dispatch", "confirmed", "denied", "errored"},
         pc[a] \in {"idle", "dispatch", "confirmed", "denied", "errored"},
         pc' = [pc EXCEPT ![a] = where], UNCHANGED <<flights, on, got>>
  PROVE  Flying'
BY DEF Flying, flights, FlightTypes, Registry, HandOver, WaitersSurvive, Live

\* Cancelling a child ends it, leaves it, or gives it to the recovery worker.
LEMMA SendStep ==
  ASSUME Flying, Rowing, NEW a \in Actors, Send(a)
  PROVE  Flying' /\ Rowing'
<1> DEFINE s == Visit(a)
<1>1. /\ pc[a] = "dispatch"
      /\ UNCHANGED <<row, published, flights, on, got, trouble, answer, up, stops, assembles>>
  BY DEF Send
<1>2. PICK where \in {"dispatch", "confirmed", "denied", "errored"} :
        pc' = [pc EXCEPT ![a] = where]
  BY <1>1 DEF Send, Flying, FlightTypes
<1>3. Flying'
  BY <1>1, <1>2, MoveKeeps
<1>4. /\ kids' = kids \/ (~Ended(s) /\ kids' = [kids EXCEPT ![s] = "restart"])
      /\ host' = host \/ \E h \in HostStates : host' = [host EXCEPT ![s] = h]
      /\ todo' = todo \/ todo' = [todo EXCEPT ![a] = @ \ {s}]
      /\ held' \subseteq held \cup {a}
      /\ faults' = faults \/ Fault
  BY DEF Send, DirectedCancel, HostStates
<1>5. faults' \in 0..MaxFaults
  BY <1>4, FaultKeeps, WhoActs DEF Rowing
<1>6. /\ kids' \in [Segments -> KidStates] /\ host' \in [Segments -> HostStates]
      /\ todo' \in [Actors -> SUBSET Segments] /\ held' \subseteq Actors
      /\ \A t \in Segments : Ended(t) => kids'[t] = kids[t]
  BY <1>4, WhoActs DEF KidStates, Ended
<1>7. \A b \in Actors : pc'[b] # "idle" <=> pc[b] # "idle"
  BY <1>1, <1>2 DEF Flying, FlightTypes
<1>8. Worker \in Actors /\ Requests \subseteq Actors
  BY DEF Actors
<1>9. Rowing'
  BY <1>1, <1>5, <1>6, <1>7, <1>8, WhoActs, ActorKeeps DEF row, flights
<1>10. QED
  BY <1>3, <1>9

LEMMA ReplyStep ==
  ASSUME Flying, Rowing, NEW a \in Actors, Reply(a)
  PROVE  Flying' /\ Rowing'
<1> DEFINE s == Visit(a)
<1>1. /\ pc[a] \in {"confirmed", "denied", "errored"} /\ pc' = [pc EXCEPT ![a] = "dispatch"]
      /\ todo' = [todo EXCEPT ![a] = @ \ {s}]
      /\ UNCHANGED <<row, published, host, flights, on, got, answer, up, stops, assembles>>
  BY DEF Reply
<1>2. Flying'
  BY <1>1, MoveKeeps
<1>3. Outcome(s, TRUE) \in KidStates
  BY DEF Outcome, KidStates
<1>4. /\ \/ kids' = kids
         \/ ~Ended(s) /\ \E k \in KidStates : kids' = [kids EXCEPT ![s] = k]
      /\ \/ trouble' = trouble
         \/ \E t \in {"none", "plain", "restart"} : trouble' = [trouble EXCEPT ![a] = t]
      /\ faults' = faults \/ Fault
      /\ held' \subseteq held
  BY <1>3, WhoActs DEF Reply, KidStates
<1>5. faults' \in 0..MaxFaults
  BY <1>4, FaultKeeps, WhoActs DEF Rowing
<1>6. /\ kids' \in [Segments -> KidStates] /\ host' \in [Segments -> HostStates]
      /\ todo' \in [Actors -> SUBSET Segments] /\ held' \subseteq Actors
      /\ trouble' \in [Actors -> {"none", "plain", "restart"}]
      /\ \A t \in Segments : Ended(t) => kids'[t] = kids[t]
  BY <1>1, <1>4, WhoActs DEF Ended
<1>7. \A b \in Actors : pc'[b] # "idle" <=> pc[b] # "idle"
  BY <1>1 DEF Flying, FlightTypes
<1>8. Worker \in Actors /\ Requests \subseteq Actors
  BY DEF Actors
<1>9. Rowing'
  BY <1>1, <1>5, <1>6, <1>7, <1>8, WhoActs, ActorKeeps DEF row, flights
<1>10. QED
  BY <1>2, <1>9

LEMMA DispatchedStep ==
  ASSUME Flying, Rowing, NEW r \in Requests, Dispatched(r)
  PROVE  Flying' /\ Rowing'
<1>1. /\ up /\ up' /\ r \in Actors /\ r # Worker /\ pc[r] # "idle" /\ Join(r, "sync")
      /\ trouble' = [trouble EXCEPT ![r] = "none"]
      /\ UNCHANGED <<cancel, published, kids, host, todo, held, answer, up, stops, faults, assembles>>
      /\ \/ UNCHANGED <<status, stage, claim>>
         \/ status \notin Terminal /\ \E sg \in {"cancelling", "restart"} : Write("cancelling", sg)
  BY ConstantAssumption DEF Dispatched, Actors
<1>2. status' \in Statuses
  BY <1>1, WhoActs DEF Write, Statuses
<1>3. Flying'
  BY <1>1, <1>2, JoinKeeps
<1>4. /\ Asked /\ trouble' \in [Actors -> {"none", "plain", "restart"}]
      /\ \A b \in Actors : pc'[b] # "idle" <=> pc[b] # "idle"
      /\ Worker \in Actors /\ Requests \subseteq Actors
  BY <1>1, JoinEffect, WhoActs DEF Flying, FlightTypes, Actors
<1>5. Rowing'
  BY <1>1, <1>4, JoinEffect, WhoActs, ActorKeeps DEF Flying
<1>6. QED
  BY <1>3, <1>5

LEMMA RecoverStep ==
  ASSUME Flying, Rowing, Recover
  PROVE  Flying' /\ Rowing'
<1>1. /\ pc[Worker] = "idle" /\ status = "cancelling" /\ Worker \in Actors
      /\ Requests \subseteq Actors
      /\ pc' = [pc EXCEPT ![Worker] = "dispatch"]
      /\ todo' = [todo EXCEPT ![Worker] = Segments]
      /\ UNCHANGED <<row, published, kids, host, flights, on, got, held, trouble, answer, up,
                     stops, faults, assembles>>
  BY DEF Recover, Actors
<1>2. Flying'
  BY <1>1, MoveKeeps
<1>3. cancel /\ todo' \in [Actors -> SUBSET Segments]
  BY <1>1, WhoActs DEF Rowing, Intents
<1>4. \A r \in Requests : pc'[r] = pc[r]
  BY <1>1, WhoActs DEF Flying, FlightTypes
<1>5. Rowing'
  BY <1>1, <1>3, <1>4, WhoActs, ActorKeeps DEF row, flights
<1>6. QED
  BY <1>2, <1>5

LEMMA RecoveredStep ==
  ASSUME Flying, Rowing, Recovered
  PROVE  Flying' /\ Rowing'
<1>1. /\ up /\ up' /\ pc[Worker] = "dispatch" /\ Worker \in Actors /\ Requests \subseteq Actors
      /\ trouble' = [trouble EXCEPT ![Worker] = "none"]
      /\ UNCHANGED <<cancel, published, kids, host, todo, held, answer, up, stops, faults, assembles>>
  BY DEF Recovered, Actors
<1>2. cancel /\ Asked /\ trouble' \in [Actors -> {"none", "plain", "restart"}]
  BY <1>1, WhoActs DEF Asked
<1>3. CASE Leave(Worker, "idle")
           /\ \/ UNCHANGED <<status, stage, claim>>
              \/ status \notin Terminal /\ Write("cancelling", "restart")
  <2>1. Flying'
    BY <1>1, <1>3, LeaveKeeps
  <2>2. Rowing'
    BY <1>1, <1>2, <1>3, LeaveEffect, WhoActs, ActorKeeps
  <2>3. QED
    BY <2>1, <2>2
<1>4. CASE UNCHANGED <<status, stage, claim>> /\ Join(Worker, "sync")
  <2>1. Flying'
    BY <1>1, <1>4, WhoActs, JoinKeeps
  <2>2. \A r \in Requests : pc'[r] # "idle" <=> pc[r] # "idle"
    BY <1>1, <1>4, JoinEffect, WhoActs DEF Flying, FlightTypes
  <2>3. Rowing'
    BY <1>1, <1>2, <1>4, <2>2, JoinEffect, WhoActs, ActorKeeps DEF Flying
  <2>4. QED
    BY <2>1, <2>3
<1>5. QED
  BY <1>3, <1>4 DEF Recovered

LEMMA HostEndsStep ==
  ASSUME Flying, Rowing, NEW s \in Segments, HostEnds(s)
  PROVE  Flying' /\ Rowing'
<1>1. UNCHANGED <<row, published, kids, flights, actors, up, stops, faults, assembles>>
  BY DEF HostEnds
<1>2. Flying'
  BY <1>1 DEF flights, actors, Flying, FlightTypes, Registry, HandOver, WaitersSurvive, Live
<1>3. host' \in [Segments -> HostStates]
  <2>1. PICK h \in HostStates : host' = [host EXCEPT ![s] = h]
    BY DEF HostEnds, HostStates
  <2>2. QED
    BY <2>1, WhoActs
<1>4. Rowing'
  BY <1>1, <1>3, WhoActs, ActorKeeps DEF row, flights, actors
<1>5. QED
  BY <1>2, <1>4


\* What a request preempts, and what it leaves of a claim.
LEMMA ClickFacts ==
  ASSUME Flying, Rowing, up
  PROVE  /\ (current # None /\ kind[current] = "sync") => Asked
         /\ (current # None /\ kind[current] = "probe") => cancel
         /\ (current # None /\ kind[current] # "assembly") =>
              claim = None /\ stage # "assembling"
         /\ current = None => claim = None /\ stage # "assembling"
         /\ Asked => claim = None /\ stage # "assembling"
         /\ \A f \in Flights : phase[f] = "assembling" /\ f \notin doomed => current = f
         /\ \A f \in Flights : phase[f] = "assembling" /\ f \notin doomed => claim = f
<1> USE ConstantAssumption DEF Live
<1>1. \A f \in Flights : phase[f] = "assembling" /\ f \notin doomed => current = f /\ claim = f
  BY DEF Flying, Registry, Rowing, Claims
<1>2. /\ (current # None /\ kind[current] = "sync") => Asked
      /\ (current # None /\ kind[current] = "probe") => cancel
  BY DEF Flying, FlightTypes, Registry, Rowing, Intents
<1>3. /\ claim # None => /\ claim \in Flights /\ phase[claim] = "assembling" /\ status = "running"
                         /\ ~cancel /\ claim \notin doomed /\ current = claim
      /\ stage = "assembling" => claim # None
  BY <1>1 DEF Rowing, RowTypes, Claims
<1>4. claim # None => ~Asked
  BY <1>3 DEF Asked, Terminal
<1>5. current # None /\ kind[current] # "assembly" => Asked
  BY <1>2 DEF Flying, FlightTypes, Asked
<1>6. QED
  BY <1>1, <1>2, <1>3, <1>4, <1>5

LEMMA ClickStep ==
  ASSUME Flying, Rowing, NEW r \in Requests, Click(r)
  PROVE  Flying' /\ Rowing'
<1> DEFINE first == ~cancel /\ status \notin Terminal
           joins == /\ current # None /\ kind[current] # "assembly"
                    /\ (kind[current] = "probe" \/ ~first)
           preempts == current # None /\ ~joins
<1> HIDE DEF first, joins, preempts
<1>1. /\ up /\ up' /\ pc[r] = "idle" /\ r \in Actors /\ r # Worker
      /\ cancel' = (cancel \/ first)
      /\ IF preempts /\ status \notin Terminal
         THEN Write("cancelling", "cancelling")
         ELSE UNCHANGED <<status, stage>> /\ claim' = IF first THEN None ELSE claim
      /\ pc' = [pc EXCEPT ![r] = "probe"]
      /\ UNCHANGED <<published, kids, host, got, todo, held, trouble, answer, up, stops, faults,
                     assembles>>
  BY ConstantAssumption DEF Click, Actors, first, joins, preempts
<1>2. CASE joins /\ on' = [on EXCEPT ![r] = current] /\ UNCHANGED flights
  <2> USE <1>1, <1>2
  <2>1. current # None /\ kind[current] # "assembly" /\ Asked /\ claim = None
        /\ stage # "assembling" /\ (kind[current] = "probe" => cancel)
    BY ClickFacts DEF joins, Flying, FlightTypes, Asked
  <2>2. ~first /\ ~preempts
    BY <2>1 DEF first, joins, preempts, Asked
  <2>3. UNCHANGED row
    BY <2>2 DEF row, Rowing, RowTypes
  <2>4. on[r] = None /\ got[r] = "none"
    BY DEF Flying, HandOver
  <2>5. Flying'
    BY <2>1, <2>4, ConstantAssumption
       DEF Flying, flights, FlightTypes, Registry, HandOver, WaitersSurvive, Live
  <2>6. pc'[Worker] = pc[Worker]
    BY DEF Flying, FlightTypes, Actors
  <2>7. Rowing'
    BY <2>1, <2>3, <2>6, WhoActs, ActorKeeps DEF row, flights
  <2>8. QED
    BY <2>5, <2>7
<1>3. ASSUME NEW f \in Flights, ~joins, Register(f, IF first THEN "probe" ELSE "sync"),
             on' = [on EXCEPT ![r] = f],
             doomed' = (IF current # None THEN doomed \cup {current} ELSE doomed),
             heir' = (IF current # None THEN [heir EXCEPT ![current] = f] ELSE heir)
      PROVE  Flying' /\ Rowing'
  <2>1. PICK k \in {"probe", "sync"} : Register(f, k) /\ (k = "probe" <=> first)
    BY <1>3
  <2> USE <1>1, <1>3, <2>1 DEF Register, Live
  <2>2. current # None => kind[current] = "assembly" /\ current # f /\ Live(current)
    BY ClickFacts DEF joins, first, Flying, FlightTypes, Registry, Asked
  <2>3. on[r] = None /\ got[r] = "none" /\ f \notin doomed /\ heir[f] = None /\ legacy[f] = "none"
    BY DEF Flying, Registry, HandOver
  <2>4. FlightTypes'
    BY DEF Flying, FlightTypes
  <2>5. Registry'
    BY <2>2, <2>3, ConstantAssumption DEF Flying, FlightTypes, Registry
  <2>6. WaitersSurvive'
    BY DEF Flying, FlightTypes, WaitersSurvive
  <2>7. HandOver'
    <3>1. \A g \in Flights : g \notin doomed' => heir'[g] = None /\ legacy'[g] = "none"
      BY <2>2, <2>3 DEF Flying, FlightTypes, HandOver
    <3>2. \A g \in Flights : heir'[g] # None =>
            phase'[heir'[g]] # "free" /\ kind'[heir'[g]] # "assembly"
      BY <2>2, <2>3, ConstantAssumption DEF Flying, FlightTypes, Registry, HandOver
    <3>3. \A g \in Flights : g \in doomed' =>
            kind'[g] = "assembly" /\ (heir'[g] # None \/ legacy'[g] # "none")
      BY <2>2, <2>3, ConstantAssumption DEF Flying, FlightTypes, Registry, HandOver
    <3>4. \A g \in Flights : legacy'[g] # "preempted"
      BY DEF Flying, HandOver
    <3>5. \A a \in Actors : on'[a] # None =>
            /\ phase'[on'[a]] # "free" /\ pc'[a] \in {"probe", "await", "handoff"}
            /\ pc'[a] # "await" => kind'[on'[a]] # "assembly"
      BY <2>2, <2>3, ConstantAssumption DEF Flying, FlightTypes, Registry, HandOver
    <3>6. \A a \in Actors : got'[a] # "none" =>
            on'[a] = None /\ pc'[a] \in {"probe", "await", "handoff"}
      BY <2>3 DEF Flying, FlightTypes, HandOver
    <3>7. QED
      BY <3>1, <3>2, <3>3, <3>4, <3>5, <3>6 DEF HandOver
  <2>8. Asked' /\ claim' = None /\ stage' # "assembling" /\ (status' = "cancelling" => cancel')
    <3>1. CASE preempts /\ status \notin Terminal
      BY <3>1 DEF Write, first, Asked
    <3>2. CASE ~(preempts /\ status \notin Terminal)
      <4>1. current = None \/ status \in Terminal
        BY <3>2 DEF preempts
      <4>2. claim = None /\ stage # "assembling"
        BY <4>1, ClickFacts DEF Asked
      <4>3. (cancel' \/ status \in Terminal) /\ (status = "cancelling" => cancel)
        BY DEF first, Rowing, Intents
      <4>4. QED
        BY <3>2, <4>2, <4>3 DEF Asked
    <3>3. QED
      BY <3>1, <3>2
  <2>9. /\ status' = status \/ (status \notin Terminal /\ status' = "cancelling")
        /\ status' \in Statuses /\ stage' \in Stages /\ cancel' \in BOOLEAN
        /\ claim' \in Flights \cup {None}
    BY <2>8, ConstantAssumption DEF Write, Statuses, Stages, Rowing, RowTypes, first
  <2>10. RowTypes'
    BY <2>9 DEF Rowing, RowTypes
  <2>11. \A g \in Flights : phase'[g] = "assembling" => g \in doomed'
    BY <2>2, ClickFacts, ConstantAssumption DEF Flying, FlightTypes
  <2>12. Claims'
    BY <2>8, <2>11 DEF Claims
  <2>13. Intents'
    <3>1. cancel => cancel'
      OBVIOUS
    <3>2. pc'[Worker] = pc[Worker]
      BY DEF Flying, FlightTypes, Actors
    <3>3. \A g \in Flights : phase'[g] # "free" /\ kind'[g] = "probe" => cancel'
      BY <3>1 DEF Flying, FlightTypes, Rowing, Intents, first
    <3>4. assembles' /\ cancel' => status' # "succeeded"
      BY <2>9 DEF Rowing, Intents, first, Terminal
    <3>5. QED
      BY <2>8, <3>1, <3>2, <3>3, <3>4 DEF Rowing, Intents, Asked
  <2>14. TerminalIsCoherent'
    BY <2>9 DEF Rowing, TerminalIsCoherent, AllEnded, Ended, Complete, Theirs, Terminal
  <2>15. QED
    BY <2>4, <2>5, <2>6, <2>7, <2>10, <2>12, <2>13, <2>14 DEF Flying, Rowing
<1>4. QED
  BY <1>2, <1>3 DEF Click, joins, first

\* The end of the process, and its next start.
LEMMA CrashStep ==
  ASSUME Flying, Rowing, Crash
  PROVE  Flying' /\ Rowing'
<1> USE ConstantAssumption DEF Crash, Gone
<1>1. FlightTypes' /\ Registry' /\ HandOver' /\ WaitersSurvive'
  BY DEF Flying, FlightTypes, Registry, HandOver, WaitersSurvive, Live, Results
<1>2. stops' \in 0..MaxStops
  BY DEF Rowing, RowTypes
<1>3. RowTypes'
  BY <1>2 DEF Rowing, RowTypes
<1>4. Claims' /\ Intents'
  BY DEF Rowing, Claims, Intents, Asked, Live, Actors
<1>5. TerminalIsCoherent'
  BY DEF Rowing, TerminalIsCoherent, AllEnded, Ended, Complete, Theirs
<1>6. QED
  BY <1>1, <1>3, <1>4, <1>5 DEF Flying, Rowing

LEMMA ShutdownStep ==
  ASSUME Flying, Rowing, Shutdown
  PROVE  Flying' /\ Rowing'
<1> USE ConstantAssumption DEF Shutdown, Gone, row, flights
<1>1. FlightTypes' /\ Registry' /\ HandOver' /\ WaitersSurvive'
  BY DEF Flying, FlightTypes, Registry, HandOver, WaitersSurvive, Live, Results
<1>2. stops' \in 0..MaxStops
  BY DEF Rowing, RowTypes
<1>3. RowTypes'
  BY <1>2 DEF Rowing, RowTypes
<1>4. Claims' /\ Intents'
  BY DEF Rowing, Claims, Intents, Asked, Live, Actors, Complete
<1>5. TerminalIsCoherent'
  BY DEF Rowing, TerminalIsCoherent, AllEnded, Ended, Complete, Theirs
<1>6. QED
  BY <1>1, <1>3, <1>4, <1>5 DEF Flying, Rowing

LEMMA CancelFlightsStep ==
  ASSUME Flying, Rowing, CancelFlights
  PROVE  Flying' /\ Rowing'
<1> USE ConstantAssumption DEF CancelFlights, row, actors, Live
<1>1. FlightTypes' /\ Registry' /\ HandOver' /\ WaitersSurvive'
  BY DEF Flying, FlightTypes, Registry, HandOver, WaitersSurvive
<1>2. RowTypes' /\ Claims' /\ Intents'
  BY DEF Rowing, RowTypes, Claims, Intents, Asked, Complete, Flying, Registry
<1>3. TerminalIsCoherent'
  BY DEF Rowing, TerminalIsCoherent, AllEnded, Ended, Complete, Theirs
<1>4. QED
  BY <1>1, <1>2, <1>3 DEF Flying, Rowing

LEMMA StartupStep ==
  ASSUME Flying, Rowing, Startup
  PROVE  Flying' /\ Rowing'
<1>1. /\ ~up /\ up' = TRUE /\ \A f \in Flights : ~Live(f)
      /\ UNCHANGED <<cancel, published, host, flights, actors, stops, faults, assembles>>
  BY DEF Startup
<1>2. doomed = {} /\ current = None /\ claim = None
  BY <1>1, ConstantAssumption
     DEF Flying, FlightTypes, Registry, Rowing, RowTypes, Claims, Live
<1>3. FlightTypes' /\ Registry' /\ HandOver' /\ WaitersSurvive'
  BY <1>1, <1>2, ConstantAssumption
     DEF flights, actors, Flying, FlightTypes, Registry, HandOver, WaitersSurvive, Live
<1>4. /\ kids' \in [Segments -> KidStates]
      /\ \A s \in Segments : Ended(s) => kids'[s] = kids[s]
  BY WhoActs DEF Startup, KidStates
<1>5. (AllEnded => kids' = kids) /\ (Complete => kids' = kids)
  BY <1>4, WhoActs DEF AllEnded, Ended, Complete
<1>6. /\ claim' = None
      /\ \/ UNCHANGED <<status, stage>> /\ stage # "assembling"
         \/ status' = "cancelling" /\ cancel /\ status \notin Terminal /\ stage' = "restart"
         \/ status' = status /\ stage' = "assembly_retry"
  BY <1>2 DEF Startup, Write
<1>7. RowTypes'
  BY <1>1, <1>4, <1>6 DEF actors, Rowing, RowTypes, Statuses, Stages
<1>8. Claims'
  BY <1>1, <1>2, <1>6 DEF flights, Claims, Live
<1>9. Intents'
  BY <1>1, <1>6 DEF flights, actors, Rowing, Intents, Asked, Live, Terminal
<1>10. TerminalIsCoherent'
  BY <1>1, <1>5, <1>6
     DEF Rowing, TerminalIsCoherent, AllEnded, Ended, Complete, Theirs, Terminal
<1>11. QED
  BY <1>3, <1>7, <1>8, <1>9, <1>10 DEF Flying, Rowing

LEMMA InitStep ==
  ASSUME Init
  PROVE  Flying /\ Rowing
<1> USE ConstantAssumption DEF Init
<1>1. FlightTypes /\ Registry /\ HandOver /\ WaitersSurvive
  BY DEF FlightTypes, Registry, HandOver, WaitersSurvive, Live, Results
<1>2. RowTypes
  <2>1. status \in Statuses /\ stage \in Stages /\ cancel \in BOOLEAN
    BY DEF Statuses, Stages
  <2>2. kids \in [Segments -> KidStates] /\ host \in [Segments -> HostStates]
    BY DEF KidStates, HostStates
  <2>3. stops \in 0..MaxStops /\ faults \in 0..MaxFaults
    OBVIOUS
  <2>4. QED
    BY <2>1, <2>2, <2>3 DEF RowTypes
<1>3. Claims /\ Intents /\ TerminalIsCoherent
  BY DEF Claims, Intents, Asked, Live, Actors, TerminalIsCoherent, Terminal
<1>4. QED
  BY <1>1, <1>2, <1>3 DEF Flying, Rowing

LEMMA NextStep ==
  ASSUME Flying, Rowing, [Next]_vars
  PROVE  Flying' /\ Rowing'
<1>1. CASE \E f \in Flights : Fly(f)
  <2>1. ASSUME NEW f \in Flights, Aggregate(f)
        PROVE  Flying' /\ Rowing'
    BY <2>1, DecideStep DEF Aggregate, Live
  <2>2. QED
    BY <1>1, <2>1, BeginStep, ReadStep, AssembledStep, UnwindStep DEF Fly
<1>2. CASE \E r \in Requests : Click(r) \/ Act(r)
  BY <1>2, ClickStep, ProbedStep, DispatchedStep, RespondedStep DEF Act
<1>3. CASE \E a \in Actors : Wait(a)
  BY <1>3, SendStep, ReplyStep, RejoinStep DEF Wait
<1>4. CASE Reconciling \/ Recovering
  BY <1>4, ReconcileStep, ReconciledStep, RecoverStep, RecoveredStep, RestedStep
     DEF Reconciling, Recovering
<1>5. CASE \E s \in Segments : HostEnds(s)
  BY <1>5, HostEndsStep
<1>6. CASE Crash \/ Shutdown \/ CancelFlights \/ Startup
  BY <1>6, CrashStep, ShutdownStep, CancelFlightsStep, StartupStep
<1>7. CASE UNCHANGED vars
  <2>1. Flying'
    BY <1>7 DEF vars, row, flights, actors, Flying, FlightTypes, Registry, HandOver,
       WaitersSurvive, Live
  <2>2. Rowing'
    BY <1>7, WhoActs, ActorKeeps DEF vars, row, flights, actors
  <2>3. QED
    BY <2>1, <2>2
<1>8. QED
  BY <1>1, <1>2, <1>3, <1>4, <1>5, <1>6, <1>7 DEF Next

LEMMA Holds == Spec => [](Flying /\ Rowing)
<1>1. Init => Flying /\ Rowing
  BY InitStep
<1>2. (Flying /\ Rowing) /\ [Next]_vars => (Flying /\ Rowing)'
  BY NextStep
<1>3. QED
  BY <1>1, <1>2, PTL DEF Spec

\* The types of the rows, the flights and the actors.
THEOREM TimelineTypeCorrect == Spec => []TypeOK
<1>1. Flying /\ Rowing => TypeOK
  BY TypesSplit DEF Flying, Rowing
<1>2. QED
  BY <1>1, Holds, PTL

\* Registry, claim, intents and hand-over stay consistent through preemption,
\* stop and restart (_register_timeline_sync_task, claim_job_stage).
THEOREM FlightInvariantHolds == Spec => []FlightInvariant
<1>1. Flying /\ Rowing => FlightInvariant
  BY DEF Flying, Rowing, FlightInvariant
<1>2. QED
  BY <1>1, Holds, PTL

\* A waiter of a preempted flight never takes its cancellation for its own, so
\* neither background task dies of a cancel request (_sync_timeline_job).
THEOREM WaitersSurviveHolds == Spec => []WaitersSurvive
<1>1. Flying => WaitersSurvive
  BY DEF Flying
<1>2. QED
  BY <1>1, Holds, PTL

\* No failure, cancel, stop or restart strands the claim of an assembly
\* (claim_job_stage, recover_interrupted_assemblies).
THEOREM ClaimHasOwnerHolds == Spec => []ClaimHasOwner
<1>1. Flying /\ Rowing => ClaimHasOwner
  BY ConstantAssumption DEF Flying, Registry, Live, Rowing, RowTypes, Claims, ClaimHasOwner
<1>2. QED
  BY <1>1, Holds, PTL

\* No movie is assembled for a job whose cancel was requested
\* (_sync_timeline_before_cancel, finalize_observed_assembly_artifact).
THEOREM NoAssemblyAfterClickHolds == Spec => []NoAssemblyAfterClick
<1>1. Flying /\ Rowing => NoAssemblyAfterClick
  BY ConstantAssumption DEF Rowing, Claims, Intents, NoAssemblyAfterClick
<1>2. QED
  BY <1>1, Holds, PTL

\* The job's end agrees with its children, its movie and its cancel request
\* (_sync_timeline_job_once).
THEOREM TerminalIsCoherentHolds == Spec => []TerminalIsCoherent
<1>1. Rowing => TerminalIsCoherent
  BY DEF Rowing
<1>2. QED
  BY <1>1, Holds, PTL
=============================================================================
