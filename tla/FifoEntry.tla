----------------------------- MODULE FifoEntry -----------------------------
(***************************************************************************)
(* What the ticket chain and the submission lock promise together          *)
(* (backend/directordeck/app.py:7153-7184, 7365-7371, 8198-8401): jobs     *)
(* enter the submission section one at a time and in the order of their    *)
(* admission; a job may give up its place at any time; the operator who    *)
(* discards the RayLight row enters only when nobody has a place.          *)
(***************************************************************************)
EXTENDS Naturals

CONSTANTS MaxJobs,   \* bound: how many jobs are ever admitted
          Operator

\* A job is called by the number of its admission.
Jobs == 1..MaxJobs

VARIABLES next,     \* the job that would be admitted next
          left,     \* jobs that have given up their place
          inside    \* who is in the section

vars == <<next, left, inside>>

HasPlace(j) == j < next /\ j \notin left

Init == /\ next = 1
        /\ left = {}
        /\ inside = {}

Arrive == /\ next <= MaxJobs
          /\ next' = next + 1
          /\ UNCHANGED <<left, inside>>

Enter(j) == /\ inside = {}
            /\ HasPlace(j)
            /\ \A i \in Jobs : HasPlace(i) => i >= j
            /\ inside' = {j}
            /\ UNCHANGED <<next, left>>

\* Leaving the section and giving up a place are one step.
Leave(j) == /\ HasPlace(j)
            /\ left' = left \cup {j}
            /\ inside' = inside \ {j}
            /\ UNCHANGED next

OperatorEnters == /\ inside = {}
                  /\ \A j \in Jobs : ~HasPlace(j)
                  /\ inside' = {Operator}
                  /\ UNCHANGED <<next, left>>

OperatorLeaves == /\ Operator \in inside
                  /\ inside' = inside \ {Operator}
                  /\ UNCHANGED <<next, left>>

Next == \/ Arrive
        \/ \E j \in Jobs : Enter(j) \/ Leave(j)
        \/ OperatorEnters
        \/ OperatorLeaves

Spec == Init /\ [][Next]_vars
=============================================================================
