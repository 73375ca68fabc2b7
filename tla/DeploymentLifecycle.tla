------------------------ MODULE DeploymentLifecycle ------------------------
(***************************************************************************)
(* What a user of the operator may rely on, whatever the caches, conflicts,*)
(* faults and restarts behind it: a Deployment only moves forward through  *)
(* its phases, its outcome is final, and nothing is reported about it once *)
(* its deletion has been requested.                                        *)
(***************************************************************************)
CONSTANT Deployments

VARIABLES
    life,     \* life[d]: "none" while there is no such CR, else its phase
    leaving   \* leaving[d]: its deletion has been requested

vars == <<life, leaving>>

Outcomes == {"Succeeded", "Failed"}

Init ==
    /\ life = [d \in Deployments |-> "none"]
    /\ leaving = [d \in Deployments |-> FALSE]

Create(d) ==
    /\ life[d] = "none"
    /\ life' = [life EXCEPT ![d] = ""]
    /\ UNCHANGED leaving

\* The operator reports a phase.  "" is never reported, "Running" comes before
\* an outcome, and an outcome is the end.
Report(d) ==
    /\ life[d] \in {"", "Running"}
    /\ ~leaving[d]
    /\ \E phase \in {"Running"} \cup Outcomes : life' = [life EXCEPT ![d] = phase]
    /\ UNCHANGED leaving

RequestDelete(d) ==
    /\ life[d] # "none"
    /\ leaving' = [leaving EXCEPT ![d] = TRUE]
    /\ UNCHANGED life

Remove(d) ==
    /\ life[d] # "none"
    /\ life' = [life EXCEPT ![d] = "none"]
    /\ leaving' = [leaving EXCEPT ![d] = FALSE]

Next ==
    \E d \in Deployments : Create(d) \/ Report(d) \/ RequestDelete(d) \/ Remove(d)

Spec == Init /\ [][Next]_vars
=============================================================================
