----------------------------- MODULE MCCapacity -----------------------------
(* A worker and a master that come and go, and two pods: one dominated by its *)
(* init container's CPU, one heavier on memory, so that either resource can   *)
(* peak alone.                                                                *)
EXTENDS Capacity

Quantity(cpu, memory) == [r \in Resources |-> IF r = "cpu" THEN cpu ELSE memory]

\* The master has room that must not count.
TwoNodes ==
    [n \in {"worker", "master"} |->
        [allocatable |-> Quantity(4, 4),
         taints      |-> {},
         labels      |-> IF n = "master" THEN {"node-role.kubernetes.io/master"}
                                         ELSE {}]]

TwoPods ==
    [p \in {"init", "plain"} |->
        IF p = "init"
          THEN [containers     |-> [c \in {"main"} |-> Quantity(1, 1)],
                initContainers |-> [c \in {"setup"} |-> Quantity(3, 1)]]
          ELSE [containers     |-> [c \in {"main", "side"} |-> Quantity(1, 1)],
                initContainers |-> [c \in {} |-> Quantity(0, 0)]]]

BudgetOf(faults, restarts, admins) ==
    [b \in BudgetItems |-> CASE b = "fault"   -> faults
                             [] b = "restart" -> restarts
                             [] b = "admin"   -> admins]

OneOfEach == BudgetOf(1, 1, 1)
Nothing   == BudgetOf(0, 0, 0)
=============================================================================
