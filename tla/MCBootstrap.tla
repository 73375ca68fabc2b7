---------------------------- MODULE MCBootstrap -----------------------------
(* Two overlapping pods, two task files, one rotation of the token, one spoilt     *)
(* edit of the ConfigMap.                                                         *)
EXTENDS Bootstrap

TwoFaultsOneCrash ==
    [b \in BudgetItems |-> IF b = "fault" THEN 2 ELSE 1]
=============================================================================
