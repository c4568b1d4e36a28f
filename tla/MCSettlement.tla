---------------------------- MODULE MCSettlement ----------------------------
(* Settlement instantiated for TLC.                                        *)
EXTENDS Settlement, TLC

MCConfig ==
    [sev \in Severities |->
        IF sev = "critical"
        THEN [threshold_minutes |-> 15, penalty_per_minute |-> 100, reward_base |-> 750]
        ELSE [threshold_minutes |-> 120, penalty_per_minute |-> 10, reward_base |-> 600]]

MCSymmetry == Permutations(Requests) \cup Permutations(Times)

=============================================================================
