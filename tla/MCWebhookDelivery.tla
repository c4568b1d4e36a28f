------------------------- MODULE MCWebhookDelivery -------------------------
(* WebhookDelivery instantiated for TLC.                                   *)
EXTENDS WebhookDelivery, SequencesExt, TLC

CONSTANTS Api, Celery   \* the processes

MCCallers == TaskWorkers \cup Sweepers \cup ApiThreads

MCProcessOf == [w \in MCCallers |-> IF w \in ApiThreads THEN Api ELSE Celery]

\* Filter is SelectSeq with a membership test.
ASSUME FilterIsSelectSeq ==
    \A s \in SeqOf(1 .. 3, 5), S \in SUBSET (1 .. 3) :
        /\ Filter(s, S) = SelectSeq(s, LAMBDA x : x \in S)
        /\ Without(s, S) = SelectSeq(s, LAMBDA x : x \notin S)

MCSymmetry == Permutations(Deliveries) \cup Permutations(TaskWorkers)

=============================================================================
