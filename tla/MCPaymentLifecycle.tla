------------------------- MODULE MCPaymentLifecycle -------------------------
(* PaymentLifecycle instantiated for TLC.                                  *)
EXTENDS PaymentLifecycle, TLC

CONSTANT Worker   \* the process of every handler

MCProcessOf == [h \in Handlers |-> Worker]

MCSymmetry == Permutations(Nonces) \cup Permutations(Handlers)

=============================================================================
