----------------------------- MODULE SeqFilter -----------------------------
(***************************************************************************)
(* The entries of a sequence that are in a set, in their order: what the   *)
(* WHERE clause of an ordered query, or a ZREM on a sorted set, leaves.    *)
(* It is SelectSeq with a membership test (see FilterIsSelectSeq), written *)
(* without recursion so that the proofs can reason about it.               *)
(***************************************************************************)
EXTENDS Naturals, Sequences, FiniteSets

\* Indices of the entries of s that are in S.
Matches(s, S) == {i \in DOMAIN s : s[i] \in S}

\* How many matches there are up to index i.
Rank(s, S, i) == Cardinality({j \in Matches(s, S) : j <= i})

\* The k-th entry that is left is the one with k matches up to it.
Filter(s, S) ==
    [k \in 1 .. Cardinality(Matches(s, S)) |->
        s[CHOOSE i \in Matches(s, S) : Rank(s, S, i) = k]]

Entries(s) == {s[i] : i \in DOMAIN s}

Without(s, S) == Filter(s, Entries(s) \ S)

=============================================================================
