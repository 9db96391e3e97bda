------------------------------- MODULE Retain -------------------------------
(***************************************************************************)
(* Vec::retain and VecDeque::retain: the elements at the positions kept,   *)
(* in their order.  The k-th element kept is the one with k kept positions *)
(* up to its own.                                                          *)
(***************************************************************************)
EXTENDS Integers, Sequences, FiniteSets

\* The number of positions of `keep` up to i.
Rank(keep, i) == Cardinality({j \in keep : j <= i})

\* The k-th position of `keep`.
Kept(keep, k) == CHOOSE i \in keep : Rank(keep, i) = k

Retained(s, keep) == [k \in 1..Cardinality(keep) |-> s[Kept(keep, k)]]

\* retain(|x| x != e)
Retain(s, e) == Retained(s, {i \in DOMAIN s : s[i] # e})
=============================================================================
