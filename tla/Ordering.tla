------------------------------ MODULE Ordering ------------------------------
(***************************************************************************)
(* Lists and sums as the stages that read and build a book make them: a    *)
(* sort by a key, the entries that a loop does not pass over, a total.     *)
(* SetToSortSeq, SelectSeq and MapThenSumSet say the same, by operators    *)
(* with an operator parameter, which the prover cannot expand.             *)
(***************************************************************************)
EXTENDS SequencesExt

(* The members of S from the first to the last by at, in which no two are  *)
(* equal.                                                                  *)
InOrder(S, at) ==
  [i \in 1..Cardinality(S) |-> CHOOSE x \in S : Cardinality({y \in S : at[y] < at[x]}) = i - 1]

(* What of the sequence s is in T, in its order.                           *)
Among(s, T) ==
  LET at == InOrder({i \in DOMAIN s : s[i] \in T}, [i \in DOMAIN s |-> i])
  IN  [k \in DOMAIN at |-> s[at[k]]]

(* The sum of the numbers of f.                                            *)
SumOf(f) == Cardinality(UNION {{x} \X (1..f[x]) : x \in DOMAIN f})
=============================================================================
