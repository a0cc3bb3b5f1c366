------------------------------- MODULE Sorting -------------------------------
(***************************************************************************)
(* sort_by and sort_by_key of a slice: what they return, not how.          *)
(***************************************************************************)
EXTENDS Integers, FiniteSets

\* The elements of S in the order of Less, which tells any two apart.
Listed(S, Less(_, _)) ==
  LET place == [x \in S |-> Cardinality({y \in S : y = x \/ Less(y, x)})]
  IN  [k \in 1..Cardinality(S) |-> CHOOSE x \in S : place[x] = k]

\* The elements of s at the positions K, in the order of Less; two that it does not
\* tell apart stay as they were.
Arranged(s, K, Less(_, _)) ==
  LET place == [i \in K |-> Cardinality({j \in K : \/ Less(s[j], s[i])
                                                   \/ j <= i /\ ~Less(s[i], s[j])})]
  IN  [k \in 1..Cardinality(K) |-> s[CHOOSE i \in K : place[i] = k]]
===============================================================================
