------------------------------ MODULE WaitLinks ------------------------------
(***************************************************************************)
(* The links of a wait queue (osfmk/kern/wait_queue.c): a sequence of the  *)
(* elements in the order of the search.                                    *)
(***************************************************************************)
EXTENDS Naturals, FiniteSets, Sequences

\* The place of i among the positions of K.
Rank(K, i) == Cardinality({j \in K : j <= i})

\* The elements of queue q at the positions of K: those that stay, in order,
\* when the others are removed; and the first n of them.
Kept(q, K) == [n \in 1 .. Cardinality(K) |-> q[CHOOSE i \in K : Rank(K, i) = n]]
Foremost(q, K, n) == {q[i] : i \in {j \in K : Rank(K, j) <= n}}

Without(q, W) == Kept(q, {i \in DOMAIN q : q[i] \notin W})
=============================================================================
