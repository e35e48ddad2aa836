-------------------------------- MODULE Sums --------------------------------
(***************************************************************************)
(* The sum of a function over a finite set, as a recursive function.       *)
(***************************************************************************)
EXTENDS Integers

(* Some element of T, the same one each time *)
Pick(T) == CHOOSE y \in T : TRUE

(* The sum of n over a finite set *)
Total(n, S) ==
  LET sum[T \in SUBSET S] == IF T = {} THEN 0 ELSE n[Pick(T)] + sum[T \ {Pick(T)}]
  IN  sum[S]
=============================================================================
