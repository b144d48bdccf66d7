--------------------------------- MODULE Sums ---------------------------------
(***************************************************************************)
(* Sums of the values of a function over a finite domain, as the code sums *)
(* up costs and latencies in loops over results.                           *)
(***************************************************************************)
EXTENDS FiniteSetsExt

\* The sum of the values of f.
Total(f) == MapThenSumSet(LAMBDA x : f[x], DOMAIN f)
=============================================================================
