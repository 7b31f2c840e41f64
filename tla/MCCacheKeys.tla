----------------------------- MODULE MCCacheKeys -----------------------------
(***************************************************************************)
(* Values for model-checking CacheKeys.                                    *)
(***************************************************************************)
EXTENDS CacheKeys

CONSTANTS c1, c2

\* Below a second, and two lifetimes of different length.
ShortLifetimes == {0, 1, 2}

=============================================================================
