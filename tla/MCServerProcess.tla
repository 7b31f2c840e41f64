--------------------------- MODULE MCServerProcess ---------------------------
(***************************************************************************)
(* Two requests, which can take both connections of the pool and wait for  *)
(* one more each.                                                          *)
(***************************************************************************)
EXTENDS ServerProcess

CONSTANTS h1, h2, c1, c2

=============================================================================
