----------------------------- MODULE MCMiddleware -----------------------------
(***************************************************************************)
(* Middleware with three requests over two workers, so that two run in one *)
(* worker and one in the other, and a client that makes up one id.         *)
(***************************************************************************)
EXTENDS Middleware, TLC

MCSymmetry == Permutations(Requests) \cup Permutations(Workers)
=============================================================================
