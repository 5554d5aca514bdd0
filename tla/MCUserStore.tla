----------------------------- MODULE MCUserStore -----------------------------
(***************************************************************************)
(* UserStore with a few workers, register calls for the admin's name and   *)
(* for one other.                                                          *)
(***************************************************************************)
EXTENDS UserStore, TLC

MCSymmetry == Permutations(Workers) \cup Permutations(Requests)
=============================================================================
