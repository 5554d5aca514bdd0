------------------------------ MODULE MCWsRelay ------------------------------
(***************************************************************************)
(* Every session with up to MaxFrames frames with content in each          *)
(* direction, so that one can be held by a task while others wait or have  *)
(* arrived, and frames without content in between.                         *)
(***************************************************************************)
EXTENDS WsRelay
=============================================================================
