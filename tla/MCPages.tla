------------------------------- MODULE MCPages --------------------------------
(***************************************************************************)
(* Pages with walks from offsets -1 to 1 and pages of up to 2 of up to 5   *)
(* entries, so that a walk has up to four boundaries between pages; limits *)
(* just outside of what is admitted are asked for, too.                    *)
(***************************************************************************)
EXTENDS Pages

MCLimits  == 0..(MaxLimit + 1)
MCOffsets == -1..1
=============================================================================
