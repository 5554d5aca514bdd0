------------------------------ MODULE MCDevices ------------------------------
(***************************************************************************)
(* Devices on small instances: requests for one volume name that exists in *)
(* two pools and for one network, so that edits of the same key and of     *)
(* different keys meet; one code of each class for errors and pages.       *)
(***************************************************************************)
EXTENDS Devices, TLC

MCErrorCodes == {400, 404, 500}
MCPageCodes  == {404, 502}

MCSymmetry == Permutations(Requests)
=============================================================================
