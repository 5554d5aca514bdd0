---------------------------- MODULE MCOperations ----------------------------
(***************************************************************************)
(* Operations on small instances: two concurrent requests (an action and   *)
(* whoever cancels, polls or waits for it, or two actions) and two         *)
(* operation ids, one per action; one error code of each class the status  *)
(* mapping and the properties tell apart.                                  *)
(***************************************************************************)
EXTENDS Operations, TLC

MCErrorCodes == {400, 404, 500}
MCPageCodes  == {200, 404, 502}

(* Requests, and the ids LXD gives out, are interchangeable: it is enough  *)
(* to look at the behaviours in which the requests are for endpoints in    *)
(* this order, and the ids are given out in some fixed order.  (SYMMETRY   *)
(* does not go together with liveness; this does, since it takes away no   *)
(* step of a coroutine.)                                                   *)
MCRank == [start |-> 1, startWait |-> 2, get |-> 3, cancel |-> 4, wait |-> 5,
           waitBounded |-> 6]

MCInOrder ==
    LET r1 == CHOOSE r \in Requests : TRUE
        o1 == CHOOSE o \in OpIds : TRUE
    IN  /\ \A r \in Requests :
              endpoint'[r1] # "none" /\ endpoint'[r] # "none"
              => MCRank[endpoint'[r1]] <= MCRank[endpoint'[r]]
        /\ status'[o1] = "Unused" => \A o \in OpIds : status'[o] = "Unused"
=============================================================================
