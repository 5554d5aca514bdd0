------------------------------- MODULE MCAccess -------------------------------
(***************************************************************************)
(* Two requests of one user for one connection, so that one request runs   *)
(* while the other waits for the pool, and the row changes under both.     *)
(* LXD may refuse the gateway's own certificate with 401, and a proxy may  *)
(* answer with a page of status 202.                                       *)
(***************************************************************************)
EXTENDS Access

MCErrorCodes == {400, 401, 404}
MCPageCodes  == {202, 502}

(* Requests are interchangeable: it is enough to look at the behaviours in *)
(* which what they ask for is in this order.  (SYMMETRY does not go        *)
(* together with liveness; this does, since it takes away no step of the   *)
(* gateway.)                                                               *)
MCRank(a) ==
    LET forms == <<"json", "registered", "reference", "created", "dict",
                   "stream", "health", "session">>
    IN  4 * (CHOOSE i \in DOMAIN forms : forms[i] = a.route.form)
        + (IF NeedsUser(a) THEN level[a.route.need] ELSE 0)

MCInOrder ==
    LET first == CHOOSE r \in Requests : TRUE
    IN  \A r \in Requests :
           ask'[first] # NoAsk /\ ask'[r] # NoAsk => MCRank(ask'[first]) <= MCRank(ask'[r])
=============================================================================
