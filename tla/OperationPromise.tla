-------------------------- MODULE OperationPromise --------------------------
(***************************************************************************)
(* What the gateway promises a client that asks for an action: what each   *)
(* kind of answer says about the background work done in its name, now and *)
(* at any later time.  There is at most one job per request.               *)
(*                                                                         *)
(* The verdicts are how a client may read an answer:                       *)
(*   "tracked"    the work was started, here is its operation              *)
(*   "untracked"  there is no operation to follow; LXD may have started one *)
(*                before the answer, but starts none after it              *)
(*   "rejected"   nothing was started and nothing will be                  *)
(*   "succeeded"  the work was done                                        *)
(*   "failed"     the work was started and ended badly                     *)
(*   "unknown"    the work may be undone, running or done, or start later  *)
(* Operations implements this specification (see its section Refinement).  *)
(***************************************************************************)
CONSTANT Requests

VARIABLES job, verdict

Ended    == {"Success", "Failure", "Cancelled"}
Jobs     == {"none", "Running"} \cup Ended
Verdicts == {"none", "tracked", "untracked", "rejected", "succeeded", "failed",
             "unknown"}

Init ==
    /\ job     = [r \in Requests |-> "none"]
    /\ verdict = [r \in Requests |-> "none"]

(* Work starts before the answer is given, or after an answer that said    *)
(* that nothing is known.                                                  *)
Begin(r) ==
    /\ job[r] = "none"
    /\ verdict[r] \in {"none", "unknown"}
    /\ job' = [job EXCEPT ![r] = "Running"]
    /\ UNCHANGED verdict

End(r) ==
    /\ job[r] = "Running"
    /\ \E s \in Ended : job' = [job EXCEPT ![r] = s]
    /\ UNCHANGED verdict

(* What must be true of the work for a verdict to be given. *)
Justified(v, j) ==
    \/ v \in {"untracked", "unknown"}
    \/ v = "tracked"   /\ j # "none"
    \/ v = "rejected"  /\ j = "none"
    \/ v = "succeeded" /\ j = "Success"
    \/ v = "failed"    /\ j \in {"Failure", "Cancelled"}

Tell(r) ==
    /\ verdict[r] = "none"
    /\ \E v \in Verdicts \ {"none"} :
          /\ Justified(v, job[r])
          /\ verdict' = [verdict EXCEPT ![r] = v]
    /\ UNCHANGED job

Next == \E r \in Requests : Begin(r) \/ End(r) \/ Tell(r)

Spec == Init /\ [][Next]_<<job, verdict>>
=============================================================================
