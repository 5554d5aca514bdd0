---------------------------- MODULE DeviceEditing ----------------------------
(***************************************************************************)
(* What attach and detach do to an instance, whoever else edits it: each   *)
(* request that takes effect gives the instance the devices that it had at *)
(* one moment after the request was made, with the one device of the       *)
(* request added or removed.  A request may also never take effect.  An    *)
(* edit that no other one overtakes thus changes its own device only; what *)
(* takes effect between the moment and the edit is undone by it.           *)
(* Devices implements this specification for any clients.                  *)
(***************************************************************************)
CONSTANTS Requests, Keys, Specs, NoDevice, Jobs, NoJob, Unseen

VARIABLES instance, job, base, effective

Instances == [Keys -> Specs \cup {NoDevice}]

(* The devices d after job j. *)
edited(j, d) ==
    [d EXCEPT ![j.key] = IF j.op = "attach" THEN j.dev ELSE NoDevice]

Init ==
    /\ instance \in Instances
    /\ job  = [r \in Requests |-> NoJob]
    /\ base = [r \in Requests |-> Unseen]
    /\ effective = {}

Ask(r) ==
    /\ job[r] = NoJob
    /\ \E j \in Jobs : job' = [job EXCEPT ![r] = j]
    /\ UNCHANGED <<instance, base, effective>>

(* The moment on which the edit of r rests; there is only one. *)
Look(r) ==
    /\ job[r] # NoJob
    /\ base[r] = Unseen
    /\ base' = [base EXCEPT ![r] = instance]
    /\ UNCHANGED <<instance, job, effective>>

TakeEffect(r) ==
    /\ base[r] # Unseen
    /\ r \notin effective
    /\ instance'  = edited(job[r], base[r])
    /\ effective' = effective \cup {r}
    /\ UNCHANGED <<job, base>>

Next == \E r \in Requests : Ask(r) \/ Look(r) \/ TakeEffect(r)

Spec == Init /\ [][Next]_<<instance, job, base, effective>>
=============================================================================
