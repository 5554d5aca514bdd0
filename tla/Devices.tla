------------------------------- MODULE Devices -------------------------------
(***************************************************************************)
(* Attaching and detaching devices of an instance.  LXD has no such        *)
(* operation: attach_volume and detach_volume (routes/storage.py) and      *)
(* attach_nic and detach_nic (routes/networks.py) GET the instance, edit   *)
(* the devices they got, and PATCH the instance with all of them.  Other   *)
(* coroutines, other clients and LXD's own background work run between     *)
(* the two calls, and between the 202 and the moment the PATCH takes       *)
(* effect.                                                                 *)
(*                                                                         *)
(* One instance is modelled; edits of different instances do not meet.     *)
(***************************************************************************)
EXTENDS LxdReply

CONSTANTS
    Requests,    \* the attach and detach requests
    Pools,       \* storage pools
    Volumes,     \* names of custom volumes; a name may exist in many pools
    Networks,    \* networks
    NoDevice,    \* no device under a key
    NoJob,       \* a request that has not arrived
    Unseen,      \* the devices, before LXD has shown them to a request
    Clients      \* how clients pace their requests, see MaySubmit

VARIABLES
    instance,    \* instance[k]: the device LXD has under key k
    job,         \* job[r]: what request r asks for
    pc,          \* pc[r]: which call r's coroutine awaits
    seen,        \* seen[r]: the devices LXD showed in its reply to r's GET
    body,        \* body[r]: the devices in r's PATCH
    call,        \* call[r]: what LXD has still to do for r
    reply,       \* reply[r]: the reply that has reached the gateway
    answer,      \* answer[r]: the HTTP status r's client was given
    update       \* update[r]: LXD's operation that carries r's PATCH out

vars == <<instance, job, pc, seen, body, call, reply, answer, update>>

VolumeSpecs == {"disk"} \X Pools \X Volumes
NicSpecs    == {"nic"} \X Networks
Specs       == VolumeSpecs \cup NicSpecs

(* device_key = f"vol_{name}" does not depend on the pool. *)
VolumeKey(spec) == <<"vol", spec[3]>>
NicKey(spec)    == <<"nic", spec[2]>>
Keys == {VolumeKey(s) : s \in VolumeSpecs} \cup {NicKey(s) : s \in NicSpecs}

(* A NIC's key is nic_{name}, or any key that ?device_name= names. *)
Jobs == [op : {"attach", "detach"}, key : Keys, dev : NicSpecs] \cup
        {[op |-> op, key |-> VolumeKey(s), dev |-> s] :
            op \in {"attach", "detach"}, s \in VolumeSpecs}

Instances == [Keys -> Specs \cup {NoDevice}]
Empty     == [k \in Keys |-> NoDevice]

ASSUME DevicesAssumption ==
    /\ Clients \in {"waiting", "sequential", "concurrent"}
    /\ NoDevice \notin Specs
    /\ NoJob \notin Jobs
    /\ Unseen \notin Instances
    /\ OpIds # {}

(* A bug: devices.setdefault(device_key, {...}) keeps what is there. *)
edited_by_setdefault(j, devices) ==
    [devices EXCEPT ![j.key] =
        IF j.op = "detach" THEN NoDevice
        ELSE IF devices[j.key] = NoDevice THEN j.dev ELSE devices[j.key]]

(* devices[device_key] = {...}, or devices.pop(device_key, None). *)
edited(j, devices) ==
    [devices EXCEPT ![j.key] = IF j.op = "attach" THEN j.dev ELSE NoDevice]

NoReply == Reply("none", 0, EmptyId, NoStatus)

(* Types, and that exactly the answered requests have an HTTP status. *)
TypeOK ==
    /\ instance \in Instances
    /\ job    \in [Requests -> Jobs \cup {NoJob}]
    /\ pc     \in [Requests -> {"idle", "reading", "patching", "answered"}]
    /\ seen   \in [Requests -> Instances \cup {Unseen}]
    /\ body   \in [Requests -> Instances]
    /\ call   \in [Requests -> {"none", "get", "patch"}]
    /\ reply  \in [Requests -> Replies \cup {NoReply}]
    /\ answer \in [Requests -> {0} \cup 200..599]
    /\ update \in [Requests -> {"none", "running", "applied", "failed"}]
    /\ \A r \in Requests : pc[r] = "answered" <=> answer[r] # 0

Init ==
    /\ instance \in Instances
    /\ job    = [r \in Requests |-> NoJob]
    /\ pc     = [r \in Requests |-> "idle"]
    /\ seen   = [r \in Requests |-> Unseen]
    /\ body   = [r \in Requests |-> Empty]
    /\ call   = [r \in Requests |-> "none"]
    /\ reply  = [r \in Requests |-> NoReply]
    /\ answer = [r \in Requests |-> 0]
    /\ update = [r \in Requests |-> "none"]

Answered(r) == pc[r] = "answered"
Awaiting(r) == pc[r] \in {"reading", "patching"}

-----------------------------------------------------------------------------
(* Clients *)

Over(r)  == pc[r] \in {"idle", "answered"}
Quiet(r) == Over(r) /\ call[r] = "none" /\ update[r] # "running"

(* "waiting" clients let LXD end the last edit before they ask for the     *)
(* next one; "sequential" ones only await the answer, as a script does     *)
(* that calls the API line by line; "concurrent" ones do not coordinate.   *)
MaySubmit ==
    CASE Clients = "waiting"    -> \A r \in Requests : Quiet(r)
      [] Clients = "sequential" -> \A r \in Requests : Over(r)
      [] OTHER                  -> TRUE

Submit(r, j) ==
    /\ MaySubmit
    /\ pc[r] = "idle"
    /\ job'  = [job EXCEPT ![r] = j]
    /\ pc'   = [pc EXCEPT ![r] = "reading"]
    /\ call' = [call EXCEPT ![r] = "get"]
    /\ UNCHANGED <<instance, seen, body, reply, answer, update>>

-----------------------------------------------------------------------------
(* The gateway: a handler resumes with the outcome of the call it awaits. *)

Answer(r, http) ==
    /\ pc'     = [pc EXCEPT ![r] = "answered"]
    /\ answer' = [answer EXCEPT ![r] = http]
    /\ reply'  = [reply EXCEPT ![r] = NoReply]
    /\ UNCHANGED <<job, seen, body, call>>

(* Either call: `except LXDError as exc: raise _lxd_err_to_http(exc)`. *)
Fails(r, out) ==
    /\ out.exc # "none"
    /\ Answer(r, lxd_err_to_http(out))

(* A bug: the PATCH carries the device of this request only. *)
PatchesOneDevice(r, out) ==
    /\ pc[r] = "reading"
    /\ out.exc = "none"
    /\ body'  = [body EXCEPT ![r] = edited(job[r], Empty)]
    /\ pc'    = [pc EXCEPT ![r] = "patching"]
    /\ call'  = [call EXCEPT ![r] = "patch"]
    /\ reply' = [reply EXCEPT ![r] = NoReply]
    /\ UNCHANGED <<job, seen, answer>>

(* The devices of the reply, or {} if it is no dict, with this request's   *)
(* edit, are sent back.                                                    *)
ReadReturns(r, out) ==
    /\ pc[r] = "reading"
    /\ out.exc = "none"
    /\ body'  = [body EXCEPT ![r] =
                   edited(job[r], IF out.dict THEN seen[r] ELSE Empty)]
    /\ pc'    = [pc EXCEPT ![r] = "patching"]
    /\ call'  = [call EXCEPT ![r] = "patch"]
    /\ reply' = [reply EXCEPT ![r] = NoReply]
    /\ UNCHANGED <<job, seen, answer>>

(* `return to_async_ref(result).model_dump()` *)
PatchReturns(r, out) ==
    /\ pc[r] = "patching"
    /\ out.exc = "none"
    /\ Answer(r, 202)

Resume(r, out) ==
    /\ Fails(r, out) \/ ReadReturns(r, out) \/ PatchReturns(r, out)
    /\ UNCHANGED <<instance, update>>

Deliver(r) ==
    /\ reply[r] # NoReply
    /\ Resume(r, request(reply[r]))

Timeout(r) ==
    /\ Awaiting(r)
    /\ reply[r] = NoReply
    /\ Resume(r, request(Plain("timeout")))

ConnectionFails(r) ==
    /\ Awaiting(r)
    /\ Resume(r, request(Plain("transport")))

-----------------------------------------------------------------------------
(* LXD (external).  The handlers rely on two things: that the reply to the *)
(* GET carries the devices, and that a PATCH replaces the devices by those *)
(* of its body, for only then does leaving one out remove it.              *)

Respond(r, rp) ==
    /\ call'  = [call EXCEPT ![r] = "none"]
    /\ reply' = IF Awaiting(r) THEN [reply EXCEPT ![r] = rp] ELSE reply

(* An instance without devices may also be answered without the field. *)
LxdShowsInstance(r) ==
    /\ call[r] = "get"
    /\ seen' = [seen EXCEPT ![r] = instance]
    /\ \/ Respond(r, Plain("object"))
       \/ instance = Empty /\ Respond(r, Plain("null"))
    /\ UNCHANGED <<instance, job, pc, body, answer, update>>

(* Neither call is carried out: no such instance, a conflict, a proxy. *)
LxdRejects(r) ==
    /\ call[r] \in {"get", "patch"}
    /\ \/ \E code \in ErrorCodes : Respond(r, ErrorReply(code))
       \/ \E code \in PageCodes : Respond(r, PageReply(code))
    /\ UNCHANGED <<instance, job, pc, seen, body, answer, update>>

(* LXD starts an operation for the PATCH, also when nobody awaits it any   *)
(* more; a proxy may lose the reply but does not make a 4xx of it.         *)
LxdAcceptsPatch(r) ==
    /\ call[r] = "patch"
    /\ update' = [update EXCEPT ![r] = "running"]
    /\ \/ \E o \in OpIds : Respond(r, Reply("operation", 0, o, "Running"))
       \/ \E code \in PageCodes \ (400..499) : Respond(r, PageReply(code))
    /\ UNCHANGED <<instance, job, pc, seen, body, answer>>

LxdAppliesPatch(r) ==
    /\ update[r] = "running"
    /\ instance' = body[r]
    /\ update'   = [update EXCEPT ![r] = "applied"]
    /\ UNCHANGED <<job, pc, seen, body, call, reply, answer>>

LxdFailsPatch(r) ==
    /\ update[r] = "running"
    /\ update' = [update EXCEPT ![r] = "failed"]
    /\ UNCHANGED <<instance, job, pc, seen, body, call, reply, answer>>

-----------------------------------------------------------------------------
Gateway(r) ==
    \/ \E j \in Jobs : Submit(r, j)
    \/ Deliver(r)
    \/ Timeout(r)
    \/ ConnectionFails(r)

Lxd(r) ==
    \/ LxdShowsInstance(r)
    \/ LxdRejects(r)
    \/ LxdAcceptsPatch(r)
    \/ LxdAppliesPatch(r)
    \/ LxdFailsPatch(r)

(* Every request is answered and LXD has nothing left to do. *)
AllDone ==
    /\ \A r \in Requests : Answered(r) /\ Quiet(r)
    /\ UNCHANGED vars

Next == (\E r \in Requests : Gateway(r) \/ Lxd(r)) \/ AllDone

Spec == Init /\ [][Next]_vars

-----------------------------------------------------------------------------
(* Properties *)

Applies(r) == update[r] = "running" /\ update'[r] = "applied"

(* However requests interleave, an edit whose GET saw the devices that its *)
(* PATCH replaces does what it was asked for, and nothing else.            *)
UnracedEditIsExact ==
    [][\A r \in Requests :
          Applies(r) /\ seen[r] = instance => instance' = edited(job[r], instance)]_vars

(* A 4xx answer to an attach or detach, from either call, means that the   *)
(* devices have not been and will not be changed for it.                   *)
RejectedEditHasNoEffect ==
    \A r \in Requests :
        answer[r] \in 400..499 => update[r] = "none" /\ call[r] # "patch"

-----------------------------------------------------------------------------
(* Refinement *)

Editing == INSTANCE DeviceEditing
    WITH base      <- seen,
         effective <- {r \in Requests : update[r] = "applied"}

(* However requests interleave and whatever replies are lost, each attach  *)
(* and detach that takes effect is an edit of one device on the devices    *)
(* the instance had at one moment since it was asked for.  For clients     *)
(* that wait for the end of each edit, that is an edit of one device.      *)
ImplementsEditing == Editing!Spec

-----------------------------------------------------------------------------
(* What comments of the repository say and the code does not do *)

(* storage.py:365: the handler fetches the instance "first to preserve     *)
(* existing devices".                                                      *)
ExistingDevicesArePreserved ==
    [][\A r \in Requests, k \in Keys :
          Applies(r) /\ job[r].op = "attach" /\ k # job[r].key
          => instance'[k] = instance[k]]_vars
=============================================================================
