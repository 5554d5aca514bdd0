--------------------------------- MODULE Pages ---------------------------------
(***************************************************************************)
(* The paging of all list routes (utils/pagination.py): each request has   *)
(* LXD list the whole collection and answers with a slice of it.  A client *)
(* walks a collection page by page while resources come and go, so that    *)
(* each page is cut from another list.                                     *)
(*                                                                         *)
(* Resources are numbered as they are created; LXD may list a new one at   *)
(* any place.  Counters at which the model stops are named bounds.         *)
(***************************************************************************)
EXTENDS Integers, FiniteSets, SequencesExt

CONSTANTS
    MaxLimit,     \* the largest limit that page_params admits, 1000 in the code
    Limits,       \* the limits that clients ask for
    Offsets,      \* the offsets at which they begin
    NoList,       \* a value that is no list: None or a dict
    MaxInitial,   \* bound: resources that are there from the start
    MaxCreated,   \* bound: resources created later
    MaxRetries    \* bound: failures after which a client gives up

ASSUME PagesAssumption ==
    /\ MaxLimit \in Nat \ {0}
    /\ Limits \subseteq Int /\ Offsets \subseteq Int
    /\ {MaxInitial, MaxCreated, MaxRetries} \subseteq Nat
    /\ NoList \notin Seq(Nat)

VARIABLES
    entries,     \* LXD's collection, in the order in which LXD lists it
    initial,     \* how many resources were there from the start
    pc,          \* where the walk is
    params,      \* limit and offset of its current request
    result,      \* what LXD's reply to that request gave the handler
    total,       \* "total" of the last page
    seen,        \* the items of all pages, one after another
    first,       \* what LXD would have listed from the offset when the walk began
    added,       \* resources created since the walk began
    removed,     \* resources deleted since the walk began
    masked,      \* whether a reply was no list
    failures     \* requests of this walk that were answered with an error

walkVars == <<pc, params, result, total, seen, first, masked, failures>>
vars     == <<entries, initial, added, removed, walkVars>>

Resources == 1..(MaxInitial + MaxCreated)
Params    == [limit : Limits, offset : Int]
NoParams  == [limit |-> 0, offset |-> 0]
Lists     == {s \in UNION {[1..n -> Resources] : n \in 0..(MaxInitial + MaxCreated)} :
                 IsInjective(s)}

(* Types: a list names no resource twice, and a total is never negative. *)
TypeOK ==
    /\ entries \in Lists
    /\ initial \in 0..MaxInitial
    /\ pc \in {"idle", "asked", "listed", "paged", "failed",
               "done", "refused", "gaveUp"}
    /\ params \in Params \cup {NoParams}
    /\ result \in Lists \cup {NoList}
    /\ total \in 0..(MaxInitial + MaxCreated)
    /\ ToSet(seen) \subseteq Resources
    /\ first \in Lists
    /\ added \in 0..MaxCreated /\ removed \in 0..(MaxInitial + MaxCreated)
    /\ masked \in BOOLEAN
    /\ failures \in 0..(MaxRetries + 1)

Init ==
    /\ initial \in 0..MaxInitial
    /\ entries = [i \in 1..initial |-> i]
    /\ pc = "idle" /\ params = NoParams
    /\ result = NoList /\ total = 0 /\ seen = << >> /\ first = << >>
    /\ added = 0 /\ removed = 0 /\ masked = FALSE /\ failures = 0

-----------------------------------------------------------------------------
(* utils/pagination.py *)

(* A bug: ge=0 for the limit, too. *)
page_params_of_zero(p) == p.limit \in 0..MaxLimit /\ p.offset >= 0

(* Query(100, ge=1, le=1000) and Query(0, ge=0); anything else is a 422. *)
page_params(p) == p.limit \in 1..MaxLimit /\ p.offset >= 0

(* Python's items[start:end]: positions from 0, end excluded, and nothing  *)
(* where the list is shorter.                                              *)
slice(items, start, end) ==
    SubSeq(items, start + 1, IF end < Len(items) THEN end ELSE Len(items))

(* A bug: the total of what is left. *)
paginate_remaining(items, p) ==
    [items |-> slice(items, p.offset, p.offset + p.limit),
     total |-> Len(items) - p.offset]

(* A bug: the total of the page. *)
paginate_page_total(items, p) ==
    LET page == slice(items, p.offset, p.offset + p.limit)
    IN  [items |-> page, total |-> Len(page)]

(* A bug: the slice is taken from the far end, as for the newest first. *)
paginate_reversed(items, p) ==
    [items |-> slice(Reverse(items), p.offset, p.offset + p.limit), total |-> Len(items)]

(* A bug: the end is included. *)
paginate_inclusive(items, p) ==
    [items |-> slice(items, p.offset, p.offset + p.limit + 1), total |-> Len(items)]

paginate(items, p) ==
    [items |-> slice(items, p.offset, p.offset + p.limit), total |-> Len(items)]

-----------------------------------------------------------------------------
(* The client *)

Begin(p) ==
    /\ pc = "idle"
    /\ pc'     = "asked"
    /\ params' = p
    /\ first'  = IF p.offset >= 0 THEN slice(entries, p.offset, Len(entries)) ELSE << >>
    /\ UNCHANGED <<entries, initial, added, removed, result, total, seen,
                   masked, failures>>

Walks(state, p) ==
    /\ pc'     = state
    /\ params' = p
    /\ UNCHANGED <<entries, initial, added, removed, result, total, seen,
                   first, masked, failures>>

NextPage ==
    /\ pc = "paged"
    /\ params.offset + params.limit < total
    /\ Walks("asked", [params EXCEPT !.offset = @ + params.limit])

LastPage ==
    /\ pc = "paged"
    /\ params.offset + params.limit >= total
    /\ Walks("done", params)

Retry  == pc = "failed" /\ failures <= MaxRetries /\ Walks("asked", params)
GiveUp == pc = "failed" /\ Walks("gaveUp", params)

-----------------------------------------------------------------------------
(* LXD and its other clients *)

LxdLists ==
    /\ pc = "asked" /\ page_params(params)
    /\ pc' = "listed"
    /\ result' = entries
    /\ UNCHANGED <<entries, initial, added, removed, params, total, seen, first,
                   masked, failures>>

(* An empty body, or metadata that is null or an object. *)
LxdGivesNoList ==
    /\ pc = "asked" /\ page_params(params)
    /\ pc' = "listed"
    /\ result' = NoList
    /\ masked' = TRUE
    /\ UNCHANGED <<entries, initial, added, removed, params, total, seen, first,
                   failures>>

Walking == pc \in {"asked", "listed", "paged", "failed"}

Create(i) ==
    /\ Walking
    /\ added < MaxCreated
    /\ entries' = InsertAt(entries, i, initial + added + 1)
    /\ added'   = added + 1
    /\ UNCHANGED <<initial, removed, walkVars>>

Delete(i) ==
    /\ Walking
    /\ entries' = RemoveAt(entries, i)
    /\ removed' = removed + 1
    /\ UNCHANGED <<initial, added, walkVars>>

-----------------------------------------------------------------------------
(* The list routes *)

Refuse ==
    /\ pc = "asked" /\ ~ page_params(params)
    /\ Walks("refused", params)

(* items = result if isinstance(result, list) else [] *)
Answer ==
    /\ pc = "listed"
    /\ LET items == IF result = NoList THEN << >> ELSE result
           page  == paginate(items, params)
       IN  /\ seen'  = seen \o page.items
           /\ total' = page.total
    /\ pc' = "paged"
    /\ UNCHANGED <<entries, initial, added, removed, params, result, first,
                   masked, failures>>

(* An LXDError, or no answer: before or after LXD has listed. *)
Fails ==
    /\ pc \in {"asked", "listed"} /\ page_params(params)
    /\ pc' = "failed"
    /\ failures' = failures + 1
    /\ UNCHANGED <<entries, initial, added, removed, params, result, total, seen,
                   first, masked>>

-----------------------------------------------------------------------------
Client  == NextPage \/ LastPage \/ Retry \/ GiveUp
Gateway == Refuse \/ Answer \/ Fails
Over    == pc \in {"done", "refused", "gaveUp"}

Next ==
    \/ \E l \in Limits, o \in Offsets : Begin([limit |-> l, offset |-> o])
    \/ Client \/ Gateway
    \/ LxdLists \/ LxdGivesNoList
    \/ \E i \in 1..(Len(entries) + 1) : Create(i)
    \/ \E i \in 1..Len(entries) : Delete(i)
    \/ Over /\ UNCHANGED vars

Spec == Init /\ [][Next]_vars

(* Every handler answers within LXD_TIMEOUT, and the client goes on. *)
FairSpec == Spec /\ WF_vars(Gateway) /\ WF_vars(Client)

-----------------------------------------------------------------------------
(* Properties *)

Missed  == (ToSet(first) \cap ToSet(entries)) \ ToSet(seen)
Repeats == Len(seen) - Cardinality(ToSet(seen))

(* A client that has walked to the last page has missed at most as many    *)
(* resources as were deleted during the walk, none if none was: although   *)
(* every page is cut from another list, and requests fail and are          *)
(* repeated.  (A reply that is no list is shown as an empty last page.)    *)
OnlyDeletionsHideEntries ==
    pc = "done" /\ ~ masked => Cardinality(Missed) <= removed

(* It has been shown at most as many resources twice as were created.      *)
OnlyCreationsRepeatEntries == Repeats <= added

(* While no resource is created or deleted and every reply is a list.      *)
AtRest == added = 0 /\ removed = 0 /\ ~ masked

(* A walk to the last page of a collection that is at rest has shown just  *)
(* what LXD lists from its offset on, each resource once and in LXD's      *)
(* order, whatever the limit and through failed requests: pages neither    *)
(* overlap nor leave a gap.                                                *)
QuietWalkIsExact == pc = "done" /\ AtRest => seen = first

(* A walk comes to its end, also one that began with parameters that lead  *)
(* nowhere: page_params admits no limit of 0.                              *)
EveryWalkEnds == pc = "asked" ~> Over
=============================================================================
