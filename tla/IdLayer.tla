------------------------------- MODULE IdLayer -------------------------------
(***************************************************************************)
(* id.c: the ID-addressed calls.  Each dpl_*_id function checks the        *)
(* backend's get_id_path slot, asks the backend for the bucket's id path,  *)
(* composes the resource "id_path/id" into a DPL_MAXPATHLEN buffer with    *)
(* snprintf (dpl_post_id and dpl_post_buffered_id use the id path itself   *)
(* and get the new id back), checks the slot of the operation and          *)
(* dispatches to it.                                                       *)
(*                                                                         *)
(* The backend is not in this repository; its store is modelled from the   *)
(* interface as a map from resources to data.  written[id] is what the     *)
(* caller last stored under id, the view the properties are stated in.     *)
(***************************************************************************)
EXTENDS Naturals, Sequences, FiniteSets

CONSTANTS
    Ids,         \* the ids callers pass (strings)
    NewIds,      \* the ids the backend hands out for a post
    IdPath,      \* what get_id_path returns for the bucket: a string, or None
    Backends,    \* the possible vtables: each is the set of slots it sets
    Values,      \* object contents
    MaxPathLen,  \* DPL_MAXPATHLEN
    None         \* NULL / no object

\* The operation each function dispatches to and whether it composes
\* "id_path/id" (the post functions send to the id path).
Op(slot, kind, compose) == [slot |-> slot, kind |-> kind, compose |-> compose]

DplPostId         == Op("post", "post", FALSE)
DplPostBufferedId == Op("post_buffered", "post", FALSE)
DplPutId          == Op("put", "put", TRUE)
DplPutBufferedId  == Op("put_buffered", "put", TRUE)
DplGetId          == Op("get", "get", TRUE)
DplGetRangeId     == Op("get_range", "get", TRUE)
DplGetBufferedId  == Op("get_buffered", "get", TRUE)
DplHeadId         == Op("head", "head", TRUE)
DplHeadAllId      == Op("head_all", "head", TRUE)
DplHeadSysmdId    == Op("head_sysmd", "head", TRUE)
DplDeleteId       == Op("delete", "delete", TRUE)

Fns == {DplPostId, DplPostBufferedId, DplPutId, DplPutBufferedId, DplGetId, DplGetRangeId,
        DplGetBufferedId, DplHeadId, DplHeadAllId, DplHeadSysmdId, DplDeleteId}

AllIds == Ids \cup NewIds

VARIABLES
    slots,    \* the slots the bucket's backend sets (fixed for the run)
    store,    \* store[r]: the object at resource r, or None
    written,  \* written[id]: what the caller last stored under id, or None
    last      \* the last call: function, id, status and data returned

vars == <<slots, store, written, last>>

\* Mutant: the buffer size taken as sizeof of a pointer (8 bytes).
ComposeSizeofPointer(p, id) ==
    LET full == (IF p = None THEN "" ELSE p) \o "/" \o id
    IN  IF Len(full) < 8 THEN full ELSE SubSeq(full, 1, 7)

\* Mutant: sprintf with no bound.
ComposeUnbounded(p, id) == (IF p = None THEN "" ELSE p) \o "/" \o id

\* snprintf(resource, DPL_MAXPATHLEN, "%s/%s", id_path ? id_path : "", id):
\* at most DPL_MAXPATHLEN - 1 characters are kept.
Compose(p, id) ==
    LET full == (IF p = None THEN "" ELSE p) \o "/" \o id
    IN  IF Len(full) < MaxPathLen THEN full ELSE SubSeq(full, 1, MaxPathLen - 1)

Resources == {Compose(IdPath, id) : id \in AllIds}

Init ==
    /\ slots \in Backends
    /\ store = [r \in Resources |-> None]
    /\ written = [id \in AllIds |-> None]
    /\ last = [fn |-> None, id |-> None, ret |-> "SUCCESS", data |-> None]

Done(f, id, r, d) == last' = [fn |-> f, id |-> id, ret |-> r, data |-> d]

\* The backend operation on resource res, as its interface describes it.
Dispatch(f, id, res, v) ==
    CASE f.kind = "put" ->
            /\ store' = [store EXCEPT ![res] = v]
            /\ written' = [written EXCEPT ![id] = v]
            /\ Done(f, id, "SUCCESS", None)
      [] f.kind = "get" \/ f.kind = "head" ->
            /\ Done(f, id, IF store[res] = None THEN "ENOENT" ELSE "SUCCESS",
                    IF f.kind = "get" THEN store[res] ELSE None)
            /\ UNCHANGED <<store, written>>
      [] f.kind = "delete" ->
            /\ Done(f, id, IF store[res] = None THEN "ENOENT" ELSE "SUCCESS", None)
            /\ store' = [store EXCEPT ![res] = None]
            /\ written' = [written EXCEPT ![id] = None]

\* A post creates an object under a new id the backend chooses.
Post(f, v) ==
    \E nid \in NewIds :
        /\ written[nid] = None
        /\ store' = [store EXCEPT ![Compose(IdPath, nid)] = v]
        /\ written' = [written EXCEPT ![nid] = v]
        /\ Done(f, nid, "SUCCESS", None)

\* One dpl_*_id call: the get_id_path slot, the id path (which the backend
\* may fail to produce), the resource, the operation's slot, the dispatch.
IdCall(f, id, v) ==
    /\ UNCHANGED slots
    /\ \/ /\ "get_id_path" \notin slots
          /\ Done(f, id, "ENOTSUPP", None) /\ UNCHANGED <<store, written>>
       \/ /\ "get_id_path" \in slots
          /\ Done(f, id, "FAILURE", None)
          /\ UNCHANGED <<store, written>>
       \/ /\ "get_id_path" \in slots
          /\ f.slot \notin slots
          /\ Done(f, id, "ENOTSUPP", None) /\ UNCHANGED <<store, written>>
       \/ /\ "get_id_path" \in slots
          /\ f.slot \in slots
          /\ IF f.compose THEN Dispatch(f, id, Compose(IdPath, id), v) ELSE Post(f, v)

\* Only a put or a post carries data.
Payloads(f) == IF f.kind \in {"put", "post"} THEN Values ELSE {None}

Next == \E f \in Fns, id \in AllIds : \E v \in Payloads(f) : IdCall(f, id, v)

Spec == Init /\ [][Next]_vars


-----------------------------------------------------------------------------
TypeOK ==
    /\ store \in [Resources -> Values \cup {None}]
    /\ \A r \in DOMAIN store : Len(r) < MaxPathLen
    /\ written \in [AllIds -> Values \cup {None}]
    /\ last.ret \in {"SUCCESS", "ENOENT", "ENOTSUPP", "FAILURE"}

\* A get or head by id answers for the object the caller last stored under
\* that id: it finds it, returns its data, and reports DPL_ENOENT only when
\* nothing is stored under that id.  The resources that dpl_*_id compose
\* for different ids must therefore stay different.
ReadsSeeOwnWrites ==
    (last.fn # None /\ last.fn.kind \in {"get", "head"}) =>
        /\ last.ret = "SUCCESS" =>
              /\ written[last.id] # None
              /\ last.fn.kind = "get" => last.data = written[last.id]
        /\ last.ret = "ENOENT" => written[last.id] = None

(***************************************************************************)
(* Refinement of IdStore: the object of an id is what the backend holds at *)
(* the resource composed for it, and the reply is the last call's.         *)
(***************************************************************************)
StoreView == [id \in AllIds |-> store[Compose(IdPath, id)]]
ReplyView == [kind |-> IF last.fn = None THEN "none" ELSE last.fn.kind,
              id |-> last.id, ret |-> last.ret, data |-> last.data]

Abstract == INSTANCE IdStore WITH Ids <- AllIds, kv <- StoreView, reply <- ReplyView

\* Every dpl_*_id call is one step of a store addressed by id: a put or post
\* changes the object of its own id and of no other, a read answers for
\* that object, and a refused or failed call changes nothing.
IdLayerRefinesStore == Abstract!StoreSpec

=============================================================================
