------------------------------ MODULE IdStore ------------------------------
(***************************************************************************)
(* What the ID-addressed entry points promise (spec.md, "ID-addressed      *)
(* operations"): a store of objects named by id.  A put replaces the       *)
(* object of that id only, a post creates one under an id that held none,  *)
(* a get or head answers for the object of that id, a delete removes it,   *)
(* and a call that fails changes nothing.  reply is what the last call     *)
(* returned.  This is the abstract specification IdLayer is checked        *)
(* against.                                                                *)
(***************************************************************************)
CONSTANTS
    Ids,        \* the ids
    Values,     \* object contents
    None        \* no object / no data

VARIABLES
    kv,         \* kv[id]: the object stored under id, or None
    reply       \* the last call: its kind, id, status and data

idvars == <<kv, reply>>

Reply(kind, id, ret, data) == [kind |-> kind, id |-> id, ret |-> ret, data |-> data]

StoreInit ==
    /\ kv = [i \in Ids |-> None]
    /\ reply = Reply("none", None, "SUCCESS", None)

StorePut(i, v) ==
    /\ kv' = [kv EXCEPT ![i] = v]
    /\ reply' = Reply("put", i, "SUCCESS", None)

StorePost(i, v) ==
    /\ kv[i] = None
    /\ kv' = [kv EXCEPT ![i] = v]
    /\ reply' = Reply("post", i, "SUCCESS", None)

StoreRead(i, kind) ==
    /\ reply' = Reply(kind, i, IF kv[i] = None THEN "ENOENT" ELSE "SUCCESS",
                      IF kind = "get" THEN kv[i] ELSE None)
    /\ UNCHANGED kv

StoreDelete(i) ==
    /\ kv' = [kv EXCEPT ![i] = None]
    /\ reply' = Reply("delete", i, IF kv[i] = None THEN "ENOENT" ELSE "SUCCESS", None)

\* A call refused or failed before it reached the store.
StoreRefuse(i, kind) ==
    /\ \E r \in {"FAILURE", "ENOTSUPP"} : reply' = Reply(kind, i, r, None)
    /\ UNCHANGED kv

StoreNext ==
    \E i \in Ids :
       \/ \E v \in Values : StorePut(i, v) \/ StorePost(i, v)
       \/ \E k \in {"get", "head"} : StoreRead(i, k)
       \/ StoreDelete(i)
       \/ \E k \in {"post", "put", "get", "head", "delete"} : StoreRefuse(i, k)

StoreSpec == StoreInit /\ [][StoreNext]_idvars

=============================================================================
