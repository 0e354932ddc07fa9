-------------------------------- MODULE Vdir --------------------------------
(***************************************************************************)
(* The virtual directory layer of libdroplet (src/libdroplet/src/vdir.c)   *)
(* driven by several independent clients that share one bucket.           *)
(*                                                                         *)
(* Each client is a program with its own dpl_ctx_t (so its own cwd) that   *)
(* calls dpl_mkdir, dpl_mknod, dpl_rmdir, dpl_chdir and                    *)
(* dpl_opendir/dpl_readdir/dpl_eof/dpl_closedir one at a time.  The bucket *)
(* is the only shared state.  Every request the layer sends to the object  *)
(* store (one LIST per looked-up name, the PUT of mkdir/mknod, the LIST    *)
(* and DELETE of rmdir) is one atomic step, so the steps of different      *)
(* clients interleave exactly where the code waits on the network.         *)
(***************************************************************************)
EXTENDS Keyspace, Naturals, Sequences, SequencesExt, FiniteSets

CONSTANTS
    Clients,    \* the programs sharing the bucket, each with its own ctx
    Paths,      \* the locator paths they pass, split on "/" like keys
    InitStore,  \* the keys in the bucket when the clients start
    NetFail,    \* TRUE when LIST/PUT/DELETE may fail on the wire
    Ops         \* the calls the client programs make

ASSUME NetFail \in BOOLEAN
ASSUME Ops \subseteq {"mkdir", "mknod", "rmdir", "chdir", "opendir"}
ASSUME \A p \in Paths : p \in Seq(STRING) /\ Len(p) >= 1

VARIABLES
    store,      \* the set of keys in the bucket
    cwd,        \* cwd[c]: the ctx->cwds entry of client c (dpl_cwd)
    cl          \* cl[c]: the call client c is executing and its locals

vars == <<store, cwd, cl>>

Status == {"SUCCESS", "ENOENT", "FAILURE", "EEXIST", "EINVAL", "ENOTDIR", "ENOTEMPTY"}
FType == {"DIR", "REG"}

(***************************************************************************)
(* dpl_vdir_lookup: the result of looking up one name below parent_ino.    *)
(* "." and ".." are answered from the key alone; any other name costs one  *)
(* LIST whose objects are scanned before its common prefixes.  A LIST that *)
(* fails on the wire makes the lookup return DPL_FAILURE.                  *)
(***************************************************************************)
Found(k, t) == [ret |-> "SUCCESS", obj |-> k, type |-> t]
Failed(r) == [ret |-> r, obj |-> Root, type |-> "DIR"]

\* The common prefix "/" (listed first, before any letter) gives a name of
\* length 1 read from prefix[-1], a byte before the buffer: it matches any
\* one-character name, or none, as the heap has it.
StrayMatch(S, parent, name) ==
    {cp \in ListDirs(S, parent) : cp = <<"", "">> /\ Len(name) = 1}

LookupListed(S, parent, name) ==
    LET files == {k \in ListFiles(S, parent) : Last(k) = name}
        dirs  == {cp \in ListDirs(S, parent) : cp # <<"", "">> /\ PrefixName(cp) = name}
    IN  IF files # {}
        THEN LET k == CHOOSE x \in files : TRUE
             IN  {Found(k, IF EndsWithDelim(k) THEN "DIR" ELSE "REG")}
        ELSE {Found(cp, "DIR") : cp \in StrayMatch(S, parent, name)}
             \cup {IF dirs # {} THEN Found(CHOOSE x \in dirs : TRUE, "DIR")
                   ELSE Failed("ENOENT")}

Lookup(S, parent, name) ==
    CASE name = "."                       -> {Found(parent, "DIR")}
      [] name = ".." /\ parent = Root     -> {Found(Root, "DIR")}
      [] name = ".." /\ Len(parent) = 1   -> {Failed("FAILURE")}
      [] name = ".."                      -> {Found(DotDotKey(parent), "DIR")}
      [] OTHER -> LookupListed(S, parent, name)
                  \cup (IF NetFail THEN {Failed("FAILURE")} ELSE {})

(***************************************************************************)
(* dpl_namei as a walk: rest holds the components still to resolve and     *)
(* parent the inode they are resolved from.  ret is "RUNNING" until the    *)
(* walk returns.  The path "/" resolves at once; a path starting with the  *)
(* delimiter starts from the root, any other from the base inode.          *)
(***************************************************************************)
NameiStart(path, base) ==
    IF path = <<"", "">>
    THEN [path |-> path, base |-> base, rest |-> <<>>, parent |-> Root,
          obj |-> Root, type |-> "DIR", ret |-> "SUCCESS"]
    ELSE IF path[1] = "" /\ Len(path) > 1
    THEN [path |-> path, base |-> base, rest |-> Tail(path), parent |-> Root,
          obj |-> Root, type |-> "DIR", ret |-> "RUNNING"]
    ELSE [path |-> path, base |-> base, rest |-> path, parent |-> base,
          obj |-> Root, type |-> "DIR", ret |-> "RUNNING"]

\* Variants of a namei loop turn: one that descends into whatever the lookup
\* returned, one that forgets to move past the resolved component.
NameiAdvanceNoTypeCheck(w, r) ==
    CASE r.ret # "SUCCESS"   -> [w EXCEPT !.ret = r.ret]
      [] Len(w.rest) = 1     -> [w EXCEPT !.rest = <<>>, !.obj = r.obj,
                                          !.type = r.type, !.ret = "SUCCESS"]
      [] OTHER               -> [w EXCEPT !.rest = Tail(w.rest), !.parent = r.obj]
NameiAdvanceNoTail(w, r) ==
    CASE r.ret # "SUCCESS"   -> [w EXCEPT !.ret = r.ret]
      [] Len(w.rest) = 1     -> [w EXCEPT !.rest = <<>>, !.obj = r.obj,
                                          !.type = r.type, !.ret = "SUCCESS"]
      [] r.type # "DIR"      -> [w EXCEPT !.ret = "ENOTDIR"]
      [] OTHER               -> [w EXCEPT !.parent = r.obj]

\* One turn of the namei loop, given the lookup result r of its name.
NameiAdvance(w, r) ==
    CASE r.ret # "SUCCESS"   -> [w EXCEPT !.ret = r.ret]
      [] Len(w.rest) = 1     -> [w EXCEPT !.rest = <<>>, !.obj = r.obj,
                                          !.type = r.type, !.ret = "SUCCESS"]
      [] r.type # "DIR"      -> [w EXCEPT !.ret = "ENOTDIR"]
      [] OTHER               -> [w EXCEPT !.rest = Tail(w.rest), !.parent = r.obj]

\* An empty component resolves to the parent without a lookup.
NameiLookups(S, w) ==
    IF Head(w.rest) = "" THEN {Found(w.parent, "DIR")}
    ELSE Lookup(S, w.parent, Head(w.rest))

(***************************************************************************)
(* The directory handle of dpl_vdir_opendir: the snapshot of one LIST and  *)
(* two cursors, plus the dirents the client has read from it.              *)
(***************************************************************************)
OpenDir(S, ino) ==
    [ino |-> ino, files |-> SetToSeq(ListFiles(S, ino)),
     dirs |-> SetToSeq(ListDirs(S, ino)), fc |-> 0, dc |-> 0, seen |-> <<>>]

NoDir == [ino |-> Root, files |-> <<>>, dirs |-> <<>>, fc |-> 0, dc |-> 0, seen |-> <<>>]

\* Variant of dpl_vdir_eof that looks at the objects cursor only.
EofFilesOnly(h) == h.fc = Len(h.files)

\* dpl_vdir_eof
Eof(h) == h.fc = Len(h.files) /\ h.dc = Len(h.dirs)

\* The dirent dpl_vdir_readdir fills from the next object or common prefix.
Dirent(h) ==
    IF h.fc < Len(h.files)
    THEN LET k == h.files[h.fc + 1]
             n == Last(k)
         IN  [name |-> IF n = "" THEN "." ELSE n, ino |-> k,
              type |-> IF EndsWithDelim(k) THEN "DIR" ELSE "REG"]
    ELSE LET cp == h.dirs[h.dc + 1]
         IN  [name |-> cp[Len(h.ino)] \o "/", ino |-> cp, type |-> "DIR"]

\* The directory key dpl_vdir_rmdir builds from parent_ino and obj_name.
RmdirIno(parent, name) ==
    IF name = "" THEN parent ELSE AppendDelim(AppendName(parent, name))

\* Variant of the count that skips the common prefixes.
CountFilesOnly(S, ino) == Cardinality(ListFiles(S, ino) \ {ino})

\* The number of dirents other than "." one opendir/readdir pass yields.
CountEntries(S, ino) ==
    Cardinality(ListFiles(S, ino) \ {ino}) + Cardinality(ListDirs(S, ino))

(***************************************************************************)
(* Client locals.  op is the API call, pc where it is, site which namei    *)
(* call of it is running.                                                  *)
(***************************************************************************)
NoWalk == [path |-> Root, base |-> Root, rest |-> <<>>, parent |-> Root,
           obj |-> Root, type |-> "DIR", ret |-> "SUCCESS"]

Idle(r) == [op |-> "none", pc |-> "idle", site |-> "none", path |-> Root,
            cur |-> Root, walk |-> NoWalk, parent |-> Root, name |-> "",
            ino |-> Root, dir |-> NoDir, ret |-> r]

Init ==
    /\ store = InitStore
    /\ cwd = [c \in Clients |-> Root]
    /\ cl = [c \in Clients |-> Idle("SUCCESS")]

Finish(c, r) == cl' = [cl EXCEPT ![c] = Idle(r)]

-----------------------------------------------------------------------------
(* dpl_namei: one loop turn, at most one LIST.                             *)
NameiStep(c) ==
    LET w == cl[c].walk IN
    /\ cl[c].pc = "namei"
    /\ w.ret = "RUNNING"
    /\ \E r \in NameiLookups(store, w) :
          cl' = [cl EXCEPT ![c].walk = NameiAdvance(w, r)]
    /\ UNCHANGED <<store, cwd>>

\* The namei call at site s of client c has returned.
NameiDone(c, s) ==
    /\ cl[c].pc = "namei"
    /\ cl[c].site = s
    /\ cl[c].walk.ret # "RUNNING"

-----------------------------------------------------------------------------
(* dpl_mkdir / dpl_mknod (dpl_mkgen): resolve the whole path, which must   *)
(* fail with ENOENT; resolve the path without its last component to get    *)
(* the parent; PUT parent_key + name (+ "/" for mkdir).                    *)
MkgenStart(c, op, path) ==
    /\ cl[c].pc = "idle"
    /\ cl' = [cl EXCEPT ![c] = [Idle("SUCCESS") EXCEPT
                 !.op = op, !.pc = "namei", !.site = "mk1", !.path = path,
                 !.cur = cwd[c], !.walk = NameiStart(path, cwd[c])]]
    /\ UNCHANGED <<store, cwd>>

\* Variant of the first namei check that splits the path on any error.
MkgenResolvedAnyError(c) ==
    LET w == cl[c].walk
        path == cl[c].path
    IN
    /\ NameiDone(c, "mk1")
    /\ \/ /\ w.ret = "SUCCESS"
          /\ Finish(c, "EEXIST")
       \/ /\ w.ret # "SUCCESS"
          /\ Len(path) > 1
          /\ cl' = [cl EXCEPT ![c].name = Last(path), ![c].pc = "namei",
                      ![c].site = "mk2",
                      ![c].walk = NameiStart(IF Front(path) = <<"">>
                                             THEN <<"", "">> ELSE Front(path),
                                             cl[c].cur)]
       \/ /\ w.ret # "SUCCESS"
          /\ Len(path) = 1
          /\ cl' = [cl EXCEPT ![c].parent = cl[c].cur, ![c].name = path[1],
                              ![c].pc = "put", ![c].walk = NoWalk]
    /\ UNCHANGED <<store, cwd>>

MkgenResolved(c) ==
    LET w == cl[c].walk
        path == cl[c].path
    IN
    /\ NameiDone(c, "mk1")
    /\ \/ /\ w.ret = "SUCCESS"
          /\ Finish(c, "EEXIST")
       \/ /\ w.ret \notin {"SUCCESS", "ENOENT"}
          /\ Finish(c, w.ret)
       \/ /\ w.ret = "ENOENT"
          /\ Len(path) > 1
          /\ cl' = [cl EXCEPT ![c].name = Last(path), ![c].pc = "namei",
                      ![c].site = "mk2",
                      ![c].walk = NameiStart(IF Front(path) = <<"">>
                                             THEN <<"", "">> ELSE Front(path),
                                             cl[c].cur)]
       \/ /\ w.ret = "ENOENT"
          /\ Len(path) = 1
          /\ cl' = [cl EXCEPT ![c].parent = cl[c].cur, ![c].name = path[1],
                              ![c].pc = "put", ![c].walk = NoWalk]
    /\ UNCHANGED <<store, cwd>>

MkgenParentResolved(c) ==
    LET w == cl[c].walk IN
    /\ NameiDone(c, "mk2")
    /\ \/ /\ w.ret = "SUCCESS"
          /\ cl' = [cl EXCEPT ![c].parent = w.obj, ![c].pc = "put",
                              ![c].walk = NoWalk]
       \/ /\ w.ret # "SUCCESS"
          /\ Finish(c, w.ret)
    /\ UNCHANGED <<store, cwd>>

\* Mutant: dpl_vdir_mknod passes ctx->delim to dpl_vdir_mkgen as mkdir does.
MkgenKeyAlwaysDelim(c) == AppendDelim(AppendName(cl[c].parent, cl[c].name))

\* The key dpl_vdir_mkgen PUTs.
MkgenKey(c) ==
    IF cl[c].op = "mkdir"
    THEN AppendDelim(AppendName(cl[c].parent, cl[c].name))
    ELSE AppendName(cl[c].parent, cl[c].name)

\* Mutant: dpl_vdir_mkgen returns DPL_SUCCESS whatever dpl_put returned.
MkgenPutIgnoreStatus(c) ==
    /\ cl[c].pc = "put"
    /\ \E applied \in BOOLEAN :
          /\ NetFail \/ applied
          /\ store' = IF applied THEN store \cup {MkgenKey(c)} ELSE store
          /\ Finish(c, "SUCCESS")
    /\ UNCHANGED cwd

\* The zero-length PUT: it may be applied and acknowledged, not applied,
\* or applied with the reply lost; the last two return DPL_FAILURE.
MkgenPut(c) ==
    /\ cl[c].pc = "put"
    /\ \E applied \in BOOLEAN, acked \in BOOLEAN :
          /\ acked => applied
          /\ NetFail \/ acked
          /\ store' = IF applied THEN store \cup {MkgenKey(c)} ELSE store
          /\ Finish(c, IF acked THEN "SUCCESS" ELSE "FAILURE")
    /\ UNCHANGED cwd

-----------------------------------------------------------------------------
(* dpl_rmdir: resolve the path, build the directory key from the parent    *)
(* and the last component, count its entries with one LIST and DELETE the *)
(* key when there are none.                                                *)
RmdirStart(c, path) ==
    /\ cl[c].pc = "idle"
    /\ cl' = [cl EXCEPT ![c] = [Idle("SUCCESS") EXCEPT
                 !.op = "rmdir", !.pc = "namei", !.site = "rm", !.path = path,
                 !.cur = cwd[c], !.name = Last(path),
                 !.walk = NameiStart(path, cwd[c])]]
    /\ UNCHANGED <<store, cwd>>

RmdirResolved(c) ==
    LET w == cl[c].walk IN
    /\ NameiDone(c, "rm")
    /\ \/ /\ w.ret # "SUCCESS"
          /\ Finish(c, w.ret)
       \/ /\ w.ret = "SUCCESS"
          /\ cl[c].name = "."
          /\ Finish(c, "EINVAL")
       \/ /\ w.ret = "SUCCESS"
          /\ cl[c].name # "."
          /\ cl' = [cl EXCEPT ![c].ino = RmdirIno(w.parent, cl[c].name),
                              ![c].pc = "count", ![c].walk = NoWalk]
    /\ UNCHANGED <<store, cwd>>

\* dpl_vdir_count_entries: one LIST, then a local opendir/readdir pass.
RmdirCount(c) ==
    /\ cl[c].pc = "count"
    /\ \/ /\ NetFail
          /\ Finish(c, "FAILURE")
       \/ /\ CountEntries(store, cl[c].ino) # 0
          /\ Finish(c, "ENOTEMPTY")
       \/ /\ CountEntries(store, cl[c].ino) = 0
          /\ cl' = [cl EXCEPT ![c].pc = "delete"]
    /\ UNCHANGED <<store, cwd>>

\* dpl_delete of the marker.  No connection gives DPL_FAILURE; a failed
\* write, or a lost reply to an applied DELETE, gives DPL_ENOENT.
RmdirDelete(c) ==
    /\ cl[c].pc = "delete"
    /\ \/ /\ store' = store \ {cl[c].ino}
          /\ Finish(c, "SUCCESS")
       \/ /\ NetFail
          /\ store' = store \ {cl[c].ino}
          /\ Finish(c, "ENOENT")
       \/ /\ NetFail
          /\ UNCHANGED store
          /\ \E r \in {"FAILURE", "ENOENT"} : Finish(c, r)
    /\ UNCHANGED cwd

-----------------------------------------------------------------------------
(* dpl_chdir: resolve the path and record the inode as the cwd.            *)
ChdirStart(c, path) ==
    /\ cl[c].pc = "idle"
    /\ cl' = [cl EXCEPT ![c] = [Idle("SUCCESS") EXCEPT
                 !.op = "chdir", !.pc = "namei", !.site = "cd", !.path = path,
                 !.cur = cwd[c], !.walk = NameiStart(path, cwd[c])]]
    /\ UNCHANGED <<store, cwd>>

ChdirResolved(c) ==
    LET w == cl[c].walk IN
    /\ NameiDone(c, "cd")
    /\ \/ /\ w.ret # "SUCCESS"
          /\ Finish(c, w.ret)
          /\ UNCHANGED cwd
       \/ /\ w.ret = "SUCCESS"
          /\ w.type # "DIR"
          /\ Finish(c, "EINVAL")
          /\ UNCHANGED cwd
       \/ /\ w.ret = "SUCCESS"
          /\ w.type = "DIR"
          /\ cwd' = [cwd EXCEPT ![c] = w.obj]
          /\ Finish(c, "SUCCESS")
    /\ UNCHANGED store

-----------------------------------------------------------------------------
(* dpl_opendir, then the caller's loop "while (!dpl_eof) dpl_readdir" and  *)
(* dpl_closedir.                                                           *)
OpendirStart(c, path) ==
    /\ cl[c].pc = "idle"
    /\ cl' = [cl EXCEPT ![c] = [Idle("SUCCESS") EXCEPT
                 !.op = "opendir", !.pc = "namei", !.site = "od", !.path = path,
                 !.cur = cwd[c], !.walk = NameiStart(path, cwd[c])]]
    /\ UNCHANGED <<store, cwd>>

OpendirResolved(c) ==
    LET w == cl[c].walk IN
    /\ NameiDone(c, "od")
    /\ \/ /\ w.ret # "SUCCESS"
          /\ Finish(c, w.ret)
       \/ /\ w.ret = "SUCCESS"
          /\ w.type = "REG"
          /\ Finish(c, "EINVAL")
       \/ /\ w.ret = "SUCCESS"
          /\ w.type # "REG"
          /\ cl' = [cl EXCEPT ![c].ino = w.obj, ![c].pc = "list",
                              ![c].walk = NoWalk]
    /\ UNCHANGED <<store, cwd>>

\* dpl_vdir_opendir: the LIST that fills the handle.
OpendirList(c) ==
    /\ cl[c].pc = "list"
    /\ \/ /\ NetFail
          /\ Finish(c, "FAILURE")
       \/ /\ cl' = [cl EXCEPT ![c].dir = OpenDir(store, cl[c].ino),
                              ![c].pc = "readdir"]
    /\ UNCHANGED <<store, cwd>>

\* Variant of readdir that moves both cursors past an object.
ReaddirBothCursors(c) ==
    LET h == cl[c].dir IN
    /\ cl[c].pc = "readdir"
    /\ ~Eof(h)
    /\ cl' = [cl EXCEPT ![c].dir =
                 [h EXCEPT !.seen = Append(@, Dirent(h)),
                           !.fc = IF h.fc < Len(h.files) THEN @ + 1 ELSE @,
                           !.dc = @ + 1]]
    /\ UNCHANGED <<store, cwd>>

\* dpl_vdir_readdir: the next object, then the next common prefix.
Readdir(c) ==
    LET h == cl[c].dir IN
    /\ cl[c].pc = "readdir"
    /\ ~Eof(h)
    /\ cl' = [cl EXCEPT ![c].dir =
                 [h EXCEPT !.seen = Append(@, Dirent(h)),
                           !.fc = IF h.fc < Len(h.files) THEN @ + 1 ELSE @,
                           !.dc = IF h.fc < Len(h.files) THEN @ ELSE @ + 1]]
    /\ UNCHANGED <<store, cwd>>

\* dpl_vdir_closedir once dpl_vdir_eof holds.
Closedir(c) ==
    /\ cl[c].pc = "readdir"
    /\ Eof(cl[c].dir)
    /\ Finish(c, "SUCCESS")
    /\ UNCHANGED <<store, cwd>>

-----------------------------------------------------------------------------
\* The calls a client program may start.
StartCall(c) ==
    \E path \in Paths :
       \/ "mkdir" \in Ops /\ MkgenStart(c, "mkdir", path)
       \/ "mknod" \in Ops /\ MkgenStart(c, "mknod", path)
       \/ "rmdir" \in Ops /\ RmdirStart(c, path)
       \/ "chdir" \in Ops /\ ChdirStart(c, path)
       \/ "opendir" \in Ops /\ OpendirStart(c, path)

\* The steps of a call once started.
CallStep(c) ==
    \/ NameiStep(c)
    \/ MkgenResolved(c)
    \/ MkgenParentResolved(c)
    \/ MkgenPut(c)
    \/ RmdirResolved(c)
    \/ RmdirCount(c)
    \/ RmdirDelete(c)
    \/ ChdirResolved(c)
    \/ OpendirResolved(c)
    \/ OpendirList(c)
    \/ Readdir(c)
    \/ Closedir(c)

Next == \E c \in Clients : StartCall(c) \/ CallStep(c)

\* Every remote call returns or times out, and a caller that opened a
\* directory reads it to the end; nothing obliges a client to start a call.
Fairness == \A c \in Clients : WF_vars(CallStep(c))

Spec == Init /\ [][Next]_vars /\ Fairness

-----------------------------------------------------------------------------
(***************************************************************************)
(* Path resolution as the interface describes it: components resolved left *)
(* to right, "." staying put, ".." removing the last delimiter-terminated  *)
(* component of the key, any other name matched against the final          *)
(* component of the listed objects and common prefixes (either may win     *)
(* when both match), and "/" resolving to the root.                        *)
(***************************************************************************)
Outcome(r, p, o, t) == [ret |-> r, parent |-> p, obj |-> o, type |-> t]
Err(r) == Outcome(r, Root, Root, "DIR")

SpecDotDot(k) == IF k = Root THEN Root ELSE AppendDelim(SubSeq(k, 1, Len(k) - 2))

SpecHits(S, parent, name) ==
    IF name \in {"", "."} THEN {[obj |-> parent, type |-> "DIR"]}
    ELSE IF name = ".." THEN {[obj |-> SpecDotDot(parent), type |-> "DIR"]}
    ELSE {[obj |-> k, type |-> IF EndsWithDelim(k) THEN "DIR" ELSE "REG"] :
             k \in {f \in ListFiles(S, parent) : Last(f) = name}}
         \cup {[obj |-> cp, type |-> "DIR"] :
                 cp \in {d \in ListDirs(S, parent) : d[Len(d) - 1] = name}}

RECURSIVE SpecWalk(_, _, _)
SpecWalk(S, parent, comps) ==
    LET hits == SpecHits(S, parent, Head(comps)) IN
    IF hits = {} THEN {Err("ENOENT")}
    ELSE UNION {IF Len(comps) = 1 THEN {Outcome("SUCCESS", parent, h.obj, h.type)}
                ELSE IF h.type # "DIR" THEN {Err("ENOTDIR")}
                ELSE SpecWalk(S, h.obj, Tail(comps)) : h \in hits}

SpecNamei(S, base, path) ==
    IF path = <<"", "">> THEN {Outcome("SUCCESS", Root, Root, "DIR")}
    ELSE IF path[1] = "" /\ Len(path) > 1 THEN SpecWalk(S, Root, Tail(path))
    ELSE SpecWalk(S, base, path)

WalkOutcome(w) ==
    IF w.ret = "SUCCESS" THEN Outcome(w.ret, w.parent, w.obj, w.type) ELSE Err(w.ret)

-----------------------------------------------------------------------------
DirentType == [name : STRING, ino : Seq(STRING), type : FType]

TypeOK ==
    /\ store \subseteq Seq(STRING)
    /\ cwd \in [Clients -> Seq(STRING)]
    /\ \A c \in Clients :
         /\ cl[c].op \in {"none", "mkdir", "mknod", "rmdir", "chdir", "opendir"}
         /\ cl[c].pc \in {"idle", "namei", "put", "count", "delete", "list", "readdir"}
         /\ cl[c].walk.ret \in Status \cup {"RUNNING"}
         /\ cl[c].ret \in Status
         /\ cl[c].dir.fc \in 0..Len(cl[c].dir.files)
         /\ cl[c].dir.dc \in 0..Len(cl[c].dir.dirs)
         /\ cl[c].dir.seen \in Seq(DirentType)

\* dpl_namei, run as a loop of single lookups, returns what resolving the
\* path against the bucket as the interface describes it returns, whenever
\* the bucket does not change under it and no LIST fails.
NameiAgreesWithReference ==
    \A c \in Clients :
       LET w == cl[c].walk IN
       (cl[c].pc = "namei" /\ w.ret \notin {"RUNNING", "FAILURE"})
          => WalkOutcome(w) \in SpecNamei(store, w.base, w.path)

\* dpl_mkgen PUTs below a directory: the parent key it appends the new name
\* to (the cwd or the object the second namei returned) is the root or ends
\* with the delimiter, so the PUT never glues the name onto a file's key.
MkgenParentIsDirectory ==
    \A c \in Clients : cl[c].pc = "put" => IsDirKey(cl[c].parent)

\* dpl_rmdir only DELETEs the marker of a directory nothing lies below: when
\* the DELETE is about to be sent, no key of the bucket is strictly under it.
RmdirDeletesOnlyEmpty ==
    \A c \in Clients :
       cl[c].pc = "delete" => ~\E k \in store : Under(k, cl[c].ino)

\* dpl_rmdir DELETEs a directory marker and never the empty key, which the
\* request layer sends as "DELETE /", the request that deletes the bucket.
RmdirTargetsAMarker ==
    \A c \in Clients : cl[c].pc = "delete" => cl[c].ino # Root

\* Once dpl_eof holds, the dirents dpl_readdir returned are exactly the
\* objects and common prefixes of the opendir snapshot, each once.
ReaddirComplete ==
    \A c \in Clients :
       LET h == cl[c].dir IN
       (cl[c].pc = "readdir" /\ Eof(h)) =>
          /\ {h.seen[i].ino : i \in 1..Len(h.seen)} = Range(h.files) \cup Range(h.dirs)
          /\ Len(h.seen) = Len(h.files) + Len(h.dirs)

\* No name of the bucket is both a regular file and a directory: a key
\* without the trailing delimiter never has keys below it.  A lookup finds
\* the file first, so such a directory's contents become unreachable.
NoFileShadowsDir ==
    \A f \in store : ~EndsWithDelim(f) => ~\E k \in store : Under(k, AppendDelim(f))

-----------------------------------------------------------------------------
(***************************************************************************)
(* Refinement of VdirFS.  The tree the bucket stands for: a key ending     *)
(* with the delimiter is the marker of the directory named by the key     *)
(* without it, any other key is a regular file.  The names are those of   *)
(* the paths the clients pass.                                             *)
(***************************************************************************)
FSDirs == {<<>>} \cup {Front(k) : k \in {x \in store : EndsWithDelim(x)}}
FSFiles == {k \in store : ~EndsWithDelim(k)}
FSNames == UNION {Range(p) : p \in Paths} \ {"", ".", ".."}
FSDepth == CHOOSE n \in {Len(p) : p \in Paths} : \A p \in Paths : Len(p) <= n

FSRunning == [c \in Clients |-> cl[c].op]
FSStatus == [c \in Clients |-> IF cl[c].pc = "idle" THEN cl[c].ret ELSE "none"]

FS == INSTANCE VdirFS WITH dirs <- FSDirs, files <- FSFiles, running <- FSRunning,
                           status <- FSStatus, Calls <- Ops, Names <- FSNames,
                           MaxDepth <- FSDepth, Statuses <- Status

\* Every change dpl_mkdir, dpl_mknod and dpl_rmdir make to the bucket,
\* across their namei walks, LISTs, wire failures and lost replies, is one
\* step of the file-system tree taken by the call that makes it, in the
\* step it returns in: mkdir adds a directory and mknod a regular file
\* below an existing directory where the name was free, rmdir removes an
\* empty directory, and chdir and opendir change nothing.  A mkdir or
\* mknod that returns DPL_SUCCESS is the one that made its change.
VdirRefinesFS == FS!FSSpec

\* Every call a client starts returns.
EveryCallReturns ==
    \A c \in Clients : cl[c].pc # "idle" ~> cl[c].pc = "idle"

=============================================================================
