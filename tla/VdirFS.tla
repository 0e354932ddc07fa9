------------------------------- MODULE VdirFS -------------------------------
(***************************************************************************)
(* The hierarchical file system the vdir layer presents (spec.md,          *)
(* "Virtual directory (vdir) emulation"): a tree of directories and        *)
(* regular files named by their paths, in which mkdir and mknod create an  *)
(* entry that does not exist below an existing directory, and rmdir        *)
(* removes a directory other than the root that has no entries.  Each     *)
(* client runs one call at a time; a call makes at most one change, the    *)
(* one its kind names, in one atomic step that also ends it, and a call    *)
(* that fails changes nothing.  A call that makes its change reports       *)
(* success or the failure of a lost reply; mkdir and mknod report success  *)
(* only when they made their change.  This is the abstract specification   *)
(* Vdir is checked against.                                                *)
(***************************************************************************)
EXTENDS Naturals, Sequences, FiniteSets

CONSTANTS
    Clients,    \* the callers
    Calls,      \* the kinds of call they make
    Names,      \* the entry names that may occur in paths
    MaxDepth,   \* the deepest path the callers use
    Statuses    \* the statuses a call may return, "SUCCESS" among them

VARIABLES
    dirs,       \* the paths of the directories; <<>> is the root
    files,      \* the paths of the regular files
    running,    \* running[c]: the call client c is in, or "none"
    status      \* status[c]: what client c's last call returned, "none" while
                \* a call runs

fsvars == <<dirs, files, running, status>>

\* The paths of at most MaxDepth names.
FSPaths == UNION {[1..n -> Names] : n \in 0..MaxDepth}

Entries == dirs \cup files

ParentOf(p) == SubSeq(p, 1, Len(p) - 1)

\* The entries directly inside the directory d.
EntriesOf(d) == {e \in Entries : Len(e) = Len(d) + 1 /\ ParentOf(e) = d}

FSInit ==
    /\ dirs = {<<>>}
    /\ files = {}
    /\ running = [c \in Clients |-> "none"]
    /\ status \in [Clients -> Statuses]

\* A new name below an existing directory.
CanCreate(p) == Len(p) > 0 /\ ParentOf(p) \in dirs /\ p \notin Entries

Begin(c, call) ==
    /\ running[c] = "none"
    /\ running' = [running EXCEPT ![c] = call]
    /\ status' = [status EXCEPT ![c] = "none"]
    /\ UNCHANGED <<dirs, files>>

\* A call that returns without changing the tree; a mkdir or mknod that
\* created nothing does not report success.
Return(c) ==
    /\ running[c] # "none"
    /\ running' = [running EXCEPT ![c] = "none"]
    /\ \E r \in Statuses :
          /\ running[c] \in {"mkdir", "mknod"} => r # "SUCCESS"
          /\ status' = [status EXCEPT ![c] = r]
    /\ UNCHANGED <<dirs, files>>

\* The change of a call is the step it returns in, reported as success or
\* as the failure a lost reply gives (DPL_FAILURE for the PUT of mkdir and
\* mknod, DPL_ENOENT for the DELETE of rmdir).
Ends(c, call) ==
    /\ running[c] = call
    /\ running' = [running EXCEPT ![c] = "none"]
    /\ status' \in {[status EXCEPT ![c] = r] : r \in {"SUCCESS", "FAILURE", "ENOENT"}}

Mkdir(c, p) ==
    /\ Ends(c, "mkdir")
    /\ CanCreate(p)
    /\ dirs' = dirs \cup {p}
    /\ UNCHANGED files

Mknod(c, p) ==
    /\ Ends(c, "mknod")
    /\ CanCreate(p)
    /\ files' = files \cup {p}
    /\ UNCHANGED dirs

Rmdir(c, p) ==
    /\ Ends(c, "rmdir")
    /\ p \in dirs \ {<<>>}
    /\ EntriesOf(p) = {}
    /\ dirs' = dirs \ {p}
    /\ UNCHANGED files

FSNext ==
    \E c \in Clients :
       \/ \E call \in Calls : Begin(c, call)
       \/ Return(c)
       \/ \E p \in FSPaths : Mkdir(c, p) \/ Mknod(c, p) \/ Rmdir(c, p)

FSSpec == FSInit /\ [][FSNext]_fsvars

=============================================================================
