------------------------------- MODULE MCVdir -------------------------------
(***************************************************************************)
(* Models of the vdir layer for TLC.  Paths are given split on "/": <<"a",  *)
(* "b">> is "a/b", <<"", "a">> is "/a" and <<"", "">> is "/".              *)
(***************************************************************************)
EXTENDS Vdir

CONSTANTS c1, c2

\* One program alone on an initially empty bucket.
OneClient == {c1}
\* Two programs sharing the bucket.
TwoClients == {c1, c2}

EmptyBucket == {}

AllOps == {"mkdir", "mknod", "rmdir", "chdir", "opendir"}
\* Without chdir every key is at most as deep as the longest path.
NoChdir == AllOps \ {"chdir"}
\* Two programs moving between directories; files are created by vdir_seq.
DirOps == AllOps \ {"mknod"}

\* Names one level deep and two deep, absolute and relative, ".", "..", and
\* "//a", whose doubled delimiter gives an empty component at the root.
SeqPaths == {<<"a">>, <<"a", "b">>, <<"", "a">>, <<".">>, <<"a", "..">>, <<"", "">>,
             <<"", "", "a">>}

\* Two programs racing on one directory.
RacePaths == {<<"d">>, <<"d", "x">>}
DirD == {<<"d", "">>}

\* Paths of a mkdir below "b" racing an rmdir and mknod of "b".
ShadowPaths == {<<"b">>, <<"b", "c">>}
DirB == {<<"b", "">>}

\* A program working below a cwd that another of its calls removes.
CwdPaths == {<<"a">>, <<"", "a">>, <<"y">>}

\* The path "/".
RootPath == {<<"", "">>}

\* Two programs that chdir, on a name and on a path that climbs through "..";
\* chdir "a" followed by mkdir "a" nests directories below it.
ConcurrentPaths == {<<"a">>, <<"..", "a">>}

\* Keys at most MaxKeyDepth components deep.  A stale cwd lets "mkdir a;
\* chdir a" nest without end; the bound cuts that chain, not a call.
MaxKeyDepth == 3
KeyDepthBound ==
    /\ \A k \in store : Len(k) <= MaxKeyDepth
    /\ \A c \in Clients : Len(cwd[c]) <= MaxKeyDepth


=============================================================================
