------------------------------ MODULE Keyspace ------------------------------
(***************************************************************************)
(* The flat key namespace of one bucket, as the vdir layer sees it through *)
(* dpl_list_bucket with the delimiter "/".                                 *)
(*                                                                         *)
(* A key string is kept split on the delimiter: the key "a/b/" is the      *)
(* sequence <<"a", "b", "">>, the key "a/f" is <<"a", "f">> and the empty  *)
(* key of the root inode is <<"">>.  Every string over delimiter-free      *)
(* components has exactly one such form, so string equality is sequence   *)
(* equality, "ends with the delimiter" is "last component is empty", and   *)
(* string concatenation of a name (which holds no delimiter) extends the   *)
(* last component.  Components are TLA+ strings, so the concatenations the *)
(* code performs produce new names rather than being approximated.         *)
(***************************************************************************)
EXTENDS Sequences, SequencesExt, FiniteSets

\* DPL_ROOT_INO: the root inode has the empty key.
Root == <<"">>

\* The test "key_len >= delim_len && key ends with delim" of vdir.c.  The
\* empty key has length 0 and so does not end with the delimiter.
EndsWithDelim(k) == Len(k) > 1 /\ Last(k) = ""


\* A key naming a directory position: the root or a key ending with "/".
IsDirKey(k) == k = Root \/ EndsWithDelim(k)

\* snprintf/strcat of a delimiter-free name onto a key.
AppendName(k, name) == [k EXCEPT ![Len(k)] = @ \o name]

\* strcat of the delimiter onto a key.
AppendDelim(k) == Append(k, "")

\* The string a begins with the string b.
StartsWith(a, b) == Len(a) >= Len(b) /\ SubSeq(a, 1, Len(b)) = b

\* The string of key k begins with the string of key d (the LIST prefix).
HasPrefix(k, d) ==
    /\ Len(k) >= Len(d)
    /\ SubSeq(k, 1, Len(d) - 1) = Front(d)
    /\ StartsWith(k[Len(d)], Last(d))

\* k lies strictly below the directory key d.
Under(k, d) == HasPrefix(k, d) /\ k # d

(***************************************************************************)
(* LIST with prefix d (a directory key; the root is sent as "no prefix")   *)
(* and delimiter "/": the objects whose remaining key holds no delimiter,  *)
(* and the common prefixes, each cut just after the first delimiter that  *)
(* follows the prefix.                                                     *)
(***************************************************************************)
ListFiles(S, d) == {k \in S : HasPrefix(k, d) /\ Len(k) = Len(d)}

ListDirs(S, d) ==
    {AppendDelim(SubSeq(k, 1, Len(d))) : k \in {x \in S : HasPrefix(x, d) /\ Len(x) > Len(d)}}

(***************************************************************************)
(* The ".." arithmetic of dpl_vdir_lookup on a key holding a delimiter:    *)
(* p is put one character before the last delimiter and walked back while  *)
(* p2 > key, stopping just after an earlier delimiter; when none is found  *)
(* the key is cut to "".  The first character is never examined, so a      *)
(* delimiter at index 0 is not seen: "/b/" yields "" and not "/".  On the  *)
(* key "/" p is moved before the buffer and the NUL lands outside the key, *)
(* which is returned unchanged.                                            *)
(***************************************************************************)
DotDotKey(k) ==
    CASE k = <<"", "">>                          -> k
      [] Len(k) >= 3 /\ ~(Len(k) = 3 /\ k[1] = "") -> AppendDelim(SubSeq(k, 1, Len(k) - 2))
      [] OTHER                                   -> Root

\* The name a common prefix contributes to a lookup: the component before
\* its trailing delimiter.  The backward scan never examines index 0, so for
\* "/a/" the name taken is "/a", which matches no name.  The prefix "/" has
\* no such name: the scan starts before the buffer and compares the byte at
\* prefix[-1]; LookupListed treats it apart.
PrefixName(cp) ==
    IF Len(cp) = 3 /\ cp[1] = "" THEN "/" \o cp[2] ELSE cp[Len(cp) - 1]

=============================================================================
