---------------------------- MODULE MCHttpFraming ----------------------------
(* Descriptors, dicts and policies for checking HttpFraming with TLC.      *)
EXTENDS HttpFraming

Cond(type, time, etag) == [type |-> type, time |-> time, etag |-> etag]
Rng(start, end) == [start |-> start, end |-> end]

\* Resources with characters a path must escape, a nested key and the
\* bucket root of the listing calls.
EncodedResources == {"/a b", "x/y", "/a?b%"}
EncodingOn == {[urlenc |-> TRUE, encslash |-> TRUE], [urlenc |-> TRUE, encslash |-> FALSE]}

\* What dpl_list_bucket passes for a vdir lookup of "a/" and of the root.
ListingQueries == {None, ("prefix" :> "a/") @@ ("delimiter" :> "/"), "delimiter" :> "/"}
\* The same lookup for a directory whose name holds a space or a "&".
UnsafeQueries == {("prefix" :> "a b/") @@ ("delimiter" :> "/"), ("prefix" :> "x&y/") @@ ("delimiter" :> "/")}

DistinctConds == {<<>>, <<Cond("IF_MATCH", 0, "e1"), Cond("IF_MODIFIED_SINCE", 5, "")>>,
                  <<Cond("IF_NONE_MATCH", 0, "e2"), Cond("IF_UNMODIFIED_SINCE", 7, "")>>}

\* Both keys, and each one missing; "ab:x1" encodes to 8 characters.
SomeCredentials == {[ak |-> "ab", sk |-> "x1"], [ak |-> "ab", sk |-> None],
                    [ak |-> None, sk |-> "x1"]}

BothKeys == {[ak |-> "ab", sk |-> "x1"]}

ClosedRanges == {None, Rng(1, 2), Rng(1, Undef), Rng(1, 9), Rng(0, 0), Rng(Undef, Undef)}

=============================================================================
