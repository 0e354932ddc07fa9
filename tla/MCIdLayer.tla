------------------------------ MODULE MCIdLayer ------------------------------
(* Ids, slots and buffer sizes for checking IdLayer with TLC.              *)
EXTENDS IdLayer

CONSTANTS v1, v2

TwoValues == {v1, v2}

\* Two ids sharing a prefix, and one that only fits truncated.
SharedPrefixIds == {"abc1", "abc2", "longid12"}
PostIds == {"n1"}

AllSlots == {"get_id_path", "post", "post_buffered", "put", "put_buffered", "get",
             "get_range", "get_buffered", "head", "head_all", "head_sysmd", "delete"}
\* An S3-like backend without the optional slots.
NoOptionalSlots == AllSlots \ {"post_buffered", "head_sysmd"}

\* A backend with every slot, one without the optional ones, and one that
\* cannot map ids to paths.
FullBackend == {AllSlots}
SomeBackends == {AllSlots, NoOptionalSlots, AllSlots \ {"get_id_path"}}

=============================================================================
