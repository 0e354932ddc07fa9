----------------------------- MODULE MCExchange -----------------------------
(* Model values and function sets for checking Exchange with TLC.          *)
EXTENDS Exchange

CONSTANTS t1, t2, s1, s2

OneThread == {t1}
TwoThreads == {t1, t2}
TwoSockets == {s1, s2}

\* A parsing call, the hand-over call and the callback call.
PoolFns == {"get", "put_buffered", "get_buffered"}
DeleteOnly == {"delete"}

=============================================================================
