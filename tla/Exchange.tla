------------------------------ MODULE Exchange ------------------------------
(***************************************************************************)
(* The request/reply exchange every call of convapi.c performs, for        *)
(* several threads sharing the connection pool, and the server at the      *)
(* other end of each pooled socket.                                        *)
(*                                                                         *)
(* Every dpl_* function of convapi.c follows one skeleton: build the       *)
(* request (failing before any connection is taken), dpl_conn_open_host,   *)
(* dpl_req_gen_http_request, dpl_conn_writev_all, dpl_read_http_reply (or  *)
(* its callback form), an optional parse of the reply, and at "end:" the   *)
(* connection is terminated when connection_close is 1 and released to    *)
(* the pool otherwise.  The functions differ only in the fields of their   *)
(* profile below.  The pool and the reply reader are not in this           *)
(* repository and are modelled from their interface.                       *)
(***************************************************************************)
EXTENDS Naturals, Sequences, FiniteSets

CONSTANTS
    Threads,    \* callers, each running one dpl_* call at a time
    Sockets,    \* the sockets dpl_conn_open_host may dial
    Fns,        \* the convapi functions the callers use
    CbErrors,   \* statuses the user callbacks of dpl_get_buffered may return
    NoSock,     \* conn == NULL
    NoThread    \* the addressee of no reply

ASSUME CbErrors \subseteq {"ENOENT", "FAILURE"}
ASSUME NoSock \notin Sockets /\ NoThread \notin Threads

VARIABLES
    pool,       \* the idle sockets of the pool
    sock,       \* sock[s]: "fresh" (never dialled), "open", "closed" by the
                \* server, or "dead" (terminated by the client)
    announced,  \* announced[s]: the last reply on s carried Connection: close
    q,          \* q[s]: the replies the server has queued on s, oldest first
    th          \* th[t]: the call thread t is running

vars == <<pool, sock, announced, q, th>>

(***************************************************************************)
(* Profiles.  mode: dpl_read_http_reply or dpl_read_http_reply_buffered    *)
(* with cb_get_header/cb_get_buffer; post: a parse of the reply that can   *)
(* fail with DPL_FAILURE; expect: the request carries Expect: 100-continue *)
(* so the reply may be a bare 100 with no headers; handover: on success    *)
(* the connection is given to the caller through connp.                   *)
(***************************************************************************)
Plain(post) == [mode |-> "plain", post |-> post, expect |-> FALSE, handover |-> FALSE]

DplListAllMyBuckets == Plain(TRUE)
DplListBucket == Plain(TRUE)
DplMakeBucket == Plain(FALSE)
DplDeleteBucket == Plain(FALSE)
DplPut == Plain(FALSE)
DplPutBuffered == [mode |-> "plain", post |-> FALSE, expect |-> TRUE, handover |-> TRUE]
DplGet == Plain(TRUE)
DplGetRange == Plain(TRUE)
DplGetBuffered == [mode |-> "callbacks", post |-> FALSE, expect |-> FALSE, handover |-> FALSE]
DplHeadGen == Plain(TRUE)
DplHead == DplHeadGen
DplHeadAll == DplHeadGen
DplDelete == Plain(FALSE)
DplCopy == Plain(FALSE)

Profile == [list_all_my_buckets |-> DplListAllMyBuckets, list_bucket |-> DplListBucket,
            make_bucket |-> DplMakeBucket, deletebucket |-> DplDeleteBucket,
            put |-> DplPut, put_buffered |-> DplPutBuffered, get |-> DplGet,
            get_range |-> DplGetRange, get_buffered |-> DplGetBuffered,
            head |-> DplHead, head_all |-> DplHeadAll, delete |-> DplDelete, copy |-> DplCopy]

ASSUME Fns \subseteq DOMAIN Profile

\* A reply the server queued for thread to; part marks the unread rest of a
\* reply whose beginning a reader already consumed.
Reply == [to : Threads, status : {"2xx", "404", "100"}, close : BOOLEAN, part : BOOLEAN]
NoReply == [to |-> NoThread, status |-> "2xx", close |-> FALSE, part |-> FALSE]

\* The replies the server may send to a request of thread t calling fn.
Replies(t, fn) ==
    {[to |-> t, status |-> st, close |-> c, part |-> FALSE] :
        st \in {"2xx", "404"} \cup (IF Profile[fn].expect THEN {"100"} ELSE {}),
        c \in BOOLEAN}
    \ {[to |-> t, status |-> "100", close |-> TRUE, part |-> FALSE]}

Idle(last, ret) == [fn |-> "none", pc |-> "idle", conn |-> NoSock, cclose |-> FALSE,
                    ret |-> ret, last |-> last]

Init ==
    /\ pool = {}
    /\ sock = [s \in Sockets |-> "fresh"]
    /\ announced = [s \in Sockets |-> FALSE]
    /\ q = [s \in Sockets |-> <<>>]
    /\ th = [t \in Threads |-> Idle(NoReply, "SUCCESS")]

-----------------------------------------------------------------------------
\* Mutant: the "end:" block forgets that the connection is gone.
DisposeNoReset(t, cclose, ret, last) ==
    LET s == th[t].conn IN
    /\ IF cclose
       THEN /\ sock' = [sock EXCEPT ![s] = "dead"]
            /\ UNCHANGED pool
       ELSE /\ pool' = pool \cup {s}
            /\ UNCHANGED sock
    /\ th' = [th EXCEPT ![t] = [Idle(last, ret) EXCEPT !.conn = s]]

(* The "end:" block: terminate or release the connection, return ret.      *)
Dispose(t, cclose, ret, last) ==
    LET s == th[t].conn IN
    /\ IF cclose
       THEN /\ sock' = [sock EXCEPT ![s] = "dead"]
            /\ UNCHANGED pool
       ELSE /\ pool' = pool \cup {s}
            /\ UNCHANGED sock
    /\ th' = [th EXCEPT ![t] = Idle(last, ret)]

\* dpl_req_new and the setters, dpl_req_build and the Host lookup: a
\* failure returns before any connection is taken.
Call(t, fn) ==
    /\ th[t].pc = "idle"
    /\ \/ th' = [th EXCEPT ![t] = [Idle(th[t].last, "SUCCESS") EXCEPT !.fn = fn, !.pc = "open"]]
       \/ \E r \in {"ENOMEM", "FAILURE"} : th' = [th EXCEPT ![t] = Idle(th[t].last, r)]
    /\ UNCHANGED <<pool, sock, announced, q>>

\* dpl_conn_open_host: an idle pooled socket, a freshly dialled one, or
\* NULL when the connect fails (DPL_FAILURE, nothing to dispose of).
OpenHost(t) ==
    /\ th[t].pc = "open"
    /\ \/ \E s \in pool :
            /\ pool' = pool \ {s}
            /\ th' = [th EXCEPT ![t].conn = s, ![t].pc = "gen"]
            /\ UNCHANGED sock
       \/ \E s \in Sockets :
            /\ sock[s] = "fresh"
            /\ sock' = [sock EXCEPT ![s] = "open"]
            /\ th' = [th EXCEPT ![t].conn = s, ![t].pc = "gen"]
            /\ UNCHANGED pool
       \/ /\ th' = [th EXCEPT ![t] = Idle(th[t].last, "FAILURE")]
          /\ UNCHANGED <<pool, sock>>
    /\ UNCHANGED <<announced, q>>

\* dpl_req_gen_http_request: the header block may not fit the buffer; the
\* untouched connection is then released.
GenRequest(t) ==
    /\ th[t].pc = "gen"
    /\ \/ /\ th' = [th EXCEPT ![t].pc = "write"]
          /\ UNCHANGED <<pool, sock>>
       \/ Dispose(t, FALSE, "FAILURE", th[t].last)
    /\ UNCHANGED <<announced, q>>

\* dpl_conn_writev_all.  On an open socket the server answers the request
\* and, when its reply says Connection: close, closes its end after it.  A
\* write to a socket the server closed may fail at once or be accepted by
\* the kernel with no reply ever coming.  A failure terminates.
WriteRequest(t) ==
    LET s == th[t].conn IN
    /\ th[t].pc = "write"
    /\ \/ /\ sock[s] = "open"
          /\ \E r \in Replies(t, th[t].fn) :
                /\ q' = [q EXCEPT ![s] = Append(@, r)]
                /\ announced' = [announced EXCEPT ![s] = r.close]
                /\ sock' = [sock EXCEPT ![s] = IF r.close THEN "closed" ELSE "open"]
          /\ th' = [th EXCEPT ![t].pc = "read"]
          /\ UNCHANGED pool
       \/ /\ sock[s] = "closed"
          /\ th' = [th EXCEPT ![t].pc = "read"]
          /\ UNCHANGED <<pool, sock, announced, q>>
       \/ /\ Dispose(t, TRUE, "ENOENT", th[t].last)
          /\ UNCHANGED <<announced, q>>

\* Mutant: dpl_put_buffered stores conn in *connp but does not set conn to
\* NULL, so "end:" also releases it.
AfterReplyNoConsume(t, cclose, r) ==
    LET p == Profile[th[t].fn] IN
    IF p.post
    THEN /\ th' = [th EXCEPT ![t].pc = "post", ![t].cclose = cclose, ![t].last = r]
         /\ UNCHANGED <<pool, sock>>
    ELSE IF p.handover
    THEN /\ th' = [th EXCEPT ![t].pc = "owned", ![t].cclose = cclose, ![t].last = r]
         /\ pool' = pool \cup {th[t].conn}
         /\ UNCHANGED sock
    ELSE Dispose(t, cclose, "SUCCESS", r)

\* What follows a successful read: the optional parse, the hand-over, or
\* the return through "end:".
AfterReply(t, cclose, r) ==
    LET p == Profile[th[t].fn] IN
    IF p.post
    THEN /\ th' = [th EXCEPT ![t].pc = "post", ![t].cclose = cclose, ![t].last = r]
         /\ UNCHANGED <<pool, sock>>
    ELSE IF p.handover
    THEN /\ th' = [th EXCEPT ![t].pc = "owned", ![t].cclose = cclose, ![t].last = r]
         /\ UNCHANGED <<pool, sock>>
    ELSE Dispose(t, cclose, "SUCCESS", r)


\* Mutant: a read error other than DPL_ENOENT leaves connection_close at 0.
ReadPlainNoCloseOnError(t) ==
    LET s == th[t].conn
        r == Head(q[s])
    IN
    /\ th[t].pc = "read"
    /\ Profile[th[t].fn].mode = "plain"
    /\ \/ /\ q[s] = <<>>
          /\ Dispose(t, TRUE, "ENOENT", th[t].last)
          /\ UNCHANGED q
       \/ /\ q[s] # <<>>
          /\ q' = [q EXCEPT ![s] = Tail(@)]
          /\ \/ /\ r.status = "404"
                /\ Dispose(t, FALSE, "ENOENT", r)
             \/ /\ r.status \in {"2xx", "100"}
                /\ AfterReply(t, r.status = "2xx" /\ r.close, r)
       \/ /\ q[s] # <<>>
          /\ q' = [q EXCEPT ![s] = <<[Head(@) EXCEPT !.part = TRUE]>> \o Tail(@)]
          /\ Dispose(t, FALSE, "ENOENT", th[t].last)
    /\ UNCHANGED announced

\* dpl_read_http_reply.  A reply that is not 2xx is read and returned as
\* DPL_ENOENT with connection_close left at 0; any other read error sets it.
ReadPlain(t) ==
    LET s == th[t].conn
        r == Head(q[s])
    IN
    /\ th[t].pc = "read"
    /\ Profile[th[t].fn].mode = "plain"
    /\ \/ /\ q[s] = <<>>
          /\ Dispose(t, TRUE, "ENOENT", th[t].last)
          /\ UNCHANGED q
       \/ /\ q[s] # <<>>
          /\ q' = [q EXCEPT ![s] = Tail(@)]
          /\ \/ /\ r.status = "404"
                /\ Dispose(t, FALSE, "ENOENT", r)
             \/ /\ r.status \in {"2xx", "100"}
                /\ AfterReply(t, r.status = "2xx" /\ r.close, r)
       \/ /\ q[s] # <<>>
          /\ q' = [q EXCEPT ![s] = <<[Head(@) EXCEPT !.part = TRUE]>> \o Tail(@)]
          /\ Dispose(t, TRUE, "ENOENT", th[t].last)
    /\ UNCHANGED announced

(***************************************************************************)
(* dpl_read_http_reply_buffered with cb_get_header and cb_get_buffer.  The *)
(* user's header_func runs before the Connection header is looked at, and *)
(* buffer_func once per chunk; an error of either stops the reader, which  *)
(* returns it with the rest of the reply unread.  Headers of a reply that  *)
(* is not 2xx may or may not reach the callbacks.                          *)
(***************************************************************************)
ReadCallbacks(t) ==
    LET s == th[t].conn
        r == Head(q[s])
        Stop(e, cclose) ==
            /\ q' = [q EXCEPT ![s] = <<[Head(@) EXCEPT !.part = TRUE]>> \o Tail(@)]
            /\ Dispose(t, IF e = "ENOENT" THEN cclose ELSE TRUE, "ENOENT", th[t].last)
    IN
    /\ th[t].pc = "read"
    /\ Profile[th[t].fn].mode = "callbacks"
    /\ \/ /\ q[s] = <<>>
          /\ Dispose(t, TRUE, "ENOENT", th[t].last)
          /\ UNCHANGED q
       \/ /\ q[s] # <<>>
          /\ \E e \in CbErrors : Stop(e, FALSE)
       \/ /\ q[s] # <<>>
          /\ \E e \in CbErrors : Stop(e, r.close)
       \/ /\ q[s] # <<>>
          /\ q' = [q EXCEPT ![s] = Tail(@)]
          /\ \/ /\ r.status = "2xx"
                /\ Dispose(t, r.close, "SUCCESS", r)
             \/ /\ r.status = "404"
                /\ \E seen \in BOOLEAN : Dispose(t, seen /\ r.close, "ENOENT", r)
    /\ UNCHANGED announced

\* The parse after the reply (bucket list, metadata): a failure returns
\* DPL_FAILURE, the connection disposed of as the reply said.
ParseReply(t) ==
    /\ th[t].pc = "post"
    /\ \E ret \in {"SUCCESS", "FAILURE"} : Dispose(t, th[t].cclose, ret, th[t].last)
    /\ UNCHANGED <<announced, q>>

\* The caller of dpl_put_buffered owns the connection, sends the body and
\* closes it through vfile: a socket the server closed fails its I/O and is
\* terminated, an open one is released.
CallerClose(t) ==
    /\ th[t].pc = "owned"
    /\ Dispose(t, sock[th[t].conn] # "open", "SUCCESS", th[t].last)
    /\ UNCHANGED <<announced, q>>

\* The server drops an idle keep-alive connection.
ServerIdleClose(s) ==
    /\ s \in pool
    /\ sock[s] = "open"
    /\ sock' = [sock EXCEPT ![s] = "closed"]
    /\ UNCHANGED <<pool, announced, q, th>>

\* The steps of a started call: each is CPU work or a blocking socket call
\* that the ctx read/write timeouts bound, or the put_buffered caller's
\* close of the connection it was handed.
CallStep(t) ==
    \/ OpenHost(t)
    \/ GenRequest(t)
    \/ WriteRequest(t)
    \/ ReadPlain(t)
    \/ ReadCallbacks(t)
    \/ ParseReply(t)
    \/ CallerClose(t)

Next ==
    \/ \E t \in Threads : (\E fn \in Fns : Call(t, fn)) \/ CallStep(t)
    \/ \E s \in Sockets : ServerIdleClose(s)

\* Only safety is checked of the pool, so the specification carries no
\* fairness.
Spec == Init /\ [][Next]_vars

-----------------------------------------------------------------------------
TypeOK ==
    /\ pool \subseteq Sockets
    /\ sock \in [Sockets -> {"fresh", "open", "closed", "dead"}]
    /\ announced \in [Sockets -> BOOLEAN]
    /\ \A s \in Sockets : q[s] \in Seq(Reply)
    /\ \A t \in Threads :
         /\ th[t].pc \in {"idle", "open", "gen", "write", "read", "post", "owned"}
         /\ th[t].conn \in Sockets \cup {NoSock}
         /\ (th[t].conn = NoSock) <=> (th[t].pc \in {"idle", "open"})
         /\ th[t].last \in Reply \cup {NoReply}

\* A socket is idle in the pool or held by one call, never both and never
\* by two calls: release, terminate and the connp hand-over of
\* dpl_put_buffered each end the holder's use of it.
ConnectionSingleOwner ==
    \A s \in Sockets :
       Cardinality({t \in Threads : th[t].conn = s}) + (IF s \in pool THEN 1 ELSE 0) <= 1

\* Every reply a call reads answers that call's own request and starts at
\* its beginning: a connection is never released with part of a reply
\* still unread, so pooled reuse never hands one caller another's reply.
ReplyMatchesRequest ==
    \A t \in Threads : th[t].last = NoReply \/ (th[t].last.to = t /\ ~th[t].last.part)

\* A connection whose last reply said Connection: close is terminated and
\* never released to the pool, where the next caller would write into a
\* socket the server has closed.
PoolHoldsNoAnnouncedClose ==
    \A s \in pool : ~announced[s]

=============================================================================
