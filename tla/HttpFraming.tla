----------------------------- MODULE HttpFraming -----------------------------
(***************************************************************************)
(* httprequest.c: the headers the request builder adds for a descriptor   *)
(* (Host, Range or Content-Range, the conditions) and the request line and *)
(* header block dpl_req_gen_http_request writes into the caller's buffer.  *)
(*                                                                         *)
(* One request is framed per behaviour: Init picks the descriptor, the     *)
(* credentials of the ctx,                                                 *)
(* query parameters and the encoding policy of the ctx; the adders run, in *)
(* the order the backend's dpl_req_build chooses, and then the framer.     *)
(* Headers and query parameters are dicts with one value per key; the     *)
(* order in which a dict is walked is its bucket order, which the model    *)
(* leaves open.                                                            *)
(***************************************************************************)
EXTENDS HttpParse

CONSTANTS
    Methods,      \* dpl_method_str of the methods used
    Hosts,        \* req->host, or None
    Ports,        \* req->port strings
    Resources,    \* req->resource strings
    Subresources, \* req->subresource strings, or None
    QueryDicts,   \* the query_params dicts (functions name -> value), or None
    CondLists,    \* cond->conds[0 .. n_conds-1]
    Ranges,       \* [start, end] with Undef for DPL_UNDEF, or None
    Policies,     \* [urlenc, encslash]: ctx->url_encoding, ctx->encode_slashes
    Credentials,  \* [ak, sk]: ctx->access_key, ctx->secret_key (None for NULL)
    AuthBufLen,   \* the size of basic_str, base64_str and auth_str (1024)
    BufLen,       \* the size of the header buffer
    ObjSize,      \* the size of the object a Range is applied to
    Undef,        \* DPL_UNDEF
    None          \* NULL

\* base64_str receives the encoding of basic_str with no bound: the models
\* keep to credentials whose encoding fits it.
ASSUME \A c \in Credentials :
          c.ak # None /\ c.sk # None => Len(Base64(Bytes(c.ak \o ":" \o c.sk))) < AuthBufLen

CondTypes == {"IF_MODIFIED_SINCE", "IF_UNMODIFIED_SINCE", "IF_MATCH", "IF_NONE_MATCH"}

VARIABLES
    req,    \* the request descriptor and ctx policy
    qp,     \* query_params
    hdrs,   \* the header dict the builder fills
    added,  \* the dpl_add_*_to_headers functions that have run
    pc,     \* "build", "framed" or "failed"
    ret,    \* the status of the last function
    buf     \* the bytes written to the buffer (up to *lenp)

vars == <<req, qp, hdrs, added, pc, ret, buf>>

\* dpl_dict_add: a key holds one value, and adding it again replaces it.
DictAdd(d, k, v) == [x \in DOMAIN d \cup {k} |-> IF x = k THEN v ELSE d[x]]

EmptyDict == [x \in {} |-> ""]

\* The adders the backend's dpl_req_build calls for this descriptor; the
\* backend modelled authenticates with Basic.
Needed ==
    {"host", "auth"} \cup (IF req.range # None THEN {req.rfield} ELSE {})
             \cup (IF req.conds # <<>> THEN {"condition"} ELSE {})

Init ==
    /\ req \in [method : Methods, host : Hosts, port : Ports, resource : Resources,
                subresource : Subresources, conds : CondLists, range : Ranges,
                rfield : {"Range", "Content-Range"},
                policy : Policies, cred : Credentials]
    /\ qp \in QueryDicts
    /\ hdrs = EmptyDict
    /\ added = {}
    /\ pc = "build"
    /\ ret = "SUCCESS"
    /\ buf = ""

Fail(r) == /\ pc' = "failed" /\ ret' = r /\ UNCHANGED <<hdrs, added, buf>>

-----------------------------------------------------------------------------
\* dpl_add_host_to_headers: "host:port" unless the port is "80".
AddHost ==
    /\ pc = "build" /\ "host" \notin added
    /\ hdrs' = IF req.host = None THEN hdrs
               ELSE DictAdd(hdrs, "Host",
                            IF req.port # "80" THEN req.host \o ":" \o req.port ELSE req.host)
    /\ added' = added \cup {"host"}
    /\ UNCHANGED <<req, qp, pc, ret, buf>>

\* Mutant: the two open-ended formats exchanged.
RangeValueSwapped(r) ==
    CASE r.start = Undef -> "bytes=" \o ToString(r.end) \o "-"
      [] r.end = Undef   -> "bytes=-" \o ToString(r.start)
      [] OTHER           -> "bytes=" \o ToString(r.start) \o "-" \o ToString(r.end)

\* The value of dpl_add_range_to_headers_internal for range r.
RangeValue(r) ==
    CASE r.start = Undef -> "bytes=-" \o ToString(r.end)
      [] r.end = Undef   -> "bytes=" \o ToString(r.start) \o "-"
      [] OTHER           -> "bytes=" \o ToString(r.start) \o "-" \o ToString(r.end)

\* dpl_add_range_to_headers_internal: both bounds undefined is DPL_EINVAL.
AddRangeInternal(field) ==
    /\ pc = "build" /\ field \in Needed \ added
    /\ IF req.range.start = Undef /\ req.range.end = Undef
       THEN Fail("EINVAL")
       ELSE /\ hdrs' = DictAdd(hdrs, field, RangeValue(req.range))
            /\ added' = added \cup {field}
            /\ UNCHANGED <<pc, ret, buf>>
    /\ UNCHANGED <<req, qp>>

\* dpl_add_range_to_headers, for a ranged GET.
AddRange == AddRangeInternal("Range")

\* dpl_add_content_range_to_headers, for a ranged upload: the same value
\* under the Content-Range field.
AddContentRange == AddRangeInternal("Content-Range")

\* strftime "%a, %d %b %Y %H:%M:%S GMT" of gmtime: one date string per
\* second.  The calendar arithmetic is abstracted; the rendering stays
\* injective, which is all the conditions need.
HttpDate(t) == "Sec " \o ToString(t) \o " GMT"

CondHeader(c) ==
    CASE c.type = "IF_MODIFIED_SINCE"   -> "If-Modified-Since"
      [] c.type = "IF_UNMODIFIED_SINCE" -> "If-Unmodified-Since"
      [] c.type = "IF_MATCH"            -> "If-Match"
      [] c.type = "IF_NONE_MATCH"       -> "If-None-Match"

CondValue(c) ==
    IF c.type \in {"IF_MODIFIED_SINCE", "IF_UNMODIFIED_SINCE"} THEN HttpDate(c.time) ELSE c.etag

\* dpl_add_condition_to_headers: one dpl_dict_add per condition, in order.
AddCondition ==
    /\ pc = "build" /\ "condition" \in Needed \ added
    /\ hdrs' = FoldLeft(LAMBDA d, c : DictAdd(d, CondHeader(c), CondValue(c)), hdrs, req.conds)
    /\ added' = added \cup {"condition"}
    /\ UNCHANGED <<req, qp, pc, ret, buf>>

\* snprintf into a buffer of n bytes: at most n - 1 characters are kept.
Snprintf(s, n) == IF Len(s) < n THEN s ELSE SubSeq(s, 1, n - 1)

\* Mutant: the NULL test dropped; glibc prints a NULL "%s" as "(null)".
AddBasicAuthNoNullCheck ==
    LET Str(x) == IF x = None THEN "(null)" ELSE x
        basic == Snprintf(Str(req.cred.ak) \o ":" \o Str(req.cred.sk), AuthBufLen)
    IN
    /\ pc = "build" /\ "auth" \in Needed \ added
    /\ hdrs' = DictAdd(hdrs, "Authorization",
                       Snprintf("Basic " \o Base64(Bytes(basic)), AuthBufLen))
    /\ added' = added \cup {"auth"}
    /\ UNCHANGED <<req, qp, pc, ret, buf>>

\* dpl_add_basic_authorization_to_headers: nothing when either key is NULL;
\* else "Basic " and the base64 of "access_key:secret_key", each step
\* through snprintf into a buffer of AuthBufLen bytes.
AddBasicAuth ==
    LET basic == Snprintf(req.cred.ak \o ":" \o req.cred.sk, AuthBufLen) IN
    /\ pc = "build" /\ "auth" \in Needed \ added
    /\ hdrs' = IF req.cred.ak = None \/ req.cred.sk = None THEN hdrs
               ELSE DictAdd(hdrs, "Authorization",
                            Snprintf("Basic " \o Base64(Bytes(basic)), AuthBufLen))
    /\ added' = added \cup {"auth"}
    /\ UNCHANGED <<req, qp, pc, ret, buf>>

-----------------------------------------------------------------------------
\* dpl_url_encode (encode_slashes) and dpl_url_encode_no_slashes.
UrlEncode(s, slashes) ==
    Concat([i \in 1..Len(s) |->
              IF Char(s, i) \in Unreserved \/ (Char(s, i) = "/" /\ ~slashes)
              THEN Char(s, i) ELSE "%" \o Hex[Char(s, i)]])

\* Mutant: with encode_slashes the leading "/" is encoded too.
ResourceUENoSkip(r, pol) ==
    LET lead == Len(r) > 0 /\ Char(r, 1) = "/"
    IN CASE pol.urlenc /\ pol.encslash -> "/" \o UrlEncode(r, TRUE)
         [] pol.urlenc                 -> IF lead THEN UrlEncode(r, FALSE) ELSE "/" \o UrlEncode(r, FALSE)
         [] OTHER                      -> IF lead THEN r ELSE "/" \o r

\* resource_ue: the resource with a leading "/", encoded per the policy.
ResourceUE(r, pol) ==
    LET lead == Len(r) > 0 /\ Char(r, 1) = "/"
        rest == IF lead THEN SubSeq(r, 2, Len(r)) ELSE r
    IN CASE pol.urlenc /\ pol.encslash -> "/" \o UrlEncode(rest, TRUE)
         [] pol.urlenc                 -> IF lead THEN UrlEncode(r, FALSE) ELSE "/" \o UrlEncode(r, FALSE)
         [] OTHER                      -> IF lead THEN r ELSE "/" \o r

\* "?", the subresource, and "&key=value" for each parameter walked in the
\* order ks, with no "&" before the first when there is no subresource.
QueryPart(sub, ks) ==
    (IF sub # None \/ ks # None THEN "?" ELSE "")
    \o (IF sub # None THEN sub ELSE "")
    \o (IF ks = None THEN ""
        ELSE Concat([i \in 1..Len(ks) |->
                       (IF i > 1 \/ sub # None THEN "&" ELSE "") \o ks[i] \o "=" \o qp[ks[i]]]))

RequestLine(ks) ==
    req.method \o " " \o ResourceUE(req.resource, req.policy)
    \o QueryPart(req.subresource, ks) \o " " \o "HTTP/1.1" \o "\r\n"

HeaderBlock(hs) == Concat([i \in 1..Len(hs) |-> hs[i] \o ": " \o hdrs[hs[i]] \o "\r\n"])

\* The orders in which a dict's keys may be walked.
Walks(d) == IF d = None THEN {None} ELSE SetToSeqs(DOMAIN d)

\* Mutant: the framer writes without checking the room left.
GenRequestUnbounded ==
    /\ pc = "build" /\ added = Needed
    /\ \E ks \in Walks(qp), hs \in Walks(hdrs) :
          /\ pc' = "framed" /\ ret' = "SUCCESS" /\ buf' = RequestLine(ks) \o HeaderBlock(hs)
    /\ UNCHANGED <<req, qp, hdrs, added>>

\* dpl_req_gen_http_request.  dpl_append_str fails when the rest of the
\* buffer is too small; whether it keeps room for a NUL is not in this
\* repository, so a message of exactly BufLen bytes may go either way.
GenRequest ==
    /\ pc = "build" /\ added = Needed
    /\ \E ks \in Walks(qp), hs \in Walks(hdrs) :
          LET msg == RequestLine(ks) \o HeaderBlock(hs) IN
          \/ /\ Len(msg) <= BufLen
             /\ pc' = "framed" /\ ret' = "SUCCESS" /\ buf' = msg
          \/ /\ Len(msg) >= BufLen
             /\ pc' = "failed" /\ ret' = "FAILURE" /\ UNCHANGED buf
    /\ UNCHANGED <<req, qp, hdrs, added>>

Next == AddHost \/ AddRange \/ AddContentRange \/ AddCondition \/ AddBasicAuth \/ GenRequest

Spec == Init /\ [][Next]_vars

-----------------------------------------------------------------------------
TypeOK ==
    /\ pc \in {"build", "framed", "failed"}
    /\ ret \in {"SUCCESS", "FAILURE", "EINVAL"}
    /\ added \subseteq {"host", "Range", "Content-Range", "condition", "auth"}
    /\ DOMAIN hdrs \subseteq {"Host", "Range", "Content-Range", "If-Modified-Since", "If-Unmodified-Since",
                              "If-Match", "If-None-Match", "Authorization"}
    /\ (pc = "framed") => (ret = "SUCCESS" /\ Len(buf) <= BufLen)

\* The request as the server parses what was written.
Parsed == ParseRequest(buf, None)

ExpectedPath(r) == IF Len(r) > 0 /\ Char(r, 1) = "/" THEN r ELSE "/" \o r

ExpectedQuery ==
    (IF req.subresource = None THEN {} ELSE Params(req.subresource, None))
    \cup (IF qp = None THEN {} ELSE {[name |-> k, value |-> qp[k]] : k \in DOMAIN qp})

\* A framed request reaches the server as the request the caller described:
\* a three-field request line whose target decodes to the resource, the
\* subresource and exactly the query parameters given to
\* dpl_req_gen_http_request (for dpl_list_bucket: the prefix and delimiter).
RequestTargetRoundTrip ==
    pc = "framed" =>
        /\ Parsed.ok
        /\ Parsed.method = req.method
        /\ Parsed.path = ExpectedPath(req.resource)
        /\ Parsed.query = ExpectedQuery

\* The bytes the caller asked for: an undefined bound is open-ended.
Requested(r) ==
    (IF r.start = Undef THEN 0 ELSE r.start)
        ..(IF r.end = Undef \/ r.end >= ObjSize THEN ObjSize - 1 ELSE r.end)

\* The Range header dpl_add_range_to_headers writes makes a server return
\* exactly the bytes of the range the caller gave to dpl_req_add_range.
RangeSelectsRequested ==
    (pc = "framed" /\ req.range # None /\ req.rfield = "Range") =>
        \E h \in Parsed.headers :
            /\ h.name = "Range"
            /\ ServedBytes(h.value, ObjSize) = Requested(req.range)

\* The server reads back the ctx's credentials from the request: with both
\* keys set it finds one Authorization header whose Basic user-id and
\* password are the access and secret key; with either missing there is
\* none (dpl_add_basic_authorization_to_headers omits it silently).
AuthorizationCarriesCredentials ==
    pc = "framed" =>
        LET auth == {h \in Parsed.headers : h.name = "Authorization"} IN
        IF req.cred.ak = None \/ req.cred.sk = None
        THEN auth = {}
        ELSE \E h \in auth : BasicCredentials(h.value) = <<req.cred.ak, req.cred.sk>>

=============================================================================
