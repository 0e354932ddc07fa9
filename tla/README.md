# TLA+ models of Droplet

This directory holds TLA+ models of the Droplet client library
(`src/libdroplet`). Each one is checked with TLC. Every definition is
translated from the C source, and `PROJECT.json` maps each definition
to the lines it stands for.

## 1. The system

| Part | Source | State it keeps | Operations |
|------|--------|----------------|------------|
| vdir path layer | `vdir.c` | per-ctx cwd per bucket (`ctx->cwds`); directory handles (LIST snapshot + two cursors) | `dpl_namei`, `dpl_vdir_lookup`, `dpl_mkdir`, `dpl_mknod`, `dpl_rmdir`, `dpl_chdir`, `dpl_cwd`, `dpl_opendir`, `dpl_readdir`, `dpl_eof`, `dpl_closedir` |
| request execution | `convapi.c` | per call: request, connection, `connection_close` flag; the shared connection pool | `dpl_list_all_my_buckets`, `dpl_list_bucket`, `dpl_make_bucket`, `dpl_deletebucket`, `dpl_put`, `dpl_put_buffered`, `dpl_get`, `dpl_get_range`, `dpl_get_buffered`, `dpl_head(_all)`, `dpl_delete`, `dpl_genurl`, `dpl_copy` |
| HTTP framing | `httprequest.c` | none (pure) | Host, Range, condition and basic-auth headers; the request line and header block |
| ID layer | `id.c` | none (delegates) | `dpl_*_id`: compose `id_path/id` and dispatch to the backend |
| vfile | `vfile.h` | declarations only | — |
| connection pool, header dicts, S3 backend | not in this repository | — | used by the parts above |

**How the parts interact.** The vdir layer turns POSIX-style paths into
operations on a flat key space. It does this with one LIST (prefix = the
parent key, delimiter `/`) per name it looks up, plus the PUT of a
zero-length marker for mkdir/mknod and a LIST plus a DELETE for rmdir.
Every such call goes through the same convapi skeleton: build the request,
take a connection from the pool, frame the request with httprequest.c,
write it, read the reply, then release the connection or terminate it. The
ID layer composes a resource and calls the same backend functions.

**What makes it hard.** The bucket is shared, and nothing in the vdir layer
is atomic. A path is resolved by a sequence of LISTs. mkdir resolves its
path twice before it PUTs. rmdir counts entries and deletes later. The cwd
is a key saved at chdir time and trusted afterwards. Connections are pooled
and reused across calls, and a reply may ask for the connection to be
closed. Requests fail on the wire, and a PUT or DELETE may be applied even
though its reply is lost.

**What correct means.**
- namei resolves a path the way the interface describes.
- mkdir/mknod only create keys below a directory.
- rmdir removes only empty directories, and only directory markers.
- A directory listing yields every entry of its snapshot exactly once.
- Every call returns.
- A file never hides a directory of the same name.
- A connection is held by one call at a time, and a call only ever reads
  the reply to its own request.
- The pool never holds a connection whose last reply said
  `Connection: close`.
- A server that parses the framed request finds the method, the decoded
  resource, every query parameter and every header the caller asked for.
  It also serves exactly the bytes of the requested range.
- A read by id returns what was last written under that same id.

## 2. Modules

### Keyspace
Keys are kept split on the delimiter. `"a/b/"` is `<<"a","b","">>`, `"a/f"`
is `<<"a","f">>` and the root's empty key is `<<"">>`. String equality is
sequence equality. Appending a name extends the last component. The
operators are:
- `AppendName`, `AppendDelim`: the snprintf/strcat of vdir.c.
- `ListFiles`, `ListDirs`: what a LIST with a prefix and the delimiter
  returns. This is the server's side, so it is modelled from the interface
  (spec_modelled).
- `DotDotKey`: the `..` pointer arithmetic, with its index-0 quirk.
- `PrefixName`: the name a common prefix yields in lookup, with the same
  quirk. The prefix `/` has no name of its own: the scan starts before the
  buffer, and `StrayMatch` in Vdir models the byte it reads there.

### Vdir
The shared state is the bucket (`store`, a set of keys) and each client's
cwd. Each client is a program with its own `dpl_ctx_t`. Its current call is
the record `cl[c]`: `op` names the call and `pc` says where the call is.

| Action | Code |
|--------|------|
| `MkgenStart`, `MkgenResolved`, `MkgenParentResolved`, `MkgenPut` | `dpl_mkgen` and `dpl_vdir_mkgen` |
| `RmdirStart`, `RmdirResolved`, `RmdirCount`, `RmdirDelete` | `dpl_rmdir`, `dpl_vdir_rmdir` and `dpl_vdir_count_entries` |
| `ChdirStart`, `ChdirResolved` | `dpl_chdir` |
| `OpendirStart`, `OpendirResolved`, `OpendirList`, `Readdir`, `Closedir` | `dpl_opendir`, `dpl_vdir_opendir`, `dpl_vdir_readdir`, `dpl_vdir_eof` and `dpl_vdir_closedir` |
| `NameiStep` | one turn of the `dpl_namei` loop, at most one LIST through `Lookup` (`dpl_vdir_lookup`) |

Each action is one step in which at most one request reaches the store.
The steps of different clients therefore interleave exactly where the C
code waits on the network. When `NetFail` is TRUE:
- a LIST may fail;
- a PUT may be applied, not applied, or applied with its reply lost;
- a DELETE may fail in the same three ways.

Each failure returns the status the code returns for it: DPL_FAILURE from
lookup and mkgen, and DPL_ENOENT or DPL_FAILURE from dpl_delete. The model
leaves out byte lengths (ENAMETOOLONG and buffer truncation), the
`bucket:` locator prefix (one bucket) and allocation failure.

`Ops` is the set of calls the client programs make. `Paths` is the set of
locators they pass.

### VdirFS (abstract)
This is the file system the vdir layer promises: `dirs` and `files` are
sets of paths, and the root `<<>>` is a directory. `running[c]` is the
call client `c` is in (`"none"` between calls). `status[c]` is what its
last call returned (`"none"` while a call runs).
- `Begin(c, call)` starts a call, and `Return(c)` ends one that changes
  nothing. A mkdir or mknod that changed nothing may return anything but
  success.
- `Mkdir(c, p)` and `Mknod(c, p)` add a path whose parent is a directory
  and whose name is free. `Rmdir(c, p)` removes an empty directory other
  than the root. Each one is the step that ends a call of its own kind.
  It returns success, or the failure a lost reply gives: DPL_FAILURE from
  mkgen, DPL_ENOENT from dpl_delete.

Vdir instantiates it as `FS` with a refinement mapping from the bucket:
- a key ending with the delimiter is the directory named by the key
  without it (`FSDirs`);
- any other key is a file (`FSFiles`);
- a key outside the namespace is no entry at all;
- the call of a client is its `cl[c].op` (`FSRunning`);
- its status is `cl[c].ret` between calls (`FSStatus`).

`VdirRefinesFS == FS!FSSpec` says that every step of Vdir either leaves
that tree unchanged or is one abstract step, taken by the call that is
running. So mkdir may only add a directory, mknod only a file, rmdir only
remove a directory, and chdir and opendir may change nothing. This covers
lost replies, a PUT applied while the caller sees DPL_FAILURE, and namei
walks spread over many steps. It also ties mkdir's and mknod's return
code to the change: one that reports DPL_SUCCESS made its change (the
mutant `MkgenPutIgnoreStatus` breaks this). rmdir is exempt, because it
returns DPL_SUCCESS without removing anything when its path names a
regular file or ends in `..` (see the hazards). Because the call is part of the mapping, a mknod that PUT
`name/` (the mutant `MkgenKeyAlwaysDelim`) breaks the refinement. Without
it, that step would pass as somebody's mkdir.

### MCVdir
Defines the model values, path sets and buckets for TLC. `KeyDepthBound`
(`MaxKeyDepth` = 3) is a state constraint. It is needed because a program
can nest `mkdir a; chdir a` without end.

### Exchange
This is the skeleton every convapi function runs, for several threads that
share the connection pool. Each function is reduced to its **profile**:
- `mode`: a plain `dpl_read_http_reply`, or the callback reader of
  `dpl_get_buffered`;
- `post`: whether a parse of the reply follows that can fail;
- `expect`: whether the request carries `Expect: 100-continue`, as
  `dpl_put_buffered` does;
- `handover`: whether the connection is returned through `connp`.

The state is:
- `th[t]`: thread t's call, with its function, pc, connection,
  `connection_close` flag, return value and the last reply it read;
- `pool`: the idle sockets;
- `sock[s]`, `announced[s]` and `q[s]`: the server's end of each socket,
  and the replies queued on it.

| Action | Code |
|--------|------|
| `Call` | request build and setters; an error returns before a connection is taken |
| `OpenHost` | `dpl_conn_open_host`: a pooled socket, a fresh one, or NULL |
| `GenRequest` | `dpl_req_gen_http_request`; a failure releases the connection |
| `WriteRequest` | `dpl_conn_writev_all`; the server answers and may close. A failure sets `connection_close` |
| `ReadPlain` | `dpl_read_http_reply`: a 404 returns DPL_ENOENT with `connection_close` left at 0; other errors set it |
| `ReadCallbacks` | `dpl_read_http_reply_buffered` with `cb_get_header` and `cb_get_buffer` |
| `ParseReply` | the parse or metadata step after the read |
| `CallerClose` | the caller closing a connection it received from `dpl_put_buffered` |
| `ServerIdleClose` | the server dropping an idle keep-alive socket |
| `Dispose` (in all of the above) | the `end:` block: terminate or release |

`CallStep(t)` groups the steps of a started call. Only safety is checked
of the pool, so `Spec` carries no fairness: whether a call returns depends
on the read ending at EOF or at the transport's timeout, and both are
outside this repository.

The pool, the server and the caller of `dpl_put_buffered` are not in this
repository. They are modelled from their interface. `MCExchange` gives the
model values and function sets.

### HttpParse
This module is the receiving end, and it is a reference, not a model of
this repository. It splits the request line and header block as an
HTTP/1.1 server does (RFC 7230 §3) and percent-decodes the target (RFC 3986
§2.1). It also gives the bytes a Range value selects (RFC 7233 §2.1).
It also reads an `Authorization: Basic` value as a server does
(RFC 7617): `Unbase64` decodes it and `BasicCredentials` splits it at the
first `:`. `Base64` is the RFC 4648 encoding that `dpl_base64_encode`
(not in this repository) names, over the bytes that `CharCode` gives the
model characters. Strings are TLA+ strings. `SplitStr`, `PctDecode`,
`Decimal`, `Base64` and `Unbase64` are RECURSIVE operators.

### HttpFraming
This module holds the request descriptor, the header dict and the output
buffer of one framing.
- `Init` picks a descriptor: method, host, port, resource, subresource,
  query dict, condition list, range and encoding policy.
- `Init` also picks the credentials (`ak`, `sk`; `None` for a NULL key).
- The actions are the five header adders of `httprequest.c`, in any
  order, and `GenRequest` (`dpl_req_gen_http_request`).

| Definition | Code |
|------------|------|
| `AddHost` | `dpl_add_host_to_headers`: `host:port` unless the port is 80 |
| `RangeValue`, `AddRangeInternal` | `dpl_add_range_to_headers_internal`: `bytes=s-e`, `bytes=s-`, `bytes=-e` under the given field; DPL_EINVAL when both bounds are undefined |
| `AddRange`, `AddContentRange` | `dpl_add_range_to_headers` and `dpl_add_content_range_to_headers`: the field `Range` or `Content-Range` |
| `HttpDate`, `CondHeader`, `CondValue`, `AddCondition` | `dpl_add_condition_to_headers`: one dict entry per predicate, with the date abstracted to `Sec <t> GMT` |
| `Snprintf` | `snprintf` into a buffer of n bytes: at most n-1 characters are kept |
| `AddBasicAuth` | `dpl_add_basic_authorization_to_headers`: nothing without both keys; `ak:sk` cut to `AuthBufLen`, base64 encoded, `Basic ` prefixed and cut again |
| `ResourceUE` | the URL-encoding branch for the resource, with its leading-slash handling |
| `QueryPart`, `RequestLine`, `HeaderBlock` | the rest of `dpl_req_gen_http_request` |
| `GenRequest` | the whole function: DPL_FAILURE as soon as an append reaches the buffer size |

The dicts are hash tables, and the order in which the code walks them is
the order of the buckets. `Walks` lets that order be any permutation, so
every property holds for every order. `dpl_dict_add` replaces an existing
key.

### IdLayer
The state is the backend vtable (`slots`, fixed at Init), the store behind
it, what the caller last wrote under each id, and the last call. `IdCall`
is each of the eleven `dpl_*_id` functions, given by its profile
(`DplGetId` etc.). The call goes through these steps in order:
1. The `get_id_path` slot check: DPL_ENOTSUPP.
2. `get_id_path`, which may fail.
3. `Compose`: the snprintf of `id_path/id`, truncated to
   `DPL_MAXPATHLEN - 1` characters.
4. The operation's slot check.
5. The dispatch.

The backend store is modelled from the interface (spec_modelled).

### IdStore (abstract)
This is what the ID-addressed calls promise: a map `kv` from ids to
objects, and the `reply` of the last call.
- A put replaces the object of its id.
- A post creates an object under an id that held none.
- A get or head answers for the object of its id.
- A delete removes it.
- A refused or failed call changes nothing.

IdLayer instantiates it as `Abstract`. The mapping is:
- `kv[id]` is the backend object at `Compose(IdPath, id)`, the real
  resource, not the `written` record;
- `reply` is the last call.

`IdLayerRefinesStore` therefore fails as soon as truncation makes two ids
share a resource.

### Planned modules, in order
1. **Paginated LIST** in Keyspace: the server's page limit, under which a
   lookup, rmdir's count and readdir miss entries past the first page.
   The limit is applied by the server, outside this repository, and
   `dpl_list_bucket` sends no marker. So this would be a model of the
   server's side, shown by a violation run.
2. **Vdir over Exchange**: compose the two, so that each LIST, PUT and
   DELETE of Vdir goes through a pooled connection.

## 3. Runs

| Run | Clients | Bound | Checks | Result |
|-----|---------|-------|--------|--------|
| `vdir_seq` | 1 | every call but chdir; paths `a`, `a/b`, `/a`, `.`, `a/..`, `/`, `//a`; empty bucket; wire failures | `TypeOK`, `NameiAgreesWithReference`, `MkgenParentIsDirectory`, `RmdirDeletesOnlyEmpty`, `ReaddirComplete`, `VdirRefinesFS` | pass |
| `vdir_concurrent` | 2 | mkdir, rmdir, chdir, opendir; paths `a`, `../a`; keys and cwds at most 3 components deep | `EveryCallReturns` | pass |
| `vdir_rmdir_race` | 2 | `d/` exists; paths `d`, `d/x` | `RmdirDeletesOnlyEmpty` | violation |
| `vdir_mkdir_race` | 2 | `b/` exists; paths `b`, `b/c` | `MkgenParentIsDirectory` | violation |
| `vdir_stale_cwd` | 1 | paths `a`, `/a`, `y` | `NoFileShadowsDir` | violation |
| `vdir_rmdir_root` | 1 | empty bucket; path `/` | `RmdirTargetsAMarker` | violation |
| `exchange_pool` | 2 threads, 2 sockets | `get`, `put_buffered`, `get_buffered`; callbacks fail with DPL_FAILURE only | `TypeOK`, `ConnectionSingleOwner`, `ReplyMatchesRequest` | pass |
| `exchange_close_released` | 1 thread, 2 sockets | `delete` | `PoolHoldsNoAnnouncedClose` | violation |
| `http_framing` | one framing | 3 resources × 2 encoding policies × 3 listing queries × 3 condition lists × 6 ranges × Range or Content-Range × 2 ports × 2 subresources × 3 credentials; every dict order; 100-character buffer; `AuthBufLen` 16 | `TypeOK`, `RequestTargetRoundTrip`, `RangeSelectsRequested`, `AuthorizationCarriesCredentials` | pass |
| `http_query_unencoded` | one framing | LIST prefixes `a b/`, `x&y/`; both keys set; 100-character buffer | `RequestTargetRoundTrip` | violation |
| `id_store` | one caller | ids `abc1`, `abc2`, `longid12` (truncated), one post id; 3 backends; `DPL_MAXPATHLEN` = 10 | `TypeOK`, `IdLayerRefinesStore` | pass |
| `id_alias` | one caller | as above with `DPL_MAXPATHLEN` = 8 | `ReadsSeeOwnWrites` | violation |

What the runs show:
- **`NameiAgreesWithReference`** compares the step-by-step namei with
  `SpecNamei`, a recursive resolver written from the interface
  description. A lookup may pick either the object or the common prefix
  when both match. The property is checked whenever namei returns
  something other than a wire failure. It only makes sense for a single
  client, because with two the bucket may change during the walk.
- **The single-client run** shows that the mkdir and rmdir checks hold
  when nobody else touches the bucket. This includes lost replies and
  failed LISTs. The refinement `VdirRefinesFS` holds there too: every
  change to the bucket is a legal step of the directory tree.
- **Keys beginning with the delimiter** (not a run). Another S3 client
  may store `/x`; a root LIST then shows the common prefix `/`. For it the
  name scan of `dpl_vdir_lookup` (vdir.c:173-186) gets key_len 1 and
  compares the byte at `prefix[-1]`, before the buffer, with the name.
  The read is undefined; `StrayMatch` lets that byte match any
  one-character name or none. `/` is listed before letters, so a match
  makes the lookup of `a` at the root return the directory `/`, and a
  `..` from there runs the index-0 scan of vdir.c:82-94 on `/`, which
  writes its NUL before the key. A TLC run of `vdir_seq` started from a
  bucket holding `/x` breaks `NameiAgreesWithReference` in two steps.
  The runs start from an empty bucket, which no path of the API can give
  such a key; this is recorded as a hazard.
- **rmdir that removes nothing** (not a run). `dpl_rmdir` appends the last
  path component to the parent that namei returned, and never looks at
  what the path resolved to. rmdir of a regular file `f` counts and
  DELETEs `f/`, and rmdir of `a/..` DELETEs `a/../`. S3 acknowledges the
  DELETE of a missing key, so the call returns DPL_SUCCESS. A TLC run on
  a bucket holding `f` and `a/` reaches that DELETE. This is recorded as a
  hazard, and it is why `VdirFS` does not tie rmdir's return code to a
  change.
- **Why the refinement holds only there.** With chdir, the stale cwd of
  `vdir_stale_cwd` lets a relative mkdir create a directory below a name
  that is now a file. That step is not a `VdirFS` step. With two programs
  it also fails: both see `a` absent, one PUTs `a/` and the other `a`, so
  a file and a directory share a name. The abstract specification fails
  exactly where the violation runs below show the code failing.
- **The violation runs** show that they do not hold with a second
  program, or after a stale cwd. The findings in `PROJECT.json` give the
  traces in words.
- **`rmdir "/"`** on an empty bucket sends DELETE with the empty key. The
  request line renders it as `DELETE /`, which deletes the bucket.

- **`exchange_pool`** covers the three kinds of function: a parse, a
  hand-over and callbacks. It shows that, across write and read failures,
  404s, `Connection: close` and idle closes, a socket is never shared and
  no call reads a reply that is not its own. A call that stopped holding
  a socket without releasing or terminating it would leave the socket
  neither pooled nor dead; a socket released twice would be pooled while
  another call holds it, which `ConnectionSingleOwner` catches.
- **`exchange_close_released`**: a 404 carrying `Connection: close` is
  returned as DPL_ENOENT without looking at the headers. The socket goes
  back to the pool while the server closes it.
- **Callbacks returning DPL_ENOENT** (not a run): a user callback of
  `dpl_get_buffered` returning DPL_ENOENT takes the same 404 branch. The
  branch releases the socket with the rest of the reply unread, and with
  `CbErrors = {"ENOENT"}` TLC shows the next caller reading that reply as
  its own (`ReplyMatchesRequest`). The cause is the same as in
  `exchange_close_released`.

- **`http_framing`**: with URL encoding on, resources containing a
  space, `?`, `%` or `/` round-trip through a server parse. So do the
  listing queries of the vdir layer, the subresource, the Host header
  and ranges with a defined start under `Range`. The same range may go
  out under `Content-Range` (`dpl_add_content_range_to_headers`, which
  calls the same internal function with that field name). The range check is against the bytes the server serves
  for the object, not against the text. A message longer than the buffer
  fails the call.
  The Authorization header decodes to the request's access and secret
  keys, and there is none when either key is NULL
  (`AuthorizationCarriesCredentials`). With `AuthBufLen` = 16 the
  credentials `ab:x1` encode to `Basic YWI6eDE=`, exactly 15 characters,
  and the property holds. The second `snprintf` cuts the value silently
  when it does not fit: with `AuthBufLen` = 14 TLC sends
  `Basic YWI6eDE`, which decodes to `ab:` only. In the code, with
  `auth_str[1024]`, this happens for credentials of 763 to 765 bytes. Longer
  credentials overflow `base64_str` (undefined behaviour), which the
  module excludes with an ASSUME. Both are recorded as hazards.
- **`http_query_unencoded`**: query parameters are never encoded. A
  directory named `x&y` makes the vdir lookup send
  `GET /?prefix=x&y/&delimiter=/ HTTP/1.1`, which the server reads as
  the prefix `x` and an extra parameter `y/`. A directory named `a b`
  sends `prefix=a b/`, a request line with four fields. TLC reports
  whichever of the two it reaches first.
- **Repeated and open-start predicates** (not runs): two `If-Match`
  conditions in one list send only the last etag, because the header
  dict keeps one value per name. A range with an undefined start and end 2 is
  sent as `bytes=-2`, which selects the last two bytes, and that breaks
  `RangeSelectsRequested`. Both are recorded as hazards. Whether the
  interface means them is a question about its words, not about the code.
- **`id_store`**: across all eleven functions, wire failures of
  get_id_path and backends with missing slots, every get or head by id
  returns what was last put under that id. This holds while the
  truncation of `longid12` leaves distinct resources. The layer as a whole
  refines `IdStore`. The `ENOTSUPP`/`FAILURE` order of the slot checks is
  allowed by the abstract store, because a refused call changes nothing.
- **`id_alias`**: with a smaller buffer, `abc1` and `abc2` compose the
  same resource, and a get of one returns the other's data.

**Bounds.** Two clients are enough for every race: each race needs one
call interleaved with one other call. Paths one or two components deep
reach the parent/child cases. Three-component keys (`a/b/`) give
directories nested inside directories.

HttpFraming frames one request per behaviour. The constants vary the
descriptor, and `Walks` varies the dict order. `ObjSize` = 4 is large
enough that the ranges (1,2), (1,∞), (1,9) and (0,0) select different
byte sets. A 100-character buffer is too small for the longest framings,
so the failure branch is reached. IdLayer has three ids, two of which
agree on their first three characters, and one that only fits truncated.
Together with `DPL_MAXPATHLEN` = 8 or 10, that decides whether truncation
aliases.

The HttpFraming runs set `CHECK_DEADLOCK FALSE`, because a framing ends
once its message is generated. IdLayer checks deadlock: a caller can
always make another call.

For Exchange, two sockets let one be pooled while the other is in use.
Each socket is dialled once, so the state space is finite with no
constraint.

**Fairness.** Only Vdir carries fairness. `EveryCallReturns` assumes weak fairness on each client's
internal steps. Every wire call of the code either completes or fails
after the ctx read/write timeouts. The readdir loop is driven by the
caller until `dpl_eof`, as `dpl_vdir_count_entries` does. No client is
obliged to start a call, so starting one is not fair.

## 4. Not modelled
- **The `bucket:` locator prefix and `cur_bucket` switching in chdir**:
  one bucket is modelled.
- **Byte lengths**: `DPL_MAXNAMLEN`/`DPL_MAXPATHLEN` checks, the
  unchecked strcat in rmdir, and snprintf truncation. Components are
  abstract strings, and both limits are defined outside this repository.
  The hazards record where they bite. Lookup limits a whole key to
  `DPL_MAXNAMLEN`, while mkgen and readdir allow keys up to
  `DPL_MAXPATHLEN`, so a directory with a long key can be created and
  listed but not resolved.
- **Memory**: allocation failure (including the NULL dereference in the
  opendir error path) and the closedir leak.
- **`dpl_iname`**: it always returns DPL_FAILURE.
- **vfile.h**: declarations only; no code.
- **Payloads in convapi**: bucket lists, metadata and data buffers, and
  what the parsers return. Only whether a parse fails matters to the
  connection.
- **`dpl_genurl`**: it takes no connection and calls `dpl_req_gen_url`,
  which is not in this repository, so the URL it builds is not checked.
- **Overflow of `base64_str`** in `dpl_add_basic_authorization_to_headers`
  (credentials of 766 bytes or more): undefined behaviour, excluded by an
  ASSUME in HttpFraming.
- **URL encoding off**: the resource is then sent raw, by design. Only
  the two encoding-on policies are checked.
- **Arity of `dpl_req_gen_http_request`**: convapi.c calls it with six
  arguments, while httprequest.c defines it with seven (`ctx` first).
  This is a build-level discrepancy that a model cannot express. The
  models follow the definition.
- **Date formatting**: `strftime` of the condition time is abstracted to
  a token that keeps the time distinct.
