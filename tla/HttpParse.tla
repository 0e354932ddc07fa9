------------------------------ MODULE HttpParse ------------------------------
(***************************************************************************)
(* The receiving end of a request that dpl_req_gen_http_request frames:    *)
(* how an HTTP/1.1 server splits the request line and header block (RFC    *)
(* 7230 section 3), percent-decodes the target (RFC 3986 section 2.1) and  *)
(* selects bytes for a Range header (RFC 7233 section 2.1) and reads      *)
(* Basic credentials (RFC 7617, RFC 4648).  These are the                  *)
(* reference definitions the framing is checked against; none of them     *)
(* translates code of this repository.                                     *)
(*                                                                         *)
(* Strings are TLA+ strings; Char(s, i) is the i-th character.             *)
(***************************************************************************)
EXTENDS Naturals, Sequences, SequencesExt, FiniteSets, TLC

Char(s, i) == SubSeq(s, i, i)

\* The characters dpl_url_encode leaves alone within the alphabet the models
\* use, and the two hex digits of each character it escapes.
Unreserved == {"a", "b", "x", "y", "0", "1", "-", "."}
Hex == [c \in {" ", "&", "/", "?", "%", "=", "#"} |->
          CASE c = " " -> "20" [] c = "&" -> "26" [] c = "/" -> "2F"
            [] c = "?" -> "3F" [] c = "%" -> "25" [] c = "=" -> "3D"
            [] c = "#" -> "23"]

\* The concatenation of a sequence of strings ("" for none).
Concat(ss) == IF ss = <<>> THEN "" ELSE FlattenSeq(ss)

\* The positions at which the string sep starts inside s.
Matches(s, sep) ==
    {i \in 1..(Len(s) - Len(sep) + 1) : SubSeq(s, i, i + Len(sep) - 1) = sep}

\* s split at every occurrence of sep, as a server tokenizer does.
RECURSIVE SplitStr(_, _)
SplitStr(s, sep) ==
    IF Matches(s, sep) = {} THEN <<s>>
    ELSE LET i == Min(Matches(s, sep))
         IN  <<SubSeq(s, 1, i - 1)>> \o SplitStr(SubSeq(s, i + Len(sep), Len(s)), sep)

\* s cut at the first sep: <<before, after>>, or <<s>> when sep is absent.
CutFirst(s, sep) ==
    IF Matches(s, sep) = {} THEN <<s>>
    ELSE LET i == Min(Matches(s, sep))
         IN  <<SubSeq(s, 1, i - 1), SubSeq(s, i + Len(sep), Len(s))>>

\* RFC 3986 percent-decoding.
RECURSIVE PctDecode(_)
PctDecode(s) ==
    IF Len(s) = 0 THEN ""
    ELSE IF Char(s, 1) = "%" /\ Len(s) >= 3
            /\ \E c \in DOMAIN Hex : Hex[c] = SubSeq(s, 2, 3)
         THEN (CHOOSE c \in DOMAIN Hex : Hex[c] = SubSeq(s, 2, 3))
                 \o PctDecode(SubSeq(s, 4, Len(s)))
         ELSE Char(s, 1) \o PctDecode(SubSeq(s, 2, Len(s)))

\* A query string as the set of its decoded name/value parameters; a
\* parameter without "=" (an S3 subresource such as "acl") has no value.
Params(query, none) ==
    LET items == {SplitStr(query, "&")[i] : i \in 1..Len(SplitStr(query, "&"))} \ {""}
        Pair(it) == CutFirst(it, "=")
    IN {[name  |-> PctDecode(Pair(it)[1]),
         value |-> IF Len(Pair(it)) = 2 THEN PctDecode(Pair(it)[2]) ELSE none] : it \in items}

\* The request line and header block as a server parses them: ok when the
\* request line has exactly the three fields method SP target SP version.
ParseRequest(msg, none) ==
    LET lines  == SplitStr(msg, "\r\n")
        fields == SplitStr(lines[1], " ")
        target == CutFirst(fields[2], "?")
        hlines == {lines[i] : i \in 2..Len(lines)} \ {""}
    IN [ok      |-> Len(fields) = 3 /\ fields[3] = "HTTP/1.1",
        method  |-> fields[1],
        path    |-> PctDecode(target[1]),
        query   |-> IF Len(target) = 2 THEN Params(target[2], none) ELSE {},
        headers |-> {[name |-> CutFirst(h, ": ")[1], value |-> CutFirst(h, ": ")[2]] :
                        h \in {x \in hlines : Matches(x, ": ") # {}}}]

\* The decimal value of a string of digits.
RECURSIVE Decimal(_)
Decimal(s) ==
    LET d == CHOOSE n \in 0..9 : ToString(n) = Char(s, Len(s)) IN
    IF Len(s) = 1 THEN d ELSE 10 * Decimal(SubSeq(s, 1, Len(s) - 1)) + d

IsNumber(s) == Len(s) > 0 /\ \A i \in 1..Len(s) : Char(s, i) \in {ToString(n) : n \in 0..9}

(***************************************************************************)
(* RFC 7233: the bytes of an object of size sz a server returns for the   *)
(* Range value v.  "first-last" selects first..min(last, sz-1), and is     *)
(* ignored (the whole object is sent) when last < first; "first-" runs to  *)
(* the end; "-n" is a suffix range selecting the last n bytes.  A range    *)
(* that selects nothing is answered 416 (no bytes).                        *)
(***************************************************************************)
ServedBytes(v, sz) ==
    LET spec  == SubSeq(v, 7, Len(v))
        ends  == CutFirst(spec, "-")
        first == ends[1]
        last  == ends[2]
    IN CASE SubSeq(v, 1, 6) # "bytes=" \/ Len(ends) # 2 -> 0..(sz - 1)
         [] first = "" /\ IsNumber(last) ->
                IF sz > Decimal(last) THEN (sz - Decimal(last))..(sz - 1) ELSE 0..(sz - 1)
         [] IsNumber(first) /\ last = "" -> Decimal(first)..(sz - 1)
         [] IsNumber(first) /\ IsNumber(last) ->
                IF Decimal(last) < Decimal(first) THEN 0..(sz - 1)
                ELSE Decimal(first)..(IF Decimal(last) < sz THEN Decimal(last) ELSE sz - 1)
         [] OTHER -> 0..(sz - 1)

(***************************************************************************)
(* RFC 4648 base64 and the RFC 7617 reading of "Authorization: Basic".     *)
(* dpl_base64_encode is not in this repository; Base64 is the encoding it  *)
(* names.  CharCode gives the byte of each character the models use.      *)
(***************************************************************************)
CharCode == ("a" :> 97) @@ ("b" :> 98) @@ ("x" :> 120) @@ ("y" :> 121)
            @@ ("0" :> 48) @@ ("1" :> 49) @@ (":" :> 58) @@ ("(" :> 40)
            @@ (")" :> 41) @@ ("n" :> 110) @@ ("u" :> 117) @@ ("l" :> 108)

Bytes(s) == [i \in 1..Len(s) |-> CharCode[Char(s, i)]]

\* The characters of a sequence of bytes ("?" for a byte with no character).
Text(bs) ==
    Concat([i \in 1..Len(bs) |->
              IF \E c \in DOMAIN CharCode : CharCode[c] = bs[i]
              THEN CHOOSE c \in DOMAIN CharCode : CharCode[c] = bs[i] ELSE "?"])

B64Digits == "ABCDEFGHIJKLMNOPQRSTUVWXYZabcdefghijklmnopqrstuvwxyz0123456789+/"

\* Each group of three bytes becomes four digits of six bits; a last group
\* of one or two bytes is padded with "=".
RECURSIVE Base64(_)
Base64(bs) ==
    IF bs = <<>> THEN ""
    ELSE LET n == IF Len(bs) < 3 THEN Len(bs) ELSE 3
             byte(i) == IF i <= n THEN bs[i] ELSE 0
             v == byte(1) * 65536 + byte(2) * 256 + byte(3)
             digit(i) == Char(B64Digits, ((v \div 2^(6 * (4 - i))) % 64) + 1)
         IN  Concat([i \in 1..4 |-> IF i <= n + 1 THEN digit(i) ELSE "="])
             \o Base64(SubSeq(bs, n + 1, Len(bs)))

\* The bytes a server decodes from base64 text; a trailing part shorter
\* than four digits is dropped.
RECURSIVE Unbase64(_)
Unbase64(s) ==
    IF Len(s) < 4 THEN <<>>
    ELSE LET val(c) == IF c = "=" THEN 0
                       ELSE CHOOSE k \in 0..63 : Char(B64Digits, k + 1) = c
             v == val(Char(s, 1)) * 262144 + val(Char(s, 2)) * 4096
                  + val(Char(s, 3)) * 64 + val(Char(s, 4))
             pads == Cardinality({i \in 3..4 : Char(s, i) = "="})
         IN  SubSeq(<<(v \div 65536) % 256, (v \div 256) % 256, v % 256>>, 1, 3 - pads)
             \o Unbase64(SubSeq(s, 5, Len(s)))

\* RFC 7617: the user-id and password of a Basic value, split at the first
\* ":" of the decoded text; <<>> when the value is not a Basic one.
BasicCredentials(v) ==
    IF Len(v) < 6 \/ SubSeq(v, 1, 6) # "Basic " THEN <<>>
    ELSE LET pair == CutFirst(Text(Unbase64(SubSeq(v, 7, Len(v)))), ":")
         IN  IF Len(pair) = 2 THEN pair ELSE <<>>

=============================================================================
