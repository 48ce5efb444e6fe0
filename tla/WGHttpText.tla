---------------------------- MODULE WGHttpText ----------------------------
(***************************************************************************)
(* The text WinHTTP works on: Sources/Win32/wg_winhttp.c.                  *)
(*                                                                         *)
(* URLs are taken apart twice in this file: by WinHttpCrackUrl, for the    *)
(* guest, and by WinHttpReceiveResponse, to follow a redirect.  A URL is a *)
(* sequence of tokens: a scheme, "/", ":", "?", names and numbers.         *)
(*                                                                         *)
(* WinHttpQueryHeaders writes text into a buffer of the guest whose size   *)
(* it is told.  Text is its length; a character takes two bytes.           *)
(***************************************************************************)
EXTENDS Integers, Sequences, SequencesExt

CONSTANTS
    WIDE_MAX,       \* the most characters write_wstr_to writes: 2047 in the code
    MaxText,        \* bound: characters in a header, or in all of them
    MaxUrl          \* bound: tokens behind the host of a URL

ASSUME TextAssumption == WIDE_MAX \in Nat /\ MaxText \in Nat /\ MaxUrl \in Nat

VARIABLES
    query,          \* what the guest, or a redirect, asks for
    reply          \* what it gets

textVars == <<query, reply>>

-----------------------------------------------------------------------------
(* URLs.                                                                   *)

Schemes   == {"https://", "http://"}
PortOf(s) == IF s = "https://" THEN "443" ELSE "80"
NoPort    == "0"
Tails     == UNION {[1 .. n -> {"/", ":", "?", "x"}] : n \in 0 .. MaxUrl}

\* A URL as it should be: scheme://host[:port][/path[?extra]].  Path and extra
\* may hold colons, and extra more slashes and question marks.
Parts == [scheme : Schemes, host : {<<"host">>}, port : {NoPort, "8080"},
          path : {<<>>} \cup {<<"/">> \o t : t \in {u \in Tails : ~ Contains(u, "?")}},
          extra : {<<>>} \cup {<<"?">> \o t : t \in Tails}]

\* Extra information needs a path before it.
WellFormed == {p \in Parts : p.extra # <<>> => p.path # <<>>}

Written(p) == <<p.scheme>> \o p.host \o (IF p.port = NoPort THEN <<>> ELSE <<":", p.port>>)
                  \o p.path \o p.extra

strchr(s, c) == SelectInSeq(s, LAMBDA t : t = c)
atoi(s) == IF s # <<>> /\ Head(s) = "8080" THEN Head(s) ELSE NoPort

\* Mutant of Authority: a colon counts wherever it stands.
AuthorityAnyColon(rest, port) ==
    LET slash == strchr(rest, "/")
        colon == strchr(rest, ":")
    IN  IF colon # 0
        THEN [host |-> SubSeq(rest, 1, colon - 1),
              port |-> atoi(SubSeq(rest, colon + 1, Len(rest)))]
        ELSE [host |-> IF slash # 0 THEN SubSeq(rest, 1, slash - 1) ELSE rest, port |-> port]

\* Host and port: what is before the first slash, split at a colon.  All three
\* places that take a URL apart do it in the same words.
Authority(rest, port) ==
    LET slash == strchr(rest, "/")
        colon == strchr(rest, ":")
    IN  IF colon # 0 /\ (slash = 0 \/ colon < slash)
        THEN [host |-> SubSeq(rest, 1, colon - 1),
              port |-> atoi(SubSeq(rest, colon + 1, Len(rest)))]
        ELSE [host |-> IF slash # 0 THEN SubSeq(rest, 1, slash - 1) ELSE rest, port |-> port]

\* From the first slash on; path and extra together.
FromSlash(rest) ==
    IF strchr(rest, "/") = 0 THEN <<>> ELSE SubSeq(rest, strchr(rest, "/"), Len(rest))

\* WinHttpCrackUrl: a URL without a scheme counts as http.
WinHttpCrackUrl(url) ==
    LET scheme == IF url # <<>> /\ Head(url) \in Schemes THEN Head(url) ELSE "http://"
        rest   == IF url # <<>> /\ Head(url) \in Schemes THEN Tail(url) ELSE url
        slash  == FromSlash(rest)
        q      == strchr(slash, "?")
        hp     == Authority(rest, PortOf(scheme))
    IN  [scheme |-> scheme, host |-> hp.host, port |-> hp.port,
         path  |-> IF slash = <<>> THEN <<"/">>
                   ELSE IF q = 0 THEN slash ELSE SubSeq(slash, 1, q - 1),
         extra |-> IF q = 0 THEN <<>> ELSE SubSeq(slash, q, Len(slash))]

\* The Location of a redirect: a URL with a scheme, or a path on the server, and
\* with the encryption, of the connection at hand.  Anything else has no host,
\* which ends the call.
RedirectUrl(url, conn) ==
    IF url # <<>> /\ Head(url) \in Schemes
    THEN LET rest == Tail(url)
             hp   == Authority(rest, PortOf(Head(url)))
         IN  [scheme |-> Head(url), host |-> hp.host, port |-> hp.port,
              path   |-> IF FromSlash(rest) = <<>> THEN <<"/">> ELSE FromSlash(rest)]
    ELSE IF url # <<>> /\ Head(url) = "/"
    THEN [scheme |-> conn.scheme, host |-> conn.host,
          port |-> IF conn.port = NoPort THEN PortOf(conn.scheme) ELSE conn.port, path |-> url]
    ELSE [scheme |-> "http://", host |-> <<>>, port |-> NoPort, path |-> <<"/">>]

-----------------------------------------------------------------------------
(* Headers.                                                                *)

Absent == -1
WhatOf == {"STATUS_CODE", "CONTENT_LENGTH", "RAW_HEADERS_CRLF", "STATUS_TEXT", "CUSTOM", "other"}

\* The lengths of the texts of a response; the number of a content length is there
\* or not.
Responses == [status : {3}, length : {Absent, 1}, raw : 0 .. MaxText, text : 0 .. MaxText,
              custom : Absent .. MaxText]

ok(need, wrote)  == [ret |-> TRUE,  error |-> "none", need |-> need, wrote |-> wrote]
insufficient(need) == [ret |-> FALSE, error |-> "INSUFFICIENT_BUFFER", need |-> need, wrote |-> 0]
not_found == [ret |-> FALSE, error |-> "HEADER_NOT_FOUND", need |-> 0, wrote |-> 0]

\* The bytes write_wstr_to writes of a text of len characters, with its zero, for
\* a caller who offers room for max_chars.
write_wstr_to(len, max_chars) ==
    LET fits == IF len >= max_chars THEN max_chars - 1 ELSE len
    IN  2 * ((IF fits < WIDE_MAX THEN fits ELSE WIDE_MAX) + 1)

QueryText(len, avail) ==
    LET need == 2 * (len + 1)
    IN  IF avail < need THEN insufficient(need) ELSE ok(need, write_wstr_to(len, avail \div 2))

QueryNumber(avail) == IF avail < 4 THEN insufficient(4) ELSE ok(4, 4)

WinHttpQueryHeaders(response, what, as_number, avail) ==
    CASE what = "STATUS_CODE" ->
           IF as_number THEN QueryNumber(avail) ELSE QueryText(response.status, avail)
      [] what = "CONTENT_LENGTH" ->
           IF response.length = Absent THEN not_found
           ELSE IF as_number THEN QueryNumber(avail) ELSE QueryText(response.length, avail)
      [] what = "RAW_HEADERS_CRLF" -> QueryText(response.raw, avail)
      [] what = "STATUS_TEXT" -> QueryText(response.text, avail)
      [] what = "CUSTOM" ->
           IF response.custom = Absent THEN not_found ELSE QueryText(response.custom, avail)
      [] OTHER -> not_found

-----------------------------------------------------------------------------
Nothing == [kind |-> "nothing"]

\* A URL, given to both readers.
CrackUrl ==
    /\ query.kind = "nothing"
    /\ \E p \in WellFormed :
         /\ query'  = [kind |-> "url", parts |-> p]
         /\ reply' = [cracked    |-> WinHttpCrackUrl(Written(p)),
                       redirected |-> RedirectUrl(Written(p), Nothing)]

\* A redirect that names a path only.
RelativeUrl ==
    /\ query.kind = "url" /\ query.parts.path # <<>>
    /\ LET here == query.parts.path \o query.parts.extra
       IN  query' = [kind |-> "path", path |-> here, conn |-> query.parts]
           /\ reply' = [redirected |-> RedirectUrl(here, query.parts)]

\* The guest asks with a buffer of some size ...
QueryHeaders ==
    /\ query.kind = "nothing"
    /\ \E response \in Responses, what \in WhatOf, as_number \in BOOLEAN,
          avail \in 0 .. 2 * MaxText + 3 :
         /\ query' = [kind |-> "headers", response |-> response, what |-> what,
                      as_number |-> as_number, avail |-> avail]
         /\ reply' = WinHttpQueryHeaders(response, what, as_number, avail)

\* ... and again, with one of the size it was told it needs.
QueryAgain ==
    /\ query.kind = "headers" /\ reply.error = "INSUFFICIENT_BUFFER"
    /\ query' = [query EXCEPT !.kind = "again", !.avail = reply.need]
    /\ reply' = WinHttpQueryHeaders(query.response, query.what, query.as_number, reply.need)

TextInit == query = Nothing /\ reply = Nothing
TextNext == CrackUrl \/ RelativeUrl \/ QueryHeaders \/ QueryAgain
TextSpec == TextInit /\ [][TextNext]_textVars

-----------------------------------------------------------------------------
(* Properties.                                                             *)

TextTypeOK ==
    /\ query.kind \in {"nothing", "url", "path", "headers", "again"}
    /\ query.kind = "url" => query.parts \in WellFormed
    /\ query.kind \in {"headers", "again"} =>
         /\ query.response \in Responses
         /\ reply.need \in Nat /\ reply.wrote \in Nat

\* Taking a URL apart gives the parts it was written from, with the port of the
\* scheme and "/" for what was left out, wherever colons, slashes and question
\* marks stand behind the host; and a redirect to it goes to the same server and
\* asks for the same path as the guest would after cracking it
\* (WinHttpCrackUrl, WinHttpReceiveResponse).
UrlsAgree ==
    /\ query.kind = "url" =>
         LET p == query.parts
             c == reply.cracked
             r == reply.redirected
         IN  /\ c = [p EXCEPT !.port = IF p.port = NoPort THEN PortOf(p.scheme) ELSE p.port,
                              !.path = IF p.path = <<>> THEN <<"/">> ELSE p.path]
             /\ <<r.scheme, r.host, r.port>> = <<c.scheme, c.host, c.port>>
             /\ r.path = c.path \o c.extra
    /\ query.kind = "path" =>
         reply.redirected = [scheme |-> query.conn.scheme, host |-> query.conn.host,
                              port |-> IF query.conn.port = NoPort THEN PortOf(query.conn.scheme)
                                       ELSE query.conn.port,
                              path |-> query.path]

\* A guest that asks, allocates what it is told and asks again gets its reply:
\* complete if write_wstr_to can write that much, and never more bytes than it
\* offered (WinHttpQueryHeaders).
AskTwice ==
    query.kind \in {"headers", "again"} =>
      LET length == CASE query.what = "STATUS_CODE" -> query.response.status
                      [] query.what = "CONTENT_LENGTH" -> query.response.length
                      [] query.what = "RAW_HEADERS_CRLF" -> query.response.raw
                      [] query.what = "STATUS_TEXT" -> query.response.text
                      [] OTHER -> query.response.custom
          number == query.as_number /\ query.what \in {"STATUS_CODE", "CONTENT_LENGTH"}
      IN  /\ query.kind = "again" => reply.ret
          /\ reply.ret =>
               /\ reply.wrote <= query.avail
               /\ ~ number /\ length <= WIDE_MAX => reply.wrote = 2 * (length + 1)

\* Text crosses from the guest and back unharmed (WinHttpCrackUrl, the Location
\* header in WinHttpReceiveResponse, WinHttpQueryHeaders).
TextRight == UrlsAgree /\ AskTwice

=============================================================================
