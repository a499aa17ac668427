------------------------------ MODULE HttpText ------------------------------
(***************************************************************************)
(* The HTTP/1.1 parsers and formatters of cwebhttp.c.  The parsers do not  *)
(* copy: a parsed header is a pair of positions in the text, from which    *)
(* the code reads on to the end of the buffer.  Only the method and the    *)
(* path of a request are ended by a NUL.                                   *)
(***************************************************************************)
EXTENDS Chunked

CONSTANTS
  MaxHeaders,   \* 32 in the code
  HeadRoom,     \* what the formatters allow a head, in symbols; 1024 characters
  DecodedRoom   \* sizeof(decoded_buf); 16384

ASSUME HeadersAssumption ==
  MaxHeaders \in Nat /\ HeadRoom \in Nat \ {0} /\ DecodedRoom \in Nat

Methods == {"GET", "POST", "PUT", "DELETE", "HEAD"}
Version == "HTTP/1.1"
ParseError == [ok |-> FALSE]
Statuses == {"200", "404"}   \* three digits

\* One header line: where its value starts and where the line ends, with a
\* colon looked for in the whole rest of the text.
Colon(t, i) == find_char(t, i, End(t), ":")
ValueAt(t, i) == skip_ws(t, Colon(t, i) + 1, End(t))
LineEnd(t, i) == skip_to_crlf(t, ValueAt(t, i))
parse_header(t, i) == Colon(t, i) < End(t) /\ LineEnd(t, i) < End(t)

\* The header loop of both parsers: it stops at the empty line, at a line
\* that is no header, at the end, and when the table is full; what is left,
\* an empty line that was not reached included, is the body.  (n is the room
\* left in the table.)
parse_headers(t, start) ==
  LET from[n \in 0..MaxHeaders] == [i \in start..End(t) |->
        IF i < End(t) /\ n > 0 /\ At(t, i, CRLF)
        THEN [headers |-> <<>>, body |-> i + 2]
        ELSE IF i < End(t) /\ n > 0 /\ parse_header(t, i)
        THEN LET rest == from[n - 1][LineEnd(t, i) + 2]
             IN  [headers |-> <<[key |-> i, val |-> ValueAt(t, i)]>> \o rest.headers,
                  body |-> rest.body]
        ELSE [headers |-> <<>>, body |-> i]]
  IN  from[MaxHeaders][start]

\* The value of the first header whose name begins with key.
cwh_get_header(t, headers, key) ==
  LET hit == SelectInSeq(headers, LAMBDA h : At(t, h.key, key))
  IN  IF hit = 0 THEN 0 ELSE headers[hit].val

parse_method(t) == LET m == find_char(t, 1, End(t), SP)
                   IN  IF m = 2 /\ m < End(t) /\ t[1] \in Methods THEN m ELSE 0

\* The position after the path, or 0 when the text ends with it.
parse_path(t, start) == LET e == find_char(t, start, End(t), SP)
                        IN  IF e < End(t) THEN e ELSE 0

parse_version(t, i) == At(t, skip_ws(t, i, End(t)), <<Version>>)

\* Where the NUL of the path is put.  (The variant leaves the query on it.)
EndsPathLate(c) == c \in {SP, CR}
EndsPath(c) == c \in {SP, "?", CR}

cwh_parse_req(t) ==
  LET m == parse_method(t)
      start == skip_ws(t, m, End(t))
      e == parse_path(t, start)
      line == skip_ws(t, e, End(t)) + 1
      query == find_char(t, start, e, "?")
      nul == First(start, End(t), LAMBDA j : EndsPath(t[j]))
      rest == parse_headers(t, line + 2)
  IN  IF m = 0 \/ e = 0 \/ ~parse_version(t, e) \/ ~At(t, line, CRLF)
      THEN ParseError
      ELSE [ok |-> TRUE, method |-> t[1], path |-> Cut(t, start, nul),
            query |-> IF query < e THEN query + 1 ELSE 0,
            headers |-> rest.headers, body |-> Cut(t, rest.body, End(t))]

parse_status_line(t) ==
  LET s == skip_ws(t, 2, End(t))
  IN  IF /\ At(t, 1, <<Version>>)
         /\ s < End(t) /\ t[s] \in Statuses
         /\ skip_to_crlf(t, s + 1) < End(t)
      THEN skip_to_crlf(t, s + 1) + 2 ELSE 0

\* A chunked body is decoded through decoded_buf; one that does not decode is
\* left as it is.  What is written past decoded_buf, before the decoder fails
\* or not, is undefined behaviour.  (Not here: the gzip or deflate coding that
\* may lie below.)
Overrun == [ok |-> "undefined"]
cwh_parse_res(t) ==
  LET start == parse_status_line(t)
      rest == parse_headers(t, start)
      raw == Cut(t, rest.body, End(t))
      coding == cwh_get_header(t, rest.headers, <<"Transfer-Encoding">>)
      decoded == cwh_decode_chunked(raw)
      chunked == raw # <<>> /\ coding # 0 /\ At(t, coding, <<"chunked">>)
  IN  IF start = 0 THEN ParseError
      ELSE IF chunked /\ Len(decoded.data) > DecodedRoom THEN Overrun
      ELSE [ok |-> TRUE, status |-> t[skip_ws(t, 2, End(t))], headers |-> rest.headers,
            body |-> IF chunked /\ decoded.ok THEN decoded.data ELSE raw]

\* The head is written piece by piece, each behind the count of those before
\* it, cut off or not; the body is copied behind them all.
Put(out, piece) == out \o snprintf(HeadRoom, Len(out), piece)
HeaderLine(h) == h.key \o <<":", SP>> \o h.val \o CRLF
PutHeaders(out, headers) == FoldLeft(LAMBDA o, h : Put(o, HeaderLine(h)), out, headers)
PutLength(out, body) ==
  IF body = <<>> THEN out
  ELSE Put(out, HeaderLine([key |-> <<"Content-Length">>, val |-> <<"n">>]))
HeadEnded(out, r) == Put(PutLength(PutHeaders(out, r.headers), r.body), CRLF)

RequestHead(r) ==
  LET line == Put(<<>>, <<r.method, SP>> \o r.path)
      asked == IF r.query = <<>> THEN line ELSE Put(line, <<"?">> \o r.query)
  IN  HeadEnded(Put(asked, <<SP, Version>> \o CRLF), r)
ResponseHead(r) == HeadEnded(Put(<<>>, <<Version, SP, r.status, SP, "OK">> \o CRLF), r)

cwh_format_req(r) == RequestHead(r) \o r.body
cwh_format_res(r) == ResponseHead(r) \o r.body

\* The first route of the list for any or this method, and any or this path.
AnyMethod == "any"
AnyPath == <<>>
find_route(routes, method, path) ==
  SelectInSeq(routes, LAMBDA r : /\ r.method \in {AnyMethod, method}
                                 /\ r.pattern \in {AnyPath, path})

=============================================================================
