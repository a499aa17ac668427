-------------------------------- MODULE Texts --------------------------------
(***************************************************************************)
(* What goes through the pure algorithms of the library, built one piece   *)
(* at a time: the headers of a request, the body of a response, a URL, a   *)
(* Range header, the Set-Cookie headers of a session, a frame.  The        *)
(* invariants compare the algorithms with definitions of what they are     *)
(* for.                                                                    *)
(***************************************************************************)
EXTENDS HttpText, FileRange, CookieJar, FrameHeader

CONSTANTS Subjects,   \* what is built, with the part that does not grow
          Pieces,     \* for each kind, what it grows by
          Longest,    \* for each kind, how far it grows
          Routes      \* the routes of the server

\* Only URLs begin with a part that does not grow.
ASSUME StartAssumption ==
  \A s \in Subjects : /\ s.kind = "url" => s.start = <<s.start[1], ":", "/", "/">>
                      /\ s.kind # "url" => s.start = <<>>

\* A payload is in memory, and so shorter than half of what 64 bits count.
InMemory(len) == ((len \div 65536) \div 65536) \div 65536 < 32768
ASSUME FrameAssumption ==
  \A s \in Subjects : s.kind = "frame" =>
    /\ s.room \in Nat
    /\ Pieces["frame"] \subseteq [fin : BOOLEAN, opcode : 0..15, mask : BOOLEAN, len : Nat]
    /\ \A f \in Pieces["frame"] : InMemory(f.len)

\* A header that can be told from the text around it.
Writable(h) == /\ h = [key |-> h.key, val |-> h.val]
               /\ IsList(h.key) /\ \A i \in DOMAIN h.key : h.key[i] \notin {":", CR}
               /\ IsList(h.val) /\ \A i \in DOMAIN h.val : h.val[i] # CR
               /\ h.val # <<>> => h.val[1] # SP

\* A request has a method and a path, which ends where its query begins.
ASSUME RequestAssumption ==
  \A s \in Subjects : s.kind = "request" =>
    /\ DOMAIN s.message = {"method", "path", "query", "headers", "body"}
    /\ s.message.method \in Methods
    /\ IsList(s.message.path) /\ s.message.path # <<>>
    /\ \A i \in DOMAIN s.message.path : s.message.path[i] \notin {SP, "?", CR}
    /\ IsList(s.message.query) /\ \A i \in DOMAIN s.message.query : s.message.query[i] # SP
    /\ IsList(s.message.body)
    /\ \A h \in Pieces["request"] : Writable(h)

\* A response has room for its headers, and says that it is chunked when it
\* is, and only then.
IsCoding(h) == At(h.key, 1, <<"Transfer-Encoding">>)
ASSUME ResponseAssumption ==
  \A s \in Subjects : s.kind = "response" =>
    /\ DOMAIN s.message = {"status", "headers", "body"}
    /\ s.message.status \in Statuses
    /\ IsList(s.message.headers) /\ Len(s.message.headers) + 1 < MaxHeaders
    /\ \A i \in DOMAIN s.message.headers : Writable(s.message.headers[i])
    /\ s.chunked <=> \E i \in DOMAIN s.message.headers : IsCoding(s.message.headers[i])
    /\ \A i \in DOMAIN s.message.headers : IsCoding(s.message.headers[i]) =>
         At(s.message.headers[i].val, 1, <<"chunked">>)

\* Domains, paths and lists of attributes are sequences; a name ends before
\* the first semicolon.
ASSUME CookieAssumption ==
  \A s \in Subjects : s.kind = "cookies" =>
    /\ \A d \in s.domains \cup s.paths : IsList(d)
    /\ \A p \in Pieces["cookies"] :
         /\ p.set.name # ";" /\ IsList(p.set.value)
         /\ IsList(p.from) /\ IsList(p.set.attributes)
         /\ \A i \in DOMAIN p.set.attributes : IsList(p.set.attributes[i].value)

VARIABLES subject, text
vars == <<subject, text>>

Init == subject \in Subjects /\ text = subject.start

Grow == /\ Len(text) < Len(subject.start) + Longest[subject.kind]
        /\ \E s \in Pieces[subject.kind] : text' = Append(text, s)
        /\ UNCHANGED subject

Next == Grow
Spec == Init /\ [][Next]_vars

Is(kind) == subject.kind = kind

-----------------------------------------------------------------------------
(***************************************************************************)
(* Requests and responses                                                  *)
(***************************************************************************)
Request == [subject.message EXCEPT !.headers = text]
Wire == cwh_format_req(Request)
Response == [subject.message EXCEPT !.body = IF subject.chunked THEN cwh_encode_chunked(text)
                                             ELSE text]

\* The headers of a parsed text, read as far as a reader should.
Header(t, h) == [key |-> Cut(t, h.key, find_char(t, h.key, End(t), ":")),
                 val |-> Cut(t, h.val, skip_to_crlf(t, h.val))]
Headers(t, p) == [i \in DOMAIN p.headers |-> Header(t, p.headers[i])]

\* The header the formatter adds to those of r.
Added(r) == IF r.body = <<>> THEN <<>>
            ELSE <<[key |-> <<"Content-Length">>, val |-> <<"n">>]>>

\* What is sent is what is read, as long as the header table is not full.
ReadAsSent(r, p) ==
  Len(r.headers \o Added(r)) < MaxHeaders =>
    /\ p.ok /\ p.path = r.path /\ p.body = r.body
    /\ Headers(Wire, p) = r.headers \o Added(r)
    /\ r.query # <<>> => p.query # 0 /\ At(Wire, p.query, r.query)

\* The reader that has only t, the beginning of the text, rejects it or takes
\* it for the same request to the same handler, with nothing made up.
NothingInvented(t, whole) ==
  LET cut == cwh_parse_req(t)
  IN  cut.ok => /\ whole.ok
                /\ IsPrefix(Headers(t, cut), Headers(Wire, whole))
                /\ find_route(Routes, cut.method, cut.path)
                     = find_route(Routes, whole.method, whole.path)

\* The head and the NUL behind it are within what the formatters allow.
HeadFits(head) == Len(head) < HeadRoom

(***************************************************************************)
(* cwh_parse_req reads back what cwh_format_req has written, if its head   *)
(* fits.  The servers parse what one recv has brought: from the beginning  *)
(* of a request they never read another path, another handler, or a header *)
(* or value that the whole request does not have.  All this for a reader   *)
(* that ends a header's name at the colon, its value at CRLF and the query *)
(* at the length it was sent with: the strings the parser gives run on.    *)
(***************************************************************************)
RequestReread ==
  Is("request") /\ HeadFits(RequestHead(Request)) =>
    LET whole == cwh_parse_req(Wire)
    IN  /\ ReadAsSent(Request, whole)
        /\ \A n \in 1..Len(Wire) : NothingInvented(SubSeq(Wire, 1, n), whole)

(***************************************************************************)
(* cwh_parse_res reads the status and the body of a response, decoded when *)
(* it is chunked, whatever the body holds, if the head fits and what is    *)
(* decoded fits decoded_buf; from the beginning of a response it reads the *)
(* beginning of the body, decoded or as it was sent.                       *)
(***************************************************************************)
ResponseReread ==
  Is("response") /\ HeadFits(ResponseHead(Response))
    /\ (subject.chunked => Len(text) <= DecodedRoom) =>
    LET wire == cwh_format_res(Response)
        whole == cwh_parse_res(wire)
    IN  /\ whole.ok /\ whole.status = Response.status /\ whole.body = text
        /\ \A n \in Len(wire) - Len(Response.body)..Len(wire) :
             LET cut == cwh_parse_res(SubSeq(wire, 1, n))
             IN  /\ cut.ok
                 /\ IsPrefix(cut.body, text) \/ IsPrefix(cut.body, Response.body)

-----------------------------------------------------------------------------
(***************************************************************************)
(* URLs, taken apart from the right by the generic syntax of URIs: the     *)
(* fragment, then the query, then the path.                                *)
(***************************************************************************)
AllDigits(s) == \A i \in DOMAIN s : DecimalDigit(s[i])
Authority == 5   \* where it begins: after the scheme, ':' and two '/'
Fragment == find_char(text, Authority, End(text), "#")
Query == find_char(text, Authority, Fragment, "?")
Path == find_char(text, Authority, Query, "/")
PortAt == find_char(text, Authority, Path, ":")
Ports == LET s == Cut(text, PortAt + 1, Path)
         IN  {n \in 1..MaxPort : Len(s) \in 1..PortDigits /\ AllDigits(s) /\ Number(s) = n}
After(i, stop) == IF i < stop THEN i + 1 ELSE 0

(***************************************************************************)
(* cwh_parse_url accepts a URL when its scheme is known and its port, if   *)
(* there is one, is a number in range, and divides it as the generic       *)
(* syntax does; except that where a '?' follows a '#' after the path, the  *)
(* code takes the '#' for part of the path.                                *)
(***************************************************************************)
UrlDivided ==
  Is("url") =>
    LET u == cwh_parse_url(text)
        port == IF PortAt < Path THEN Ports ELSE {DefaultPort[text[1]]}
        swapped == Path < Query /\ Fragment < find_char(text, Authority, End(text), "?")
                     /\ find_char(text, Authority, End(text), "?") < End(text)
    IN  /\ u.ok <=> text[1] \in DOMAIN DefaultPort /\ port # {}
        /\ u.ok /\ ~swapped => /\ {u.port} = port
                               /\ u.path = (IF Path < Query THEN Path ELSE 0)
                               /\ u.query = After(Query, Fragment)
                               /\ u.fragment = After(Fragment, End(text))

-----------------------------------------------------------------------------
(***************************************************************************)
(* Ranges                                                                  *)
(***************************************************************************)
Line == Cut(text, 1, First(1, End(text), LAMBDA j : text[j] = CR))
Dash == find_char(Line, 1, End(Line), "-")
Left == Cut(Line, 1, Dash)
Right == Cut(Line, Dash + 1, End(Line))
WellFormed == Dash < End(Line) /\ AllDigits(Left) /\ AllDigits(Right) /\ Len(Line) > 1

\* The bytes of the file a well-formed range asks for.
Wanted == {b \in 0..subject.size - 1 :
             IF Left = <<>> THEN b >= subject.size - Number(Right)
             ELSE b >= Number(Left) /\ (Right = <<>> \/ b <= Number(Right))}
Served(a) == a.first..a.first + a.length - 1

(***************************************************************************)
(* A file that is there and not too large is answered by bytes it has:     *)
(* all of them, or a part that is not empty, and for a well-formed range   *)
(* exactly the bytes asked for, or the whole file when there are none; and *)
(* whatever the lines behind the header hold, the answer fits the file.    *)
(***************************************************************************)
RangeServed ==
  Is("range") /\ subject.size \in 0..MaxFile =>
    \E a \in {cwh_send_file_range(text, subject.size)} :
      /\ a.status \in {200, 206} /\ Served(a) \subseteq 0..subject.size - 1
      /\ a.status = 206 => Served(a) # {}
      /\ a.status = 200 => a.first = 0 /\ a.length = subject.size
      /\ WellFormed => LET wanted == Wanted
                       IN  IF wanted = {} THEN a.status = 200
                           ELSE a.status = 206 /\ Served(a) = wanted

-----------------------------------------------------------------------------
(***************************************************************************)
(* Cookies                                                                 *)
(***************************************************************************)
Jar == FoldLeft(LAMBDA jar, s : cwh_cookie_jar_add(jar, s.from, s.set), <<>>, text)
Nth(i) == Cookie(text[i].from, text[i].set)

\* The i-th cookie has a name and has not been set again.
Current(i) == /\ Nth(i).name # NoName
              /\ \A j \in i + 1..Len(text) :
                   <<Nth(j).name, Nth(j).domain, Nth(j).path>>
                     # <<Nth(i).name, Nth(i).domain, Nth(i).path>>

\* ".example.com" matches "www.example.com" and "example.com".
Belongs(i, domain, path) ==
  LET d == Nth(i).domain
  IN  /\ \/ d = domain
         \/ At(d, 1, <<".">>) /\ \E k \in 1..Len(domain) : Cut(domain, k, End(domain)) = d
         \/ d = <<".">> \o domain
      /\ At(path, 1, Nth(i).path)

\* Who is due, and who the code misses of these: the last case of Belongs.
Due(domain, path) == {i \in DOMAIN text : Current(i) /\ Belongs(i, domain, path)}
Missed(domain) == {i \in DOMAIN text : Nth(i).domain = <<".">> \o domain}

\* Cookies as they are sent, newest first, and what is sent, without the
\* separators.
Newest(S) ==
  FoldLeft(LAMBDA out, i : IF i \in S THEN <<Pair(Nth(i))>> \o out ELSE out,
           <<>>, [i \in DOMAIN text |-> i])
Cookies(out) == FoldLeft(LAMBDA cs, c : IF c = Separator THEN cs ELSE Append(cs, c), <<>>, out)

(***************************************************************************)
(* What cwh_cookie_jar_get sends to a domain and a path is, as long as it  *)
(* fits cookie_str, for each cookie that belongs there the value set last, *)
(* and newest first; a value that has been replaced is never sent again.   *)
(* Except that a cookie for ".x" is not sent to "x" itself.                *)
(***************************************************************************)
CookiesCurrent ==
  Is("cookies") =>
    \A domain \in subject.domains, path \in subject.paths :
      LET str == cwh_cookie_jar_get(Jar, domain, path)
      IN  str.offset < CookieRoom =>
            Cookies(str.pieces) = Newest(Due(domain, path) \ Missed(domain))

-----------------------------------------------------------------------------
(***************************************************************************)
(* A frame header that fits is read back as it was written, in as many     *)
(* bytes, and one that has not arrived whole is not read at all: no length *)
(* is taken for another at the borders between the three encodings.        *)
(***************************************************************************)
HeaderReread ==
  Is("frame") /\ text # <<>> =>
    LET f == text[1]
        data == cwh_ws_encode_frame(subject.room, f)
    IN  /\ data = TooSmall <=>
             subject.room < f.len + (IF f.mask THEN 6 ELSE 2)
                              + (IF f.len < 126 THEN 0 ELSE IF f.len < 65536 THEN 2 ELSE 8)
        /\ data # TooSmall =>
             /\ \A n \in 0..Len(data) - 1 :
                  cwh_ws_parse_frame_header(SubSeq(data, 1, n)) = Incomplete
             /\ cwh_ws_parse_frame_header(data)
                  = [length |-> Len(data), fin |-> f.fin, opcode |-> f.opcode,
                     mask |-> f.mask, len |-> f.len]

=============================================================================
