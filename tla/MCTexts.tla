------------------------------- MODULE MCTexts -------------------------------
(***************************************************************************)
(* Instances of Texts for TLC: small alphabets with every symbol the rules *)
(* look at, base two for chunk sizes, ports up to 12 in two digits.        *)
(***************************************************************************)
EXTENDS Texts

MCHex == <<"0", "1">>

\* Requests: a path with a handler of its own, one without; a body that looks
\* like a header; headers whose value has a colon.
Message(path, query, body) ==
  [kind |-> "request", start |-> <<>>,
   message |-> [method |-> "POST", path |-> path, query |-> query, headers |-> <<>>,
                body |-> body]]
Requests == {Message(p, q, b) : p \in {<<"/", "a">>, <<"/", "a", "b">>}, q \in {<<>>, <<"q">>},
                                b \in {<<>>, <<"b">>, <<CR, LF, "k", ":", "v", CR, LF>>}}
RequestHeaders == [key : {<<"Host">>, <<"k">>, <<"k", "x">>},
                   val : {<<"v">>, <<"a", ":", "b">>, <<>>}]
MCRoutes == <<[method |-> "GET", pattern |-> <<"/", "a">>],
              [method |-> "POST", pattern |-> <<"/", "a">>],
              [method |-> AnyMethod, pattern |-> AnyPath]>>

Responses ==
  {[kind |-> "response", start |-> <<>>, chunked |-> c,
    message |-> [status |-> "200", body |-> <<>>,
                 headers |-> IF c THEN <<[key |-> <<"Transfer-Encoding">>, val |-> <<"chunked">>]>>
                             ELSE <<[key |-> <<"Host">>, val |-> <<"v">>]>>]] : c \in BOOLEAN}

Urls == {[kind |-> "url", start |-> <<s, ":", "/", "/">>] : s \in {"http", "https", "ftp"}}

Files == {[kind |-> "range", start |-> <<>>, size |-> n] : n \in {NoFile, 0, 1, 4, 12}}

www == <<"w", ".", "x">>
Jars == {[kind |-> "cookies", start |-> <<>>, domains |-> {www, <<"x">>, <<".", "x">>},
          paths |-> {<<"/">>, <<"/", "a">>, <<"/", "a", "b">>}]}
Set(n, v, as) == [from |-> www, set |-> [name |-> n, value |-> <<v>>, attributes |-> as]]
InDomain == [name |-> "Domain", value |-> <<".", "x">>]
OnPath == [name |-> "Path", value |-> <<"/", "a">>]
Secure == [name |-> "Secure", value |-> <<>>]
SetCookies == {Set(n, v, as) : n \in {"n", "m"}, v \in {"1", "2"},
                               as \in {<<>>, <<InDomain>>, <<OnPath, Secure>>,
                                       <<OnPath, InDomain>>}}
                \cup {Set(NoName, NoName, <<>>)}

Frames == {[kind |-> "frame", start |-> <<>>, room |-> n] : n \in {0, 2, 131, 65600, 70000}}

MCSubjects == Requests \cup Responses \cup Urls \cup Files \cup Jars \cup Frames
MCPieces ==
  [request |-> RequestHeaders,
   response |-> {"0", "1", ";", CR, LF},
   url |-> {":", "/", "?", "#", "a", "0", "1", "3"},
   range |-> {"0", "1", "3", "-", "a", CR},
   cookies |-> SetCookies,
   frame |-> [fin : BOOLEAN, opcode : {0, 1, 8, 15}, mask : BOOLEAN,
              len : {0, 1, 125, 126, 127, 128, 255, 256, 65535, 65536, 65537}]]
MCLongest == [request |-> 3, response |-> 5, url |-> 5, range |-> 5, cookies |-> 3, frame |-> 1]

=============================================================================
