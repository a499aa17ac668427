------------------------------ MODULE CookieJar ------------------------------
(***************************************************************************)
(* The cookie jar of cwebhttp.c, a list with the newest cookie first.  A   *)
(* Set-Cookie header is a name and a value (or, without '=', neither) and  *)
(* attributes; domains and paths are sequences of labels and separators.   *)
(***************************************************************************)
EXTENDS Scan, SequencesExt

CONSTANT CookieRoom   \* sizeof(cookie_str); 4096
ASSUME CookieRoomAssumption == CookieRoom \in Nat /\ CookieRoom > 2

NoName == "none"   \* a header without '=' makes a cookie without a name
Separator == <<";", SP>>
Pair(c) == <<c.name, "=">> \o c.value

\* One attribute; Secure, HttpOnly and unknown ones touch nothing that get
\* reads.
Attribute(cookie, a) ==
  IF a.name = "Domain" THEN [cookie EXCEPT !.domain = a.value]
  ELSE IF a.name = "Path" THEN [cookie EXCEPT !.path = a.value]
  ELSE cookie

\* The cookie a header from domain makes; the last of two attributes counts.
Cookie(domain, set) ==
  FoldLeft(Attribute,
           [name |-> set.name, value |-> set.value, domain |-> domain, path |-> <<"/">>],
           set.attributes)

\* What makes a cookie take the place of another.  (The variant forgets where
\* they belong.)
SameName(a, b) == a.name # NoName /\ a.name = b.name
SameCookie(a, b) == /\ a.name # NoName /\ a.name = b.name
                    /\ a.domain = b.domain /\ a.path = b.path

cwh_cookie_jar_add(jar, domain, set) ==
  LET cookie == Cookie(domain, set)
      old == SelectInSeq(jar, LAMBDA c : SameCookie(c, cookie))
  IN  <<cookie>> \o (IF old = 0 THEN jar ELSE RemoveAt(jar, old))

\* A cookie for ".x" goes to every name that ends in ".x".
cwh_domain_match(domain, c) ==
  \/ domain = c
  \/ /\ At(c, 1, <<".">>) /\ Len(domain) >= Len(c)
     /\ IsSuffix(c, domain) \/ domain = Tail(c)

cwh_path_match(path, c) == IsPrefix(c, path)

\* cookie_str, as the pieces written to it and the count of their symbols, of
\* which those from CookieRoom on are cut off or written past its end.
WithPiece(str, piece) == [pieces |-> Append(str.pieces, snprintf(CookieRoom, str.offset, piece)),
                          offset |-> str.offset + Len(piece)]

\* What get appends for one cookie; one without a name leaves a separator.
Sent(str, c) ==
  LET led == IF str.pieces # <<>> /\ str.offset < CookieRoom - 2
             THEN WithPiece(str, Separator) ELSE str
  IN  IF c.name = NoName THEN led ELSE WithPiece(led, Pair(c))

\* The string that is returned is what stands in the pieces, up to a NUL.
cwh_cookie_jar_get(jar, domain, path) ==
  FoldLeft(LAMBDA str, c : IF cwh_domain_match(domain, c.domain) /\ cwh_path_match(path, c.path)
                           THEN Sent(str, c) ELSE str,
           [pieces |-> <<>>, offset |-> 0], jar)

=============================================================================
