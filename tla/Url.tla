--------------------------------- MODULE Url ---------------------------------
(***************************************************************************)
(* cwh_parse_url (cwebhttp.c).  The parts of a parsed URL are positions in *)
(* its text, 0 for a part that is absent.                                  *)
(***************************************************************************)
EXTENDS Scan, SequencesExt

CONSTANTS MaxPort, PortDigits   \* 65535 and 5 in the code

ASSUME UrlAssumption == MaxPort \in Nat /\ PortDigits \in Nat

DefaultPort == [http |-> 80, https |-> 443]
Decimal == <<"0", "1", "2", "3", "4", "5", "6", "7", "8", "9">>
DecimalDigit(c) == \E k \in DOMAIN Decimal : Decimal[k] = c
Number(s) == FoldLeft(LAMBDA n, c : n * 10 + (CHOOSE k \in DOMAIN Decimal : Decimal[k] = c) - 1,
                      0, s)

\* The port, or 0 when the digits are none, too many, or out of range.
parse_port_str(s) ==
  IF /\ Len(s) \in 1..PortDigits
     /\ \A i \in DOMAIN s : DecimalDigit(s[i])
     /\ Number(s) <= MaxPort
  THEN Number(s) ELSE 0

BadUrl == [ok |-> FALSE]

\* A fragment is looked for in the path only when no '?' follows anywhere, so
\* a '#' before a '?' stays in the path.  (The variant never looks for one.)
PathEndAtQuery(t, p) == find_char(t, p, End(t), "?")
PathEnd(t, p) == LET q == find_char(t, p, End(t), "?")
                 IN  IF q < End(t) THEN q ELSE find_char(t, p, End(t), "#")

cwh_parse_url(t) ==
  LET s == find_char(t, 1, End(t), ":")
      host == s + 3
      e == First(host, End(t), LAMBDA j : t[j] \in {"/", "?", "#"})
      sep == find_char(t, host, e, ":")
      port == IF sep < e THEN parse_port_str(Cut(t, sep + 1, e)) ELSE DefaultPort[t[1]]
      p == IF At(t, e, <<"/">>) THEN PathEnd(t, e) ELSE e
      f == IF At(t, p, <<"?">>) THEN find_char(t, p, End(t), "#") ELSE p
  IN  IF \/ ~At(t, s, <<":", "/", "/">>)
         \/ Cut(t, 1, s) \notin {<<"http">>, <<"https">>}
         \/ port = 0
      THEN BadUrl
      ELSE [ok |-> TRUE, host |-> host, port |-> port,
            path |-> IF At(t, e, <<"/">>) THEN e ELSE 0,
            query |-> IF At(t, p, <<"?">>) THEN p + 1 ELSE 0,
            fragment |-> IF At(t, f, <<"#">>) THEN f + 1 ELSE 0]

=============================================================================
