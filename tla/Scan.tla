-------------------------------- MODULE Scan --------------------------------
(***************************************************************************)
(* The scanning helpers of cwebhttp.c.  A text is a sequence of symbols; a *)
(* symbol is a character or a word no rule looks into, except CR and LF,   *)
(* which are symbols of their own.  A pointer into a text is a position,   *)
(* and a string read through it runs to the end of the text unless the     *)
(* code has put a NUL in.                                                  *)
(***************************************************************************)
EXTENDS Naturals, Sequences

SP == " "
CR == "CR"
LF == "LF"
CRLF == <<CR, LF>>
NUL == "NUL"
Stale == "stale"   \* what was in memory before, not known

\* s is a sequence.
IsList(s) == s \in Seq({s[i] : i \in DOMAIN s})

\* One past the last symbol, the code's end pointer.
End(t) == Len(t) + 1

\* s stands in t at position i (memcmp, strncmp within the text).
At(t, i, s) == /\ i + Len(s) <= End(t)
               /\ SubSeq(t, i, i + Len(s) - 1) = s

\* The first position from i on that satisfies P, or stop.
First(i, stop, P(_)) ==
  CHOOSE j \in i..stop : /\ j = stop \/ P(j)
                         /\ \A k \in i..j - 1 : ~P(k)

find_char(t, i, stop, c) == First(i, stop, LAMBDA j : t[j] = c)
skip_ws(t, i, stop) == First(i, stop, LAMBDA j : t[j] # SP)
skip_to_crlf(t, i) == First(i, End(t), LAMBDA j : At(t, j, CRLF))

\* What snprintf(buf + offset, room - offset, ...) leaves of the piece at its
\* place in buf: as much as fits before a NUL.  Past the room the difference
\* is a huge unsigned number, and the piece is written whole.
snprintf(room, offset, piece) ==
  [i \in DOMAIN piece |-> IF offset > room \/ offset + i < room THEN piece[i]
                          ELSE IF offset + i = room THEN NUL
                          ELSE Stale]

\* The text from i up to j, j excluded.
Cut(t, i, j) == SubSeq(t, i, j - 1)

=============================================================================
