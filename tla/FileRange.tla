------------------------------ MODULE FileRange ------------------------------
(***************************************************************************)
(* Byte ranges of static files (cwebhttp.c).  The text is what follows     *)
(* "bytes=" in the buffer of the request: the value of the header and,     *)
(* since nothing ends it, the lines after it.                              *)
(***************************************************************************)
EXTENDS Url, Integers

CONSTANT MaxFile   \* ten megabytes in the code

ASSUME FileAssumption == MaxFile \in Nat

NoFile == -1       \* the size of a file that cannot be opened
NoRange == <<>>

\* atoll: a sign, then digits as far as they go.
Digits(t, i) == Cut(t, i, First(i, End(t), LAMBDA j : ~DecimalDigit(t[j])))
atoll(t, i) == IF At(t, i, <<"-">>) THEN -Number(Digits(t, i + 1)) ELSE Number(Digits(t, i))

\* Nothing stands behind the dash, or a line's end or a space does.
OpenEnded(t, dash) == dash + 1 = End(t) \/ t[dash + 1] \in {SP, CR, LF}

\* First and last byte before they are checked: the last bytes of the file,
\* or from a byte to the end, or from a byte to another.  (The variant does
\* not stop at the first byte of the file.)
AskedBefore(t, size) ==
  LET dash == find_char(t, 1, End(t), "-")
  IN  <<IF dash = 1 THEN size - atoll(t, 2) ELSE atoll(t, 1),
        IF dash = 1 \/ OpenEnded(t, dash) THEN size - 1 ELSE atoll(t, dash + 1)>>
Asked(t, size) ==
  LET dash == find_char(t, 1, End(t), "-")
  IN  IF At(t, 1, <<"-">>) THEN <<Max({size - atoll(t, 2), 0}), size - 1>>
      ELSE <<atoll(t, 1), IF OpenEnded(t, dash) THEN size - 1 ELSE atoll(t, dash + 1)>>

\* What there is of the bytes asked for.
InFile(a, size) == IF a[1] < 0 \/ a[1] >= size \/ a[2] < a[1] THEN NoRange
                   ELSE <<a[1], Min({a[2], size - 1})>>

parse_range_header(t, size) ==
  IF find_char(t, 1, End(t), "-") = End(t) THEN NoRange ELSE InFile(Asked(t, size), size)

\* The status and the bytes of the answer: position of the first, number.
FileAnswer(status, first, length) == [status |-> status, first |-> first, length |-> length]
Part(r, size) == IF r = NoRange THEN FileAnswer(200, 0, size)
                 ELSE FileAnswer(206, r[1], r[2] - r[1] + 1)

cwh_send_file_range(t, size) ==
  IF size = NoFile THEN FileAnswer(404, 0, 0)
  ELSE IF size > MaxFile THEN FileAnswer(413, 0, 0)
  ELSE Part(parse_range_header(t, size), size)

=============================================================================
