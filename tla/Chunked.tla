------------------------------- MODULE Chunked -------------------------------
(***************************************************************************)
(* Chunked transfer coding (cwebhttp.c).  Sizes are written with the       *)
(* digits of Hex, whose number is the base: sixteen in the code.  A chunk  *)
(* carries at most ChunkSize symbols: 4096 in the code.                    *)
(***************************************************************************)
EXTENDS Scan, SequencesExt

CONSTANTS Hex, ChunkSize

ASSUME ChunkedAssumption ==
  /\ ChunkSize \in Nat \ {0}
  /\ IsList(Hex) /\ Len(Hex) > 1
  /\ \A i, j \in DOMAIN Hex : Hex[i] = Hex[j] => i = j
  /\ \A i \in DOMAIN Hex : Hex[i] # CR

Base == Len(Hex)
Digit(c) == (CHOOSE k \in 1..Base : Hex[k] = c) - 1
IsDigit(c) == \E k \in 1..Base : Hex[k] = c

\* The value of the digits of s, and the digits of n ("%lx").  (The variant
\* reads decimal numbers.)
ValueDecimal(s) == FoldLeft(LAMBDA n, c : n * 10 + Digit(c), 0, s)
Value(s) == FoldLeft(LAMBDA n, c : n * Base + Digit(c), 0, s)
Written[n \in Nat] == IF n < Base THEN <<Hex[n + 1]>>
                      ELSE Append(Written[n \div Base], Hex[(n % Base) + 1])

\* What has been copied to the output, which has no bound here.
BadChunks(data) == [ok |-> FALSE, data |-> data]
Chunks(data) == [ok |-> TRUE, data |-> data]

\* A size line is digits, perhaps an extension, and CRLF; an empty one counts
\* as zero, and zero ends the body whatever follows.  A text that ends where
\* a chunk ends is taken for a whole body.
cwh_decode_chunked(t) ==
  LET from[i \in 1..End(t)] ==
        IF i = End(t) THEN Chunks(<<>>)
        ELSE LET j == First(i, End(t), LAMBDA k : ~IsDigit(t[k]))
                 e == IF At(t, j, <<";">>) THEN find_char(t, j, End(t), CR) ELSE j
                 size == Value(Cut(t, i, j))
                 data == e + 2
                 chunk == Cut(t, data, data + size)
             IN  IF ~At(t, e, CRLF) THEN BadChunks(<<>>)
                 ELSE IF size = 0 THEN Chunks(<<>>)
                 ELSE IF data + size > End(t) THEN BadChunks(<<>>)
                 ELSE IF ~At(t, data + size, CRLF) THEN BadChunks(chunk)
                 ELSE LET rest == from[data + size + 2]
                      IN  [ok |-> rest.ok, data |-> chunk \o rest.data]
  IN  from[1]

cwh_encode_chunked(body) ==
  LET from[i \in 1..End(body)] ==
        IF i = End(body) THEN <<Hex[1]>> \o CRLF \o CRLF
        ELSE LET n == IF End(body) - i < ChunkSize THEN End(body) - i ELSE ChunkSize
             IN  Written[n] \o CRLF \o Cut(body, i, i + n) \o CRLF \o from[i + n]
  IN  from[1]

=============================================================================
