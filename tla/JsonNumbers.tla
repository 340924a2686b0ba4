----------------------------- MODULE JsonNumbers -----------------------------
(***************************************************************************)
(* Numbers in JSON texts (src/src/json.cpp): how parse_number reads a      *)
(* literal and how format_canonical_real writes a real.                    *)
(*                                                                         *)
(* A real is [negative, digits, point]: 0.d1d2... times ten to the power   *)
(* `point', without leading or trailing zeros, which is what a shortest    *)
(* decimal form of a double says.  A literal is [negative, whole,          *)
(* fraction], sequences of digits.  A number token holds a literal, or, in *)
(* scientific notation, the real it stands for; it is short enough.        *)
(***************************************************************************)
EXTENDS Integers, Sequences

CONSTANTS
  MaxLiteral,  \* characters of a number literal the decoder takes
  MaxExponent, \* the largest exponent the writer expands
  MaxShrink,   \* and the largest negative one
  None         \* no value, no text

Zeros(n) == [i \in 1..n |-> 0]

IsZero(x) == x.digits = <<>>

-----------------------------------------------------------------------------
(* Writer *)

\* std::to_chars: fixed notation unless the scientific one is shorter.
FixedLength(x) ==
  LET n == Len(x.digits) IN
  CASE x.point <= 0 -> 2 - x.point + n
    [] x.point >= n -> x.point
    [] x.point \in 1..(n - 1) -> n + 1
ExponentDigits(e) == IF e \in (-99)..99 THEN 2 ELSE 3
ScientificLength(x) ==
  Len(x.digits) + (IF Len(x.digits) > 1 THEN 1 ELSE 0) + 2 + ExponentDigits(x.point - 1)
IsScientific(x) == ScientificLength(x) < FixedLength(x)

\* The digits laid out around the point, one digit of a fraction at least.
LayOut(x) ==
  LET n == Len(x.digits) IN
  CASE x.point <= 0 -> [whole |-> <<0>>, fraction |-> Zeros(-x.point) \o x.digits]
    [] x.point >= n -> [whole |-> x.digits \o Zeros(x.point - n), fraction |-> <<0>>]
    [] x.point \in 1..(n - 1) -> [whole |-> SubSeq(x.digits, 1, x.point),
                                  fraction |-> SubSeq(x.digits, x.point + 1, n)]

Literal(negative, parts) ==
  [negative |-> negative, whole |-> parts.whole, fraction |-> parts.fraction]

\* Defect: a whole number is written without a fraction.
FormatReal_Whole(x) ==
  CASE IsZero(x) -> Literal(FALSE, [whole |-> <<0>>, fraction |-> <<0>>])
    [] ~IsZero(x) -> LET p == LayOut(x) IN
                     Literal(FALSE, [p EXCEPT !.fraction = IF @ = <<0>> THEN <<>> ELSE @])

\* format_canonical_real.  The sign is put back in front of an expanded form
\* only; a form outside the range of expansion has no text.
FormatReal(x) ==
  CASE IsZero(x) -> Literal(FALSE, [whole |-> <<0>>, fraction |-> <<0>>])
    [] ~IsZero(x) /\ ~IsScientific(x) -> Literal(FALSE, LayOut(x))
    [] ~IsZero(x) /\ IsScientific(x) ->
         IF x.point - 1 \in (-MaxShrink)..MaxExponent THEN Literal(x.negative, LayOut(x))
         ELSE None

-----------------------------------------------------------------------------
(* Decoder *)

LiteralLength(l) ==
  (IF l.negative THEN 1 ELSE 0) + Len(l.whole)
    + (IF l.fraction = <<>> THEN 0 ELSE 1 + Len(l.fraction))

\* Where the first and the last digit other than zero are.
StartsAt(s, i) == s[i] # 0 /\ \A j \in 1..(i - 1) : s[j] = 0
EndsAt(s, i) == s[i] # 0 /\ \A j \in (i + 1)..Len(s) : s[j] = 0

\* std::from_chars
RealOf(l) ==
  LET s == l.whole \o l.fraction
      first == CHOOSE i \in 1..Len(s) : StartsAt(s, i)
      last == CHOOSE i \in 1..Len(s) : EndsAt(s, i) IN
  IF \A i \in 1..Len(s) : s[i] = 0 THEN [negative |-> FALSE, digits |-> <<>>, point |-> 0]
  ELSE [negative |-> l.negative, digits |-> SubSeq(s, first, last),
        point |-> Len(l.whole) - (first - 1)]

\* parse_number: no leading zero, a bound on the characters; integers stay
\* integers (their range is not modelled), and minus zero is zero.
ParseNumber(l) ==
  CASE Len(l.whole) > 1 /\ l.whole[1] = 0 -> None
    [] ~(Len(l.whole) > 1 /\ l.whole[1] = 0) /\ LiteralLength(l) > MaxLiteral -> None
    [] ~(Len(l.whole) > 1 /\ l.whole[1] = 0) /\ LiteralLength(l) <= MaxLiteral ->
         IF l.fraction = <<>>
         THEN [kind |-> "int", v |-> [l EXCEPT !.negative = @ /\ l.whole # <<0>>]]
         ELSE [kind |-> "real", v |-> RealOf(l)]

\* The number a token stands for, and what a number is written as.
NumberOf(tok) ==
  IF tok.t = "number" THEN ParseNumber(tok.v) ELSE [kind |-> "real", v |-> tok.v]
NumberText(x) == IF x.kind = "int" THEN x.v ELSE FormatReal(x.v)
=============================================================================
