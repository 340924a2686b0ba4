------------------------------ MODULE JsonReals ------------------------------
(***************************************************************************)
(* A number on its way through the program: read by parse_number, written  *)
(* by format_canonical_real into what is hashed, stored or sent, and read  *)
(* again (src/src/json.cpp).                                               *)
(***************************************************************************)
EXTENDS JsonNumbers

CONSTANT Numbers  \* number tokens a decoder is given

Digits == 0..9

IsLiteral(l) ==
  /\ l = [negative |-> l.negative, whole |-> l.whole, fraction |-> l.fraction]
  /\ l.negative \in BOOLEAN
  /\ l.whole \in Seq(Digits) \ {<<>>} /\ l.fraction \in Seq(Digits)

IsReal(x) ==
  /\ x = [negative |-> x.negative, digits |-> x.digits, point |-> x.point]
  /\ x.negative \in BOOLEAN /\ x.digits \in Seq(Digits) /\ x.point \in Int
  /\ x.digits # <<>> => x.digits[1] # 0 /\ x.digits[Len(x.digits)] # 0
  /\ x.digits = <<>> => ~x.negative /\ x.point = 0

ASSUME NumbersAssumption ==
  /\ MaxLiteral \in Nat /\ MaxExponent \in Nat /\ MaxShrink \in Nat
  /\ \A tok \in Numbers :
       \/ tok.t = "number" /\ IsLiteral(tok.v)
       \/ tok.t = "scientific" /\ IsReal(tok.v)

VARIABLES
  given,   \* what is decoded: a number token
  value,   \* what it was decoded to
  output,  \* what that was written as
  again,   \* what the output was decoded to
  step     \* "given", "decoded", "written", "done"

vars == <<given, value, output, again, step>>

Init ==
  /\ given \in Numbers
  /\ value = None /\ output = None /\ again = None /\ step = "given"

Decode ==
  /\ step = "given"
  /\ value' = NumberOf(given) /\ step' = "decoded"
  /\ UNCHANGED <<given, output, again>>

Dump ==
  /\ step = "decoded" /\ value # None
  /\ output' = NumberText(value) /\ step' = "written"
  /\ UNCHANGED <<given, value, again>>

DecodeAgain ==
  /\ step = "written"
  /\ again' = IF output = None THEN None ELSE ParseNumber(output)
  /\ step' = "done"
  /\ UNCHANGED <<given, value, output>>

Next == Decode \/ Dump \/ DecodeAgain

Spec == Init /\ [][Next]_vars

-----------------------------------------------------------------------------
(* Properties *)

\* A real keeps its value and its type through decoding and writing, while it
\* is not negative and its expanded form fits the decoder's bound.
RealsRoundTrip ==
  (step = "done" /\ value.kind = "real" /\ ~value.v.negative
    /\ FormatReal(value.v) # None /\ LiteralLength(FormatReal(value.v)) <= MaxLiteral) =>
      again = value
=============================================================================
