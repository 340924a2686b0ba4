------------------------------- MODULE MCJson --------------------------------
(* Instances of Json for TLC. *)
EXTENDS Json, TLC

CONSTANTS MaxTokens

MCKeyOrder == <<"a", "b">>

Alphabet ==
  {Token(x) : x \in {"{", "}", "[", "]", ",", ":"}}
    \cup {[t |-> "string", v |-> "a"], [t |-> "string", v |-> "b"],
          [t |-> "literal", v |-> "null"]}

\* Every sequence of up to MaxTokens tokens, and objects with two or three
\* members.
Member(k) == <<[t |-> "string", v |-> k], Token(":"), [t |-> "literal", v |-> "null"]>>
Object(ks) ==
  LET comma == <<Token(",")>> IN
  <<Token("{")>>
    \o (IF Len(ks) = 2 THEN Member(ks[1]) \o comma \o Member(ks[2])
        ELSE Member(ks[1]) \o comma \o Member(ks[2]) \o comma \o Member(ks[3]))
    \o <<Token("}")>>
Nest(n) == [i \in 1..(2 * n) |-> Token(IF i <= n THEN "[" ELSE "]")]
\* An integer, a real, one that is written out and one that has no text.
SomeNumbers ==
  {[t |-> "number", v |-> [negative |-> TRUE, whole |-> <<1, 0>>, fraction |-> <<>>]],
   [t |-> "number", v |-> [negative |-> FALSE, whole |-> <<0>>, fraction |-> <<5, 0>>]]}
    \cup {[t |-> "scientific", v |-> [negative |-> FALSE, digits |-> <<2, 5>>, point |-> p]] :
            p \in {-9, MaxExponent + 2}}
TokenTexts ==
  UNION {[1..n -> Alphabet] : n \in 0..MaxTokens}
    \cup {Object(ks) : ks \in UNION {[1..n -> {"a", "b"}] : n \in 2..3}}
    \cup {Nest(n) : n \in 3..5}
    \cup {<<Token("["), x, Token(","), y, Token("]")>> : x \in SomeNumbers, y \in SomeNumbers}
    \cup {<<Token("[")>> \o Object(ks) \o <<Token("]")>> : ks \in [1..2 -> {"a", "b"}]}

\* Exponents past every change of notation, literals with zeros everywhere.
SomeReals ==
  {[negative |-> n, digits |-> d, point |-> p] :
     n \in BOOLEAN, d \in {<<1>>, <<2, 5>>, <<1, 0, 1>>}, p \in (-75)..45}
    \cup {[negative |-> FALSE, digits |-> <<>>, point |-> 0]}
SomeLiterals ==
  {[negative |-> n, whole |-> w, fraction |-> f] :
     n \in BOOLEAN, w \in {<<0>>, <<1>>, <<1, 0>>, <<0, 1>>},
     f \in {<<>>, <<0>>, <<5>>, <<0, 5>>, <<5, 0>>, <<0, 0, 7, 0>>}}
MCNumbers ==
  {[t |-> "scientific", v |-> x] : x \in SomeReals}
    \cup {[t |-> "number", v |-> l] : l \in SomeLiterals}
=============================================================================
