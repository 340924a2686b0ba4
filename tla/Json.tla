-------------------------------- MODULE Json ---------------------------------
(***************************************************************************)
(* The JSON codec (src/src/json.cpp): the bounded decoder and the          *)
(* canonical writer.  Every document the program hashes, stores or sends   *)
(* goes through it.                                                        *)
(*                                                                         *)
(* A text is a sequence of tokens [t, v]; white space, escapes and UTF-8   *)
(* stay inside the tokens.  A value is [kind, v].  What is given is a text *)
(* or, as in JsonReals, a single number.                                   *)
(***************************************************************************)
EXTENDS JsonReals, FiniteSets

CONSTANTS
  Texts,     \* token sequences a decoder is given
  KeyOrder,  \* the keys in byte order
  MaxDepth   \* options.max_depth

-----------------------------------------------------------------------------
(* Decoder *)

ParseToken(tok) ==
  CASE tok.t \in {"number", "scientific"} -> NumberOf(tok)
    [] tok.t \in {"string", "literal"} -> [kind |-> tok.t, v |-> tok.v]
    [] OTHER -> None

Is(s, i, t) == i <= Len(s) /\ s[i].t = t
Fail == [ok |-> FALSE, value |-> None, next |-> 0]
Ok(value_, next) == [ok |-> TRUE, value |-> value_, next |-> next]

RECURSIVE ParseValue(_, _, _), ParseItems(_, _, _, _), ParseMembers(_, _, _, _)

\* parse_value
ParseValue(s, i, depth) ==
  IF i > Len(s) \/ depth > MaxDepth THEN Fail
  ELSE CASE s[i].t = "{" ->
              IF Is(s, i + 1, "}") THEN Ok([kind |-> "object", v |-> <<>>], i + 2)
              ELSE ParseMembers(s, i + 1, depth, <<>>)
         [] s[i].t = "[" ->
              IF Is(s, i + 1, "]") THEN Ok([kind |-> "array", v |-> <<>>], i + 2)
              ELSE ParseItems(s, i + 1, depth, <<>>)
         [] OTHER -> IF ParseToken(s[i]) = None THEN Fail ELSE Ok(ParseToken(s[i]), i + 1)

\* parse_array, after the items read so far.
ParseItems(s, i, depth, items) ==
  LET item == ParseValue(s, i, depth + 1) IN
  CASE ~item.ok -> Fail
    [] item.ok /\ Is(s, item.next, ",") ->
         ParseItems(s, item.next + 1, depth, Append(items, item.value))
    [] item.ok /\ Is(s, item.next, "]") ->
         Ok([kind |-> "array", v |-> Append(items, item.value)], item.next + 1)
    [] OTHER -> Fail

KeyPosition(k) == CHOOSE i \in DOMAIN KeyOrder : KeyOrder[i] = k
Has(members, k) == \E i \in DOMAIN members : members[i].key = k

\* An entry in its place: members are kept in the order of their keys.
Enter(members, k, v) ==
  LET Below(m) == KeyPosition(m.key) < KeyPosition(k)
      Above(m) == KeyPosition(m.key) > KeyPosition(k) IN
  SelectSeq(members, Below) \o <<[key |-> k, v |-> v]>> \o SelectSeq(members, Above)

\* Defect: a repeated key replaces the member read before.
ParseMembersOver(s, i, depth, members) ==
  IF ~(Is(s, i, "string") /\ Is(s, i + 1, ":")) THEN Fail
  ELSE
  LET item == ParseValue(s, i + 2, depth + 1)
      all == Enter(members, s[i].v, item.value) IN
  CASE ~item.ok -> Fail
    [] item.ok /\ Is(s, item.next, ",") -> ParseMembers(s, item.next + 1, depth, all)
    [] item.ok /\ Is(s, item.next, "}") -> Ok([kind |-> "object", v |-> all], item.next + 1)
    [] OTHER -> Fail

\* parse_object, after the members read so far.
ParseMembers(s, i, depth, members) ==
  IF ~(Is(s, i, "string") /\ Is(s, i + 1, ":")) THEN Fail
  ELSE
  LET item == ParseValue(s, i + 2, depth + 1)
      all == Enter(members, s[i].v, item.value) IN
  CASE ~item.ok \/ Has(members, s[i].v) -> Fail
    [] item.ok /\ ~Has(members, s[i].v) /\ Is(s, item.next, ",") ->
         ParseMembers(s, item.next + 1, depth, all)
    [] item.ok /\ ~Has(members, s[i].v) /\ Is(s, item.next, "}") ->
         Ok([kind |-> "object", v |-> all], item.next + 1)
    [] OTHER -> Fail

\* json_decode: one value and nothing after it.
DecodeText(s) ==
  LET r == ParseValue(s, 1, 0) IN
  IF r.ok /\ r.next = Len(s) + 1 THEN r.value ELSE None

-----------------------------------------------------------------------------
(* Writer *)

Token(t) == [t |-> t, v |-> t]

RECURSIVE DumpValue(_), DumpItems(_), DumpMembers(_)

\* dump_impl; a real that has no text leaves nothing.
DumpValue(x) ==
  CASE x.kind = "object" -> <<Token("{")>> \o DumpMembers(x.v) \o <<Token("}")>>
    [] x.kind = "array" -> <<Token("[")>> \o DumpItems(x.v) \o <<Token("]")>>
    [] x.kind \in {"int", "real"} ->
         IF NumberText(x) = None THEN <<>> ELSE <<[t |-> "number", v |-> NumberText(x)]>>
    [] OTHER -> <<[t |-> x.kind, v |-> x.v]>>

DumpItems(items) ==
  IF items = <<>> THEN <<>>
  ELSE DumpValue(items[1])
         \o (IF Len(items) > 1 THEN <<Token(",")>> \o DumpItems(Tail(items)) ELSE <<>>)

DumpMembers(members) ==
  IF members = <<>> THEN <<>>
  ELSE <<[t |-> "string", v |-> members[1].key], Token(":")>> \o DumpValue(members[1].v)
         \o (IF Len(members) > 1 THEN <<Token(",")>> \o DumpMembers(Tail(members)) ELSE <<>>)

-----------------------------------------------------------------------------
(* A text on its way: "text", "parsed", "dumped", "read" *)

TextInit ==
  /\ given \in Texts
  /\ value = None /\ output = None /\ again = None /\ step = "text"

ParseText ==
  /\ step = "text"
  /\ value' = DecodeText(given) /\ step' = "parsed"
  /\ UNCHANGED <<given, output, again>>

DumpText ==
  /\ step = "parsed" /\ value # None
  /\ output' = DumpValue(value) /\ step' = "dumped"
  /\ UNCHANGED <<given, value, again>>

ParseAgain ==
  /\ step = "dumped"
  /\ again' = DecodeText(output) /\ step' = "read"
  /\ UNCHANGED <<given, value, output>>

TextNext == ParseText \/ DumpText \/ ParseAgain

CodecSpec == (TextInit \/ Init) /\ [][TextNext \/ Next]_vars

-----------------------------------------------------------------------------
(* Properties *)

\* How deep values are nested inside a value.
RECURSIVE Depth(_)
Depth(x) ==
  CASE x.kind \in {"array", "object"} /\ x.v # <<>> ->
         1 + (LET inner == {Depth(IF x.kind = "array" THEN x.v[i] ELSE x.v[i].v) : i \in DOMAIN x.v}
              IN CHOOSE d \in inner : \A e \in inner : e <= d)
    [] OTHER -> 0

Count(s, tok) == Cardinality({i \in DOMAIN s : s[i].t = tok.t /\ s[i].v = tok.v})
Printable == {"{", "}", "[", "]", ",", ":", "string", "literal"}

\* What is accepted is kept whole and canonical: the text written has the same
\* tokens as often (numbers apart), so that no member and no element was
\* dropped; no value is nested deeper than the bound, and the members of an
\* object are in strictly ascending order of their keys, none named twice.
NothingLost ==
  step \in {"dumped", "read"} =>
    /\ \A i \in DOMAIN given : given[i].t \in Printable =>
         Count(given, given[i]) = Count(output, given[i])
    /\ (\A i \in DOMAIN given : given[i].t \in Printable) => Len(given) = Len(output)
    /\ Depth(value) <= MaxDepth
    /\ value.kind = "object" =>
         \A i, j \in DOMAIN value.v :
           i < j => KeyPosition(value.v[i].key) < KeyPosition(value.v[j].key)
=============================================================================
