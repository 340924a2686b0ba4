------------------------------ MODULE Document -------------------------------
(***************************************************************************)
(* A contract document from the author's draft to its acceptance: the      *)
(* decoder, the validator, canonicalisation and the derived identities of  *)
(* src/src/contract.cpp, and the wncctl commands built on them.            *)
(*                                                                         *)
(* A hash is modelled by its argument, tagged with its domain, so that two *)
(* hashes are equal exactly when what was hashed is.  <<>> is the zero     *)
(* identity and the zero digest.  Requirements are as in Requirements,     *)
(* with `members' and `attributes' (pairs of a name and a value) as        *)
(* sequences and with an `id'; "" among the members stands for the zero    *)
(* identity.  A scope is [name, rank, parent]; its rank is NoRank or a     *)
(* natural number.  Of several reasons to refuse a document the code       *)
(* reports one or all; here it is refused.                                 *)
(*                                                                         *)
(* An author writes in any notation the parser takes; what seal prints is  *)
(* in the one notation of the canonical writer, in which a number or a     *)
(* document can be longer than the parser takes.                           *)
(***************************************************************************)
EXTENDS Requirements, FiniteSets

CONSTANTS
  Files,       \* files the author works with
  Drafts(_),   \* documents authors write into a file
  Changes(_),  \* documents that differ from a given one in one part
  MaxChanges,  \* bound: changes to one sealed document
  Order,       \* every name, in the byte order of the strings
  Limits,      \* ContractLimits, and the parser's: literal and text
  Digits(_),   \* how long the canonical text of a number is
  Bytes(_),    \* how long the canonical text of a document is
  None

VARIABLES
  file,     \* what is in each file: a document or None
  meant,    \* the content that was sealed into it, or None
  altered,  \* changes made to it since
  verdict   \* what the last command on it said: "none", "accepted", "refused"

vars == <<file, meant, altered, verdict>>

Zero == <<>>
NoRank == -1

\* Members of the document that the decoder looks for, and the ones it demands.
Fields == {"schema_version", "workload", "contract_id", "contract_generation",
           "policy_generation", "version", "scopes", "requirements",
           "envelope", "supersedes", "supersedes_digest", "digest"}
Demanded == {"schema_version", "workload", "contract_id", "contract_generation",
             "scopes", "requirements"}

-----------------------------------------------------------------------------
(* Derived identities *)

\* derive_requirement_id
RequirementIdOf(r) == <<"requirement", [r EXCEPT !.id = Zero]>>

\* Defect: the identity of the body is part of what is hashed.
BodyDigestUnmasked(b) == <<"body", b>>

\* body_digest: the contract identity is masked out, all the rest is covered,
\* the generation and the order of scopes and requirements included.
BodyDigest(b) == <<"body", [b EXCEPT !.contractId = Zero]>>

\* derive_contract_id
ContractIdOf(b, digest) == <<"contract", b.workload, digest>>

-----------------------------------------------------------------------------
(* Canonical order *)

Position == [name \in {Order[i] : i \in DOMAIN Order} |->
               CHOOSE i \in DOMAIN Order : Order[i] = name]

IsScope(s) ==
  {"name", "rank", "parent"} \subseteq DOMAIN s /\ s.name \in DOMAIN Position /\ s.rank \in Int

IsRequirement(r) ==
  /\ {"id", "members", "attributes"} \cup
       {"scope", "kind", "key", "strength", "numeric", "target", "minimum", "value", "preferred"}
         \subseteq DOMAIN r
  /\ {r.scope, r.kind, r.key} \subseteq DOMAIN Position
  /\ IsList(r.members) /\ \A k \in DOMAIN r.members : r.members[k] \in DOMAIN Position
  /\ IsList(r.attributes)
  /\ \A k \in DOMAIN r.attributes : r.attributes[k][1] \in DOMAIN Position

IsBody(b) ==
  /\ {"schema", "workload", "workloadName", "workloadGeneration", "contractId", "generation",
      "policyGeneration", "major", "scopes", "requirements"} \subseteq DOMAIN b
  /\ IsList(b.scopes) /\ \A i \in DOMAIN b.scopes : IsScope(b.scopes[i])
  /\ IsList(b.requirements) /\ \A i \in DOMAIN b.requirements : IsRequirement(b.requirements[i])

\* A document has a value for every member, of the C++ type; its `shape' says
\* whether the text gives the member in the form the decoder demands, and
\* `printed' whether the text is in the notation of the canonical writer.
IsDocument(d) ==
  /\ {"bare", "printed", "body", "digest", "supersedes", "supersedesDigest", "shape"}
       \subseteq DOMAIN d
  /\ d.bare \in BOOLEAN /\ d.printed \in BOOLEAN /\ IsBody(d.body)

ASSUME DocumentAssumption ==
  /\ MaxChanges \in Nat /\ IsList(Order)
  /\ \A f \in Files : \A d \in Drafts(f) : d # None /\ IsDocument(d)

\* requirement_precedes.  Requirements with one key are left to validation.
Precedes(r, s) ==
  LET p == <<Position[r.scope], Position[r.kind], Position[r.key]>>
      q == <<Position[s.scope], Position[s.kind], Position[s.key]>> IN
  \E i \in 1..3 : p[i] < q[i] /\ \A j \in 1..(i - 1) : p[j] = q[j]

ScopePrecedes(s, t) ==
  \/ Position[s.name] < Position[t.name]
  \/ s.name = t.name /\ s.rank < t.rank

\* std::sort.  Of two elements that neither precede each other the code may
\* put either first; validation refuses such a document.
Sorted(s, Before(_, _)) ==
  LET Ahead(i) == {j \in DOMAIN s : Before(s[j], s[i]) \/ (~Before(s[i], s[j]) /\ j < i)} IN
  [k \in DOMAIN s |-> s[CHOOSE i \in DOMAIN s : Cardinality(Ahead(i)) = k - 1]]

MemberPrecedes(m, n) == Position[m] < Position[n]
AttributePrecedes(a, b) == Position[a[1]] < Position[b[1]]

\* Members and attributes are sorted before the identity is derived.
CanonicalRequirement(r) ==
  LET sorted == [r EXCEPT !.members = Sorted(r.members, MemberPrecedes),
                          !.attributes = Sorted(r.attributes, AttributePrecedes)] IN
  [sorted EXCEPT !.id = RequirementIdOf(sorted)]

\* Defect: scopes stay in the order they arrived in.
CanonicalBodyUnsorted(b) ==
  [b EXCEPT !.requirements =
     Sorted([i \in DOMAIN b.requirements |-> CanonicalRequirement(b.requirements[i])], Precedes)]

CanonicalBody(b) ==
  [b EXCEPT !.scopes = Sorted(b.scopes, ScopePrecedes),
            !.requirements =
     Sorted([i \in DOMAIN b.requirements |-> CanonicalRequirement(b.requirements[i])], Precedes)]

\* canonicalize
Canonicalize(c) ==
  LET body == CanonicalBody(c.body)
      sealed == [body EXCEPT !.contractId = ContractIdOf(body, BodyDigest(body))] IN
  [c EXCEPT !.body = sealed, !.digest = BodyDigest(sealed)]

-----------------------------------------------------------------------------
(* json_decode *)

\* The canonical writer spells numbers out, and the parser bounds the length of
\* a literal and of the whole text.
Parses(d) ==
  d.printed =>
    /\ Bytes(d) <= Limits.text
    /\ \A i \in DOMAIN d.body.requirements :
         LET r == d.body.requirements[i] IN
         r.numeric => Digits(r.target) <= Limits.literal /\ Digits(r.minimum) <= Limits.literal

-----------------------------------------------------------------------------
(* contract_from_json *)

\* An absent member leaves the default.
DecodedBody(d) ==
  [d.body EXCEPT
     !.policyGeneration = IF d.shape["policy_generation"] = "given" THEN @ ELSE 0,
     !.major = IF d.shape["version"] = "given" THEN @ ELSE 1]

\* A zero digest stands for one that is not derived yet.
DigestAgrees(d) ==
  (d.shape["digest"] = "given" /\ d.digest # Zero) => d.digest = BodyDigest(DecodedBody(d))

Decodes(d) ==
  /\ \A x \in Fields : d.shape[x] = "given" \/ (d.shape[x] = "absent" /\ x \notin Demanded)
  /\ d.body.schema <= Limits.schema
  /\ d.body.workload # Zero
  /\ Len(d.body.scopes) <= Limits.scopes /\ Len(d.body.requirements) <= Limits.requirements
  /\ \A i \in DOMAIN d.body.scopes : d.body.scopes[i].name # ""
  /\ \A i \in DOMAIN d.body.requirements :
       /\ BandOrdered(d.body.requirements[i])
       /\ Len(d.body.requirements[i].attributes) <= Limits.attributes
  /\ DigestAgrees(d)

Decoded(d) ==
  [body |-> DecodedBody(d), digest |-> BodyDigest(DecodedBody(d)),
   supersedes |-> IF d.shape["supersedes"] = "given" THEN d.supersedes ELSE 0,
   supersedesDigest |-> IF d.shape["supersedes_digest"] = "given"
                        THEN d.supersedesDigest ELSE Zero]

-----------------------------------------------------------------------------
(* validate_contract *)

ScopeNames(b) == {b.scopes[i].name : i \in DOMAIN b.scopes}

\* The scope a name refers to: the first one declared.
ScopeNamed(b, name) ==
  b.scopes[CHOOSE i \in DOMAIN b.scopes :
             /\ b.scopes[i].name = name
             /\ \A j \in 1..(i - 1) : b.scopes[j].name # name]

\* Where the walk along the parents is after k steps; "" when it has ended.
Walk(b, name) ==
  LET after[k \in 0..Len(b.scopes)] ==
        IF k = 0 THEN name
        ELSE IF after[k - 1] \in ScopeNames(b) THEN ScopeNamed(b, after[k - 1]).parent
        ELSE ""
  IN after

\* Defect: a walk over every scope is taken for a cycle.
CyclicShort(b) ==
  \E s \in ScopeNames(b) :
    \A k \in 0..(Len(b.scopes) - 1) : Walk(b, s)[k] \in ScopeNames(b)

\* More steps than there are scopes.
Cyclic(b) ==
  \E s \in ScopeNames(b) : \A k \in 0..Len(b.scopes) : Walk(b, s)[k] \in ScopeNames(b)

ValidScopes(b) ==
  /\ \A i, j \in DOMAIN b.scopes : b.scopes[i].name = b.scopes[j].name => i = j
  /\ Cardinality({i \in DOMAIN b.scopes : b.scopes[i].rank # NoRank}) <= Limits.ranked
  /\ \A i \in DOMAIN b.scopes :
       LET s == b.scopes[i] IN
       s.parent # "" =>
         /\ s.parent \in ScopeNames(b) \ {s.name}
         /\ (s.rank # NoRank /\ ScopeNamed(b, s.parent).rank # NoRank) =>
              ScopeNamed(b, s.parent).rank < s.rank
  /\ ~Cyclic(b)

\* The requirement as module Requirements sees it.
Plain(r) ==
  [r EXCEPT !.members = {r.members[i] : i \in DOMAIN r.members},
            !.attributes = {r.attributes[i][2] : i \in DOMAIN r.attributes}]

NoneTwice(s) == \A i, j \in DOMAIN s : s[i] = s[j] => i = j

ValidRequirements(b) ==
  LET In(scope) == {i \in DOMAIN b.requirements : b.requirements[i].scope = scope}
      KindsIn(scope) == {b.requirements[i].kind : i \in In(scope)} IN
  /\ b.requirements # <<>>
  /\ \A i \in DOMAIN b.requirements :
       LET r == b.requirements[i] IN
       /\ r.scope \in ScopeNames(b)
       /\ ValidRequirement(Plain(r))
       /\ NoneTwice([k \in DOMAIN r.attributes |-> r.attributes[k][1]])
       /\ NoneTwice(r.members) /\ "" \notin Plain(r).members
       /\ r.id # Zero
  /\ NoneTwice([i \in DOMAIN b.requirements |-> b.requirements[i].id])
  /\ NoneTwice([i \in DOMAIN b.requirements |-> CompositeKey(b.requirements[i])])
  /\ \A s \in ScopeNames(b) :
       Cardinality(In(s)) <= Limits.perScope /\ Cardinality(KindsIn(s)) <= Limits.kinds

ValidBody(b) ==
  /\ b.schema \in 1..Limits.schema
  /\ b.workload # Zero /\ b.workloadName # "" /\ b.workloadGeneration > 0
  /\ b.contractId # Zero /\ b.generation > 0 /\ b.policyGeneration > 0 /\ b.major > 0
  /\ Len(b.scopes) <= Limits.scopes /\ Len(b.requirements) <= Limits.requirements
  /\ ValidScopes(b) /\ ValidRequirements(b)

\* Defect: the derived identities are not compared.
ValidTrusting(c) ==
  /\ ValidBody(c.body)
  /\ c.digest = BodyDigest(c.body)
  /\ c.supersedes # 0 => c.supersedes < c.body.generation /\ c.supersedesDigest # Zero
  /\ c.supersedes = 0 => c.supersedesDigest = Zero

Valid(c) ==
  /\ ValidBody(c.body)
  /\ \A i \in DOMAIN c.body.requirements :
       c.body.requirements[i].id = RequirementIdOf(c.body.requirements[i])
  /\ c.digest = BodyDigest(c.body)
  /\ c.body.contractId = ContractIdOf(c.body, BodyDigest(c.body))
  /\ c.supersedes # 0 => c.supersedes < c.body.generation /\ c.supersedesDigest # Zero
  /\ c.supersedes = 0 => c.supersedesDigest = Zero

-----------------------------------------------------------------------------
(* Commands *)

\* A document without a "body" member is one, and gets the zero digest.
Enveloped(d) ==
  IF d.bare
  THEN [d EXCEPT !.bare = FALSE, !.digest = Zero,
                 !.shape = [x \in Fields |->
                              CASE x = "digest" -> "given"
                                [] x \in {"envelope", "supersedes", "supersedes_digest"} -> "absent"
                                [] OTHER -> d.shape[x]]]
  ELSE d

\* Defect: the superseded digest is not written.
PrintedWithoutLink(c) ==
  [bare |-> FALSE, printed |-> TRUE, body |-> c.body, digest |-> c.digest,
   supersedes |-> c.supersedes, supersedesDigest |-> Zero,
   shape |-> [x \in Fields |->
                IF x = "supersedes_digest" \/ (x = "supersedes" /\ c.supersedes = 0)
                THEN "absent" ELSE "given"]]

\* contract_to_json, and dump
Printed(c) ==
  [bare |-> FALSE, printed |-> TRUE, body |-> c.body, digest |-> c.digest,
   supersedes |-> c.supersedes,
   supersedesDigest |-> IF c.supersedes = 0 THEN Zero ELSE c.supersedesDigest,
   shape |-> [x \in Fields |->
                IF x \in {"supersedes", "supersedes_digest"} /\ c.supersedes = 0
                THEN "absent" ELSE "given"]]

\* What the requirements and scopes say, whatever their order and identities.
Content(b) ==
  [b EXCEPT !.contractId = Zero,
            !.scopes = {b.scopes[i] : i \in DOMAIN b.scopes},
            !.requirements = {[Plain(b.requirements[i]) EXCEPT
                                 !.id = Zero,
                                 !.attributes = {b.requirements[i].attributes[k] :
                                                   k \in DOMAIN b.requirements[i].attributes}] :
                                i \in DOMAIN b.requirements}]

Sealed(d) == Canonicalize(Decoded(Enveloped(d)))
Seals(d) == Parses(d) /\ Decodes(Enveloped(d)) /\ Valid(Sealed(d))
Accepts(d) == Parses(d) /\ ~d.bare /\ Decodes(d) /\ Valid(Decoded(d))

Init ==
  /\ file = [f \in Files |-> None] /\ meant = [f \in Files |-> None]
  /\ altered = [f \in Files |-> 0] /\ verdict = [f \in Files |-> "none"]

\* The author writes a draft.
Write(f, d) ==
  /\ file[f] = None
  /\ file' = [file EXCEPT ![f] = d]
  /\ meant' = [meant EXCEPT ![f] = None]
  /\ altered' = [altered EXCEPT ![f] = 0]
  /\ verdict' = [verdict EXCEPT ![f] = "none"]

\* wncctl seal, its output kept in the file; validate --body makes the same
\* checks.
Seal(f) ==
  /\ file[f] # None
  /\ \/ /\ Seals(file[f])
        /\ file' = [file EXCEPT ![f] = Printed(Sealed(file[f]))]
        /\ meant' = [meant EXCEPT ![f] = Content(Sealed(file[f]).body)]
        /\ altered' = [altered EXCEPT ![f] = 0]
        /\ verdict' = [verdict EXCEPT ![f] = "none"]
     \/ /\ ~Seals(file[f])
        /\ verdict' = [verdict EXCEPT ![f] = "refused"]
        /\ UNCHANGED <<file, meant, altered>>

\* What a document consists of: the digest it states, the contract identity it
\* states, and all the rest.
Parts(d) ==
  [digest |-> <<d.digest, d.shape["digest"]>>,
   identity |-> d.body.contractId,
   rest |-> <<d.bare, d.printed, [d.body EXCEPT !.contractId = Zero],
              [d.shape EXCEPT !["digest"] = ""], d.supersedes, d.supersedesDigest>>]

PartNames == {"digest", "identity", "rest"}

OnePart(d, e) == \E x \in PartNames : \A y \in PartNames \ {x} : Parts(d)[y] = Parts(e)[y]

\* A part of a sealed document changes on its way; a text that is no longer
\* JSON is refused before the decoder sees it (module Json).
Change(f, d) ==
  /\ meant[f] # None /\ altered[f] < MaxChanges
  /\ IsDocument(d) /\ OnePart(file[f], d)
  /\ \A g \in Files \ {f} : altered[g] = 0
  /\ file' = [file EXCEPT ![f] = d]
  /\ altered' = [altered EXCEPT ![f] = @ + 1]
  /\ verdict' = [verdict EXCEPT ![f] = "none"]
  /\ UNCHANGED meant

\* wncctl validate --contract, and the runtime on a submission.
Check(f) ==
  /\ file[f] # None
  /\ verdict' = [verdict EXCEPT ![f] = IF Accepts(file[f]) THEN "accepted" ELSE "refused"]
  /\ UNCHANGED <<file, meant, altered>>

Next ==
  \E f \in Files :
    \/ \E d \in Drafts(f) : Write(f, d)
    \/ Seal(f)
    \/ file[f] # None /\ \E d \in Changes(file[f]) : Change(f, d)
    \/ Check(f)

Spec == Init /\ [][Next]_vars

-----------------------------------------------------------------------------
(* Properties *)

\* A sealed document is accepted wherever it is read, exactly when its text is
\* one the parser takes, and sealing it again changes nothing.
SealedIsAccepted ==
  \A f \in Files : (meant[f] # None /\ altered[f] = 0) =>
    /\ Accepts(file[f]) <=> Parses(file[f])
    /\ Seals(file[f]) <=> Parses(file[f])
    /\ Printed(Sealed(file[f])) = file[f]

\* The author never writes an identity: a draft without a digest that parses can
\* be sealed whenever what it says is valid, whatever identities it carries and in
\* whatever order it lists things.
SealDerivesIdentities ==
  \A f \in Files : (file[f] # None /\ meant[f] = None) =>
    LET d == Enveloped(file[f])
        b == Decoded(d).body
        named == [b EXCEPT !.contractId = <<"any">>,
                           !.requirements = [i \in DOMAIN b.requirements |->
                              [b.requirements[i] EXCEPT !.id = <<"id", i>>]]] IN
    (Parses(file[f]) /\ Decodes(d) /\ ValidBody(named) /\ Decoded(d).supersedes = 0
      /\ Decoded(d).supersedesDigest = Zero) => Seals(file[f])

\* Sealed documents have one digest exactly when they say the same, in whatever
\* order; they then have one identity, and documents of one identity differ in
\* their generation at most.
SealIgnoresOrder ==
  \A f, g \in Files :
    (meant[f] # None /\ meant[g] # None /\ altered[f] = 0 /\ altered[g] = 0) =>
      /\ (meant[f] = meant[g]) <=> (file[f].digest = file[g].digest)
      /\ (meant[f] = meant[g]) => (file[f].body.contractId = file[g].body.contractId)
      /\ (file[f].body.contractId = file[g].body.contractId) =>
           [meant[f] EXCEPT !.generation = 0] = [meant[g] EXCEPT !.generation = 0]

\* A document is not accepted for another one because of one or two changes:
\* what it says, the identity it states and its digest must all be changed.
AlterationFound ==
  \A f \in Files :
    (verdict[f] = "accepted" /\ meant[f] # None /\ altered[f] <= 2) =>
      Content(DecodedBody(file[f])) = meant[f]

\* The bounded walk reports a cycle exactly when some scopes have all their
\* parents among themselves.
CycleFound ==
  \A f \in Files : file[f] # None =>
    LET b == file[f].body IN
    Cyclic(b) <=> \E S \in (SUBSET ScopeNames(b)) \ {{}} :
                    \A s \in S : ScopeNamed(b, s).parent \in S
=============================================================================
