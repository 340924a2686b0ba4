----------------------------- MODULE MCDocument ------------------------------
(* Instances of Document for TLC. *)
EXTENDS Document

CONSTANTS f1, f2

MCOrder == <<"", "a", "b", "c", "min_bandwidth", "locality", "collective", "m1", "m2", "n1", "n2">>
MCLimits == [schema |-> 1, scopes |-> 3, requirements |-> 3, attributes |-> 2,
             ranked |-> 2, perScope |-> 2, kinds |-> 2, literal |-> 64, text |-> 4]

\* 3 stands for a number like 1e-70, and a document is as long as its lists.
MCDigits(x) == IF x = 3 THEN 72 ELSE 3
MCBytes(d) == Len(d.body.scopes) + Len(d.body.requirements)

Base == [id |-> Zero, scope |-> "a", kind |-> "min_bandwidth", key |-> "",
         strength |-> Required, numeric |-> FALSE, target |-> 0, minimum |-> 0,
         value |-> "", preferred |-> "", members |-> <<>>, attributes |-> <<>>]

Bandwidth == [Base EXCEPT !.numeric = TRUE, !.target = 1, !.minimum = 1]
Group(ms) == [Base EXCEPT !.scope = "b", !.kind = "collective", !.members = ms]
Near(as) == [Base EXCEPT !.scope = "b", !.kind = "locality", !.value = "v", !.attributes = as]
Named(r) == [r EXCEPT !.id = <<"stale">>]

Scope(name, rank, parent) == [name |-> name, rank |-> rank, parent |-> parent]
A == Scope("a", NoRank, "")
B == Scope("b", NoRank, "a")

Body(scopes, requirements) ==
  [schema |-> 1, workload |-> <<"w">>, workloadName |-> "w", workloadGeneration |-> 1,
   contractId |-> Zero, generation |-> 1, policyGeneration |-> 1, major |-> 1,
   scopes |-> scopes, requirements |-> requirements]

Given == [x \in Fields |-> IF x \in {"supersedes", "supersedes_digest"} THEN "absent" ELSE "given"]

Draft(body) ==
  [bare |-> TRUE, printed |-> FALSE, body |-> body, digest |-> Zero, supersedes |-> 0,
   supersedesDigest |-> Zero, shape |-> Given]

\* The same two contracts in several orders, with and without identities.
Bodies ==
  {Body(ss, rs) : ss \in {<<A, B>>, <<B, A>>},
     rs \in {<<Bandwidth, Group(<<"m1", "m2">>)>>, <<Group(<<"m2", "m1">>), Named(Bandwidth)>>,
             <<Near(<<<<"n1", "v">>, <<"n2", "v">>>>), Bandwidth>>,
             <<Near(<<<<"n2", "v">>, <<"n1", "v">>>>), Bandwidth>>}}

\* A second generation that continues a chain.
Successor ==
  [Draft([Body(<<A, B>>, <<Bandwidth>>) EXCEPT !.generation = 2]) EXCEPT
     !.bare = FALSE, !.supersedes = 1, !.supersedesDigest = <<"previous">>,
     !.shape = [x \in Fields |-> "given"]]

\* Drafts that are sealed into a text the parser refuses.
Long ==
  {Draft(Body(<<A, B>>, <<[Bandwidth EXCEPT !.target = 3, !.minimum = 3]>>)),
   Draft(Body(<<A, B, Scope("c", NoRank, "b")>>, <<Bandwidth, Near(<<>>)>>))}

\* Drafts that are refused, for a reason of their own each.
Faulty ==
  {[Draft(Body(<<A, B>>, <<Bandwidth>>)) EXCEPT !.shape["contract_id"] = "absent"],
   [Draft(Body(<<A, B>>, <<Bandwidth>>)) EXCEPT !.shape["version"] = "malformed"],
   [Draft(Body(<<A, B>>, <<Bandwidth>>)) EXCEPT !.shape["policy_generation"] = "absent"],
   Draft(Body(<<A, B>>, <<Bandwidth, Bandwidth>>)),
   Draft(Body(<<A, B>>, <<Group(<<"m1", "m1">>)>>)),
   Draft(Body(<<A, B>>, <<[Bandwidth EXCEPT !.minimum = 2]>>)),
   Draft(Body(<<A>>, <<Group(<<"m1">>)>>)),
   Draft(Body(<<A, B>>, <<Group(<<"m1", "">>)>>)),
   Draft([Body(<<A, B>>, <<Bandwidth>>) EXCEPT !.workloadName = ""]),
   Draft([Body(<<A, B>>, <<Bandwidth>>) EXCEPT !.workloadGeneration = 0]),
   Draft(Body(<<A, B>>, <<>>)),
   [Successor EXCEPT !.supersedes = 2],
   [Successor EXCEPT !.digest = <<"other">>]}

SealDrafts == {Draft(b) : b \in Bodies} \cup {Successor} \cup Long \cup Faulty

\* Every list of up to two scopes that begins with "a", three scopes with any
\* parents, and ranks for some.
Names == {"a", "b", "c"}
Parents == Names \cup {""}
ScopeLists ==
  {<<Scope("a", NoRank, p)>> : p \in Parents}
    \cup {<<Scope("a", NoRank, p), Scope(x, NoRank, q)>> : x \in {"a", "b"}, p, q \in Parents}
    \cup {<<Scope("a", NoRank, p), Scope("b", NoRank, q), Scope("c", NoRank, r)>> :
            p, q, r \in Parents}
    \cup {<<Scope("a", k, ""), Scope("b", l, "a"), Scope("c", m, "b")>> :
            k, l, m \in {NoRank, 1, 2}}
ScopeDrafts == {Draft(Body(ss, <<Bandwidth>>)) : ss \in ScopeLists}

\* Drafts of one requirement are there for their scopes and stay as they are.
MCChanges(d) ==
  IF Len(d.body.requirements) < 2 /\ d.supersedes = 0 THEN {} ELSE
  {[d EXCEPT !.body.generation = 3 - @],
   [d EXCEPT !.body.requirements[1].strength = Informational],
   [d EXCEPT !.body.requirements[1].id = Zero],
   [d EXCEPT !.body.contractId = Zero],
   [d EXCEPT !.digest = Zero],
   [d EXCEPT !.shape["digest"] = "absent"],
   [d EXCEPT !.body.scopes = <<d.body.scopes[Len(d.body.scopes)]>>
                               \o SubSeq(d.body.scopes, 1, Len(d.body.scopes) - 1)]}

\* The second file is there to be compared with the first.
Compared ==
  {Draft(Body(<<B, A>>, <<Bandwidth, Group(<<"m1", "m2">>)>>)),
   Draft(Body(<<A, B>>, <<Near(<<<<"n1", "v">>, <<"n2", "v">>>>), Bandwidth>>))}
MCDrafts(f) == IF f = f1 THEN SealDrafts \cup ScopeDrafts ELSE Compared
=============================================================================
