---------------------------- MODULE MCComposition ----------------------------
(* Instances of Composition for TLC. *)
EXTENDS Composition, TLC

Base == [scope |-> "fabric", kind |-> "min_bandwidth", key |-> "",
         strength |-> Required, numeric |-> FALSE, target |-> 0, minimum |-> 0,
         value |-> "", preferred |-> "", members |-> {}, attributes |-> {}]

Numbers(kind, top) ==
  {r \in {[Base EXCEPT !.kind = kind, !.strength = s, !.numeric = TRUE,
                       !.target = t, !.minimum = m] :
            s \in Strengths, t \in 1..top, m \in 1..top} : BandOrdered(r)}

Texts ==
  {[Base EXCEPT !.kind = "locality", !.strength = s, !.value = v, !.preferred = p] :
     s \in {Preferred, Required}, v \in {"a", "b"}, p \in {"", "b"}}

Scope(name, parent) == [name |-> name, parent |-> parent]
Fabric == {Scope("fabric", "")}

Lists(S, n) == UNION {[1..k -> S] : k \in 0..n}

Latency(n) == {r \in Numbers("max_latency", n) : r.strength = Required}
Pool ==
  {r \in Numbers("min_bandwidth", 2) : r.strength = Informational => r.target = 1}
    \cup {r \in Latency(2) : r.target = r.minimum}
    \cup {r \in Texts : r.strength = Required \/ r.value = "a"}

\* Bases with up to two requirements, a repeated key included.
MCBases ==
  {[scopes |-> Fabric, requirements |-> q] : q \in Lists(Pool, 1)}
    \cup {[scopes |-> Fabric, requirements |-> <<r, s>>] :
            r \in {x \in Pool : x.strength = Required}, s \in Latency(2) \cup Texts}

Layers(S, n) ==
  {[name |-> "overlay", scopes |-> ss, requirements |-> q] :
     ss \in {<<>>, <<Scope("rack", "fabric"), Scope("fabric", "rack"), Scope("rack", "")>>},
     q \in Lists(S, n)}

\* Up to two layers of one requirement each, an unnamed one, and one too many.
MCLayerLists ==
  Lists({l \in Layers(Pool, 1) : l.scopes = <<>> \/ l.requirements = <<>>}, 2)
    \cup {<<l>> : l \in Layers({x \in Pool : x.strength = Required}, 2)}
    \cup {<<[name |-> "", scopes |-> <<>>, requirements |-> <<>>]>>}
    \cup {[n \in 1..3 |-> [name |-> "overlay", scopes |-> <<>>, requirements |-> <<>>]]}
=============================================================================
