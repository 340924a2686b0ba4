---------------------------- MODULE MCPublication ----------------------------
(* Instances of Publication for TLC. *)
EXTENDS Publication, TLC

Base == [scope |-> "fabric", kind |-> "min_bandwidth", key |-> "",
         strength |-> Required, numeric |-> FALSE, target |-> 0, minimum |-> 0,
         value |-> "", preferred |-> "", members |-> {}, attributes |-> {}]

Number(kind, strength, target, minimum) ==
  [Base EXCEPT !.kind = kind, !.strength = strength,
               !.numeric = TRUE, !.target = target, !.minimum = minimum]

Numbers(kind) ==
  {r \in {Number(kind, s, t, m) : s \in Strengths, t \in 1..3, m \in 1..3} :
     ValidRequirement(r)}

Texts ==
  {r \in {[Base EXCEPT !.kind = "locality", !.strength = s, !.value = v, !.preferred = p] :
            s \in {Preferred, Required}, v \in {"a", "b"}, p \in {"", "b"}} :
     ValidRequirement(r)}

Body(requirements) ==
  [major |-> 1, scopes |-> {"fabric"}, requirements |-> requirements]

\* Three requirements in two orders: a rule on one kind leaves notes on the
\* others, as many as the log holds.
LongBodies ==
  {Body(<<[Base EXCEPT !.kind = "locality", !.value = "a"],
          Number("max_latency", Required, 1, 1),
          Number("min_bandwidth", Required, t, t)>>) : t \in 1..2}
    \cup {Body(<<Number("max_latency", Required, 1, 1),
                Number("min_bandwidth", Required, t, t),
                [Base EXCEPT !.kind = "locality", !.value = "a"]>>) : t \in 1..2}

\* One or two requirements, in any order.
MCBodies ==
  {Body(<<r>>) : r \in Numbers("min_bandwidth") \cup Texts}
    \cup {Body(<<r, s>>) : r \in Numbers("max_latency"),
                           s \in {x \in Texts : x.strength = Required}}
    \cup LongBodies
    \cup {[Body(<<r>>) EXCEPT !.major = 2] : r \in {x \in Texts : x.strength = Required}}

Rule == [kind |-> "min_bandwidth", scope |-> "", key |-> "",
         minTarget |-> 2, maxTarget |-> 3, minMinimum |-> 1, maxMinimum |-> 3,
         minStrength |-> Preferred, maxStrength |-> Required,
         allow |-> TRUE, values |-> {}]

MCPolicies ==
  {[generation |-> 1, rules |-> {Rule}],
   [generation |-> 2, rules |-> {[Rule EXCEPT !.kind = "locality", !.scope = "fabric",
                                              !.values = {"a"}],
                                 [Rule EXCEPT !.kind = "max_latency", !.allow = FALSE]}],
   [generation |-> 2, rules |-> {[Rule EXCEPT !.minTarget = 3, !.maxTarget = 1]}]}

MCCandidates ==
  {[number |-> [k \in FloorKinds \cup CeilingKinds |-> n],
    text |-> [k \in TextKinds |-> t], isolation |-> "missing", collective |-> "missing",
    member |-> [m \in {"m1", "m2"} |-> "missing"], attribute |-> [k \in {"zone"} |-> "missing"]] :
     n \in {NotSupplied} \cup 0..4, t \in {"", "a", "b"}}
=============================================================================
