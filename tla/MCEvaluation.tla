---------------------------- MODULE MCEvaluation -----------------------------
(* Instances of Evaluation for TLC. *)
EXTENDS Evaluation, TLC

Nothing ==
  [number |-> [k \in FloorKinds \cup CeilingKinds |-> NotSupplied],
   text |-> [k \in TextKinds |-> ""], isolation |-> "missing",
   collective |-> "missing", member |-> [m \in {"m1", "m2"} |-> "missing"],
   attribute |-> [k \in {"zone"} |-> "missing"]]

Base == [scope |-> "fabric", kind |-> "min_bandwidth", key |-> "",
         strength |-> Required, numeric |-> FALSE, target |-> 0, minimum |-> 0,
         value |-> "", preferred |-> "", members |-> {},
         attributes |-> {}]

Number(scope, kind, strength, target, minimum) ==
  [Base EXCEPT !.scope = scope, !.kind = kind, !.strength = strength,
               !.numeric = TRUE, !.target = target, !.minimum = minimum]

\* A numeric pair on one scope, a collective with an attribute on two, a
\* contract without required requirements.
MCBodies ==
  {[scopes |-> {"fabric"},
    requirements |-> <<Number("fabric", "min_bandwidth", Required, 2, 2),
                       Number("fabric", "max_latency", Preferred, 1, 2)>>],
   [scopes |-> {"fabric", "rack"},
    requirements |-> <<[Base EXCEPT !.kind = "collective", !.members = {"m1", "m2"}],
                       [Base EXCEPT !.scope = "rack", !.kind = "attribute",
                                    !.key = "zone", !.value = "a"]>>],
   [scopes |-> {"rack"},
    requirements |-> <<[Base EXCEPT !.scope = "rack", !.kind = "locality", !.value = "a",
                                    !.preferred = "b", !.strength = Preferred],
                       [Base EXCEPT !.scope = "rack", !.kind = "checkpoint_isolation",
                                    !.value = "none", !.strength = Informational]>>]}

Entry(scope, candidate, produced) ==
  [scope |-> scope, candidate |-> candidate, produced |-> produced]

MCCandidates ==
  {Nothing,
   [Nothing EXCEPT !.number["min_bandwidth"] = 2, !.number["max_latency"] = 2,
                   !.attribute["zone"] = "a"],
   [Nothing EXCEPT !.number["min_bandwidth"] = 1, !.text["locality"] = "b"],
   [Nothing EXCEPT !.collective = "yes", !.member["m1"] = "present"],
   [Nothing EXCEPT !.collective = "yes", !.member["m1"] = "present",
                   !.member["m2"] = "present"]}

MCSubmissions ==
  {<<Entry(s, c, p)>> : s \in {"fabric", "rack"}, c \in MCCandidates, p \in {0, 2}}
    \cup {<<Entry("fabric", c, 1), Entry(s, d, 0)>> :
            s \in {"fabric", "rack"}, c \in MCCandidates \ {Nothing},
            d \in {[Nothing EXCEPT !.attribute["zone"] = "a"]}}
=============================================================================
