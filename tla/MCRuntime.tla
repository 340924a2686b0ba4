----------------------------- MODULE MCRuntime ------------------------------
(* Small instances of Runtime for TLC. *)
EXTENDS Runtime, TLC

CONSTANTS b1, b2, s1, s2, strict, lax

\* b1 declares one scope, b2 both; b2 may supersede b1 and itself, and b1
\* itself; the strict rules refuse b1.
MCScopes == [b \in Body |-> IF b = b1 THEN {s1} ELSE {s1, s2} \cap Scope]
MCCompatible == {<<b1, b1>>, <<b1, b2>>, <<b2, b2>>}
MCPermits == {<<strict, b2>>, <<lax, b1>>, <<lax, b2>>} \cap (Rules \X Body)

\* Submissions of the in-process interface (no identity yet; zero is allowed),
\* and those of the wire, where the decoder has derived one.
MCEvidence == {<<0, FALSE>>, <<1, FALSE>>, <<2, FALSE>>}
MCWireEvidence == {<<1, TRUE>>, <<2, TRUE>>}

\* Workloads, and the trusted publishers, are interchangeable.
Interchangeable == Permutations(Workload) \cup Permutations(Trusted)
=============================================================================
