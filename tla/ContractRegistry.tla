-------------------------- MODULE ContractRegistry --------------------------
(***************************************************************************)
(* What the coordinator promises about contracts: every workload has one   *)
(* append-only list of generations, numbered 1, 2, 3, ..., all of the      *)
(* owner that registered it, each compatible with the one before; once a   *)
(* workload is retired its list never grows.  Nothing is ever forgotten:   *)
(* neither a crash nor a restart of the coordinator is a step of this      *)
(* specification.                                                          *)
(***************************************************************************)
EXTENDS Naturals, Sequences

CONSTANTS
  Workload,    \* workload identities
  Contract,    \* contracts: [workload, gen, publisher, body, ...]
  Compatible   \* <<old, new>> bodies where new may supersede old

VARIABLES
  generations,  \* workload -> its contracts, oldest first
  retired       \* workload -> no further generation is accepted

vars == <<generations, retired>>

Init ==
  /\ generations = [w \in Workload |-> <<>>]
  /\ retired = [w \in Workload |-> FALSE]

Register(c) ==
  /\ generations[c.workload] = <<>>
  /\ c.gen = 1
  /\ generations' = [generations EXCEPT ![c.workload] = <<c>>]
  /\ UNCHANGED retired

Publish(c) ==
  LET history == generations[c.workload]
      current == history[Len(history)]
  IN  /\ history # <<>>
      /\ ~retired[c.workload]
      /\ c.gen = Len(history) + 1
      /\ c.publisher = current.publisher
      /\ <<current.body, c.body>> \in Compatible
      /\ generations' = [generations EXCEPT ![c.workload] = Append(@, c)]
      /\ UNCHANGED retired

Retire(w) ==
  /\ generations[w] # <<>>
  /\ ~retired[w]
  /\ retired' = [retired EXCEPT ![w] = TRUE]
  /\ UNCHANGED generations

\* The first conjunct follows from the second; TLC evaluates it first, and so
\* tries the contracts only for steps that change a list.
Next ==
  \/ /\ generations' # generations
     /\ \E c \in Contract : Register(c) \/ Publish(c)
  \/ \E w \in Workload : Retire(w)

Spec == Init /\ [][Next]_vars
=============================================================================
