----------------------------- MODULE RecordLog ------------------------------
(***************************************************************************)
(* What the journal promises the coordinator: a log of records that only   *)
(* grows, at its end.  A process that serves knows all of it; a record is  *)
(* acknowledged under the place it has in the log.  A process that dies    *)
(* leaves the log as it is, or with the record it was appending and never  *)
(* acknowledged.  The promise ends with a write that fails in a process    *)
(* that goes on.                                                           *)
(***************************************************************************)
EXTENDS Naturals, Sequences

CONSTANT Payload  \* records

VARIABLES
  log,      \* the records kept, oldest first
  acked,    \* <<place, record>> of every acknowledged one
  serving,  \* a process serves
  known,    \* how many records it knows of
  broken    \* a write failed and its process went on

vars == <<log, acked, serving, known, broken>>

Init ==
  log = <<>> /\ acked = {} /\ serving = FALSE /\ known = 0 /\ broken = FALSE

\* A process starts to serve when it has read the log.
Serve ==
  /\ ~serving /\ serving' = TRUE
  /\ known' = Len(log)
  /\ UNCHANGED <<log, acked, broken>>

AppendRecord(p) ==
  /\ serving
  /\ log' = Append(log, p)
  /\ known' = Len(log) + 1
  /\ acked' = acked \cup {<<Len(log) + 1, p>>}
  /\ UNCHANGED <<serving, broken>>

Die ==
  /\ serving /\ serving' = FALSE
  /\ known' = 0
  /\ log' = log \/ \E p \in Payload : log' = Append(log, p)
  /\ UNCHANGED <<acked, broken>>

Fault == broken' = TRUE

Next == Serve \/ (\E p \in Payload : AppendRecord(p)) \/ Die \/ Fault

Spec == Init /\ [][Next]_vars
=============================================================================
