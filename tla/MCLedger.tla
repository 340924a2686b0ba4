------------------------------ MODULE MCLedger ------------------------------
(* Small instances of Ledger for TLC. *)
EXTENDS Ledger

CONSTANTS small, large

\* Bytes in units in which a frame header is two.
MCPayloadBytes == [p \in Payload |-> IF p = small THEN 1 ELSE 3]
=============================================================================
