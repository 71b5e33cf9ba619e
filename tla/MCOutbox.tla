------------------------------ MODULE MCOutbox ------------------------------
(* Two workers and two events, two attempts each, a crash and a recovery: a     *)
(* worker can crash after its claim, a claim can be taken over, and a late       *)
(* result can meet an event that was settled, given up or recovered meanwhile.   *)
EXTENDS Outbox, TLC

Symmetry == Permutations(Workers) \cup Permutations(Events)
=============================================================================
