--------------------------- MODULE MCOutcomeIndex ---------------------------
(* A small instance of OutcomeIndex for TLC. *)
EXTENDS OutcomeIndex

CONSTANTS w1, w2

\* The writers are interchangeable: a write takes w1 while it is idle.
FirstIdle == writer[w1].pc = "idle" /\ writer[w2].pc = "idle" => writer'[w2].pc = "idle"

\* Two disturbances of one behaviour: two writes, a write and a failure, or two failures.
TwoDisturbances == writes' + faults' <= 2
=============================================================================
