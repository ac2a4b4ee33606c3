------------------------ MODULE MCSubmissionPipeline ------------------------
(* A small instance of SubmissionPipeline for TLC: an eval, a throughput result *)
(* and a failure without rows; the partition of a system failure is closed.     *)
EXTENDS SubmissionPipeline

CONSTANTS j1, eval, plain, bare

\* At most three disturbances of one behaviour: submissions and failures.
Disturbances == submits' + faults' <= 3
=============================================================================
