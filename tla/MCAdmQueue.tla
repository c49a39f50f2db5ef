----------------------------- MODULE MCAdmQueue -----------------------------
(* The requests the runs of AdmQueue let callers make. *)
EXTENDS AdmQueue

\* Both ends, as a disciplined caller of a queue of any length may use them.
BothEnds == Item \X {ADM_QUEUE_INSERT_TO_BACK, ADM_QUEUE_INSERT_TO_FRONT}
=============================================================================
