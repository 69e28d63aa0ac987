----------------------------- MODULE MCQueueRing -----------------------------
(* Small instances of QueueRing.                                           *)
EXTENDS QueueRing
==============================================================================
