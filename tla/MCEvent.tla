------------------------------- MODULE MCEvent -------------------------------
(* A small instance of Event.                                              *)
EXTENDS Event
==============================================================================
