-------------------------- MODULE MCMarginTransfer --------------------------
(* Small instances of MarginTransfer for TLC. *)
EXTENDS MarginTransfer

CONSTANTS long, short

=============================================================================
