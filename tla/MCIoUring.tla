------------------------------ MODULE MCIoUring -------------------------------
(* IoUring on small instances: objects and numbers are model values. *)
EXTENDS IoUring, TLC
=============================================================================
