-------------------------- MODULE MCBitGenerator --------------------------
(* BitGenerator with two processors, three generators and three tasks. *)
EXTENDS BitGenerator
=============================================================================
