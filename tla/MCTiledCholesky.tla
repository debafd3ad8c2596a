-------------------------- MODULE MCTiledCholesky --------------------------
(* Matrices of up to three rows of tiles, on one to three processors. *)
EXTENDS TiledCholesky
MCExtents == 1..6
=============================================================================
