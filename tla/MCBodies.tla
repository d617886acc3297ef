------------------------------ MODULE MCBodies ------------------------------
(* Mobjs on the sessions of MCMobjs, by itself. *)
EXTENDS Mobjs, MCMobjs
=============================================================================
