------------------------------ MODULE MCEngine ------------------------------
(* Small instances of Engine.                                              *)
EXTENDS Engine
=============================================================================
