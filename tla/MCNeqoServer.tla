------------------------------ MODULE MCNeqoServer ------------------------------
(* Instances of NeqoServer for TLC. *)
EXTENDS NeqoServer
CONSTANTS c1, c2
=============================================================================
