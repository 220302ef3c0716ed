---------------------------- MODULE MCEnvironment ----------------------------
(***************************************************************************)
(* The client on a small heap.                                              *)
(***************************************************************************)
EXTENDS EnvironmentClient

MCClientValues == {Nil, Plain("num")}
=============================================================================
