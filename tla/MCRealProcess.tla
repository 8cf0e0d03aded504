--------------------------- MODULE MCRealProcess ---------------------------
(***************************************************************************)
(* Three children: rotation, and a list that shrinks before, at and behind *)
(* the index.                                                              *)
(***************************************************************************)
EXTENDS RealProcess
=============================================================================
