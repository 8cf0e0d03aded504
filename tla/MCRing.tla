------------------------------- MODULE MCRing -------------------------------
(***************************************************************************)
(* A ring of a few bytes and messages of zero to five bytes, which leave   *)
(* it exactly full, wrap both prefix and payload, and do not all fit.      *)
(***************************************************************************)
EXTENDS ShmRing

MCMessages == {<<>>, <<7>>, <<1, 2>>, <<9, 8, 7, 6, 5>>, <<1, 2, 3, 4, 5, 6, 7, 8>>}
=============================================================================
