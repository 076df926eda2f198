---------------------------- MODULE MCOneThread ----------------------------
(***************************************************************************)
(* OneThread for TLC.                                                      *)
(***************************************************************************)
EXTENDS OneThread

\* Sizes that make() of HugePage_t is asked for.
MCSizes == -2 .. 7

\* Lists of processors: among them the empty one, one with a blank last piece,
\* and two that no processor is in.
MCLists ==
  {<<>>, <<"0">>, <<" ", "1", ",", " ", "2">>, <<"0", ",", "-", "1">>, <<"5">>, <<"x">>,
   <<"1", ",", " ">>}
=============================================================================
