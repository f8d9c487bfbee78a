------------------------------- MODULE MCSoc --------------------------------
(***************************************************************************)
(* Small instances of Soc for TLC.                                         *)
(***************************************************************************)
EXTENDS Soc

MCText  == <<"t1", "t2", "t3">>
MCInput == <<"i1", "i2">>
=============================================================================
