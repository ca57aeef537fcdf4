----------------------------- MODULE MCFrontEnd -----------------------------
(***************************************************************************)
(* FrontEnd on small instances.                                            *)
(***************************************************************************)
EXTENDS FrontEnd

(***************************************************************************)
(* Read events: nothing complete, one packet, or two packets at once.      *)
(***************************************************************************)
MCBursts == {<<0, 0>>, <<1, 1>>, <<2, 3>>}
MCOneByOne == {<<1, 1>>}
=============================================================================
