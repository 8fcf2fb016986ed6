---------------------------- MODULE MCEsp32Link ----------------------------
(***************************************************************************)
(* Instances of Esp32Link for TLC.                                         *)
(***************************************************************************)
EXTENDS Esp32Link

NoBoots == {}
SecondBoot == {2}
Always == {TRUE}
Either == {TRUE, FALSE}
=============================================================================
