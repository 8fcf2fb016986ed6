---------------------------- MODULE MCLocalization ----------------------------
(***************************************************************************)
(* Localization for TLC: GGA and RMC sentences, from two places and at two *)
(* speeds, with a course and without; voided ones and one of another type. *)
(***************************************************************************)
EXTENDS Localization

Sentence(type, valid, at, speed, track) ==
  [type |-> type, valid |-> valid, at |-> at, speed |-> speed, track |-> track]
MCSentences ==
  {Sentence("GGA", TRUE, at, Missing, Missing) : at \in {0, 2}}
    \cup {Sentence("RMC", TRUE, 0, 2, 0), Sentence("RMC", TRUE, 0, 2, Missing),
          Sentence("RMC", TRUE, 0, 1, 2), Sentence("RMC", FALSE, 2, 2, 2),
          Sentence("other", TRUE, Nowhere, Missing, Missing)}
MCIntents ==
  {[linear |-> 0, angular |-> 0], [linear |-> 1, angular |-> 0], [linear |-> 0, angular |-> 1]}
=============================================================================
