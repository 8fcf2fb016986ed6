------------------------------- MODULE MCSight -------------------------------
(***************************************************************************)
(* Sight for TLC: a frame of 12 x 4 pixels that the detector sees at half  *)
(* the size, with an empty view, a person at the edge, an obstacle on      *)
(* either side of the corridor's middle, one that fills it and one beside. *)
(***************************************************************************)
EXTENDS Sight

Row(label, x1, x2) == [label |-> label, box |-> <<x1, 0, x2, 2>>]
MCViews ==
  {{}, {Row("person", 0, 1), Row("box", 1, 1)}, {Row("box", 2, 5)},
   {Row("box", 4, 9), Row("box", 2, 3)}}
MCNavigations ==
  {[status |-> "ARRIVED", error |-> {}], [status |-> "NAVIGATING", error |-> {}]}
    \cup {[status |-> "NAVIGATING", error |-> {e}] : e \in {0, 30, -120}}
MCMetrics == {[loaded |-> FALSE, readable |-> TRUE]}
=============================================================================
