---------------------------- MODULE OfferContract ----------------------------
(***************************************************************************)
(* What the Rover promises the Assignment Engine about the commitments it  *)
(* is offered: each is decided once, the engine is told nothing but what   *)
(* was decided and is told it once, only an accepted commitment is driven, *)
(* and none is driven that is over.  How envelopes arrive, what is kept on *)
(* disk and when the process dies is not said here.                        *)
(***************************************************************************)
EXTENDS Sequences

CONSTANTS Commitments, None

VARIABLES
  decision,  \* per commitment: None, then for good "ACCEPT" or "REJECT"
  told,      \* per commitment: the answers the engine was given
  driven,    \* the commitment whose mission is being driven, or None
  over       \* per commitment: has it been withdrawn?

vars == <<decision, told, driven, over>>

Init ==
  /\ decision = [c \in Commitments |-> None]
  /\ told = [c \in Commitments |-> <<>>]
  /\ driven = None
  /\ over = [c \in Commitments |-> FALSE]

\* A commitment is decided; an accepted one is driven at once, by a Rover that is free.
Decide(c) ==
  /\ decision[c] = None /\ ~over[c]
  /\ \/ /\ decision' = [decision EXCEPT ![c] = "REJECT"]
        /\ UNCHANGED driven
     \/ /\ driven = None
        /\ decision' = [decision EXCEPT ![c] = "ACCEPT"]
        /\ driven' = c
  /\ UNCHANGED <<told, over>>

\* The engine is told, once, what was decided.
Tell(c) ==
  /\ decision[c] # None /\ told[c] = <<>>
  /\ told' = [told EXCEPT ![c] = <<decision[c]>>]
  /\ UNCHANGED <<decision, driven, over>>

\* The mission is completed, aborted, or lost with the process.
Leave ==
  /\ driven' = None
  /\ UNCHANGED <<decision, told, over>>

\* The commitment is over, and its mission with it: another's for the same task may be, too.
End(c) ==
  /\ over' = [over EXCEPT ![c] = TRUE]
  /\ driven' \in {driven, None} \ {c}
  /\ UNCHANGED <<decision, told>>

Next == Leave \/ \E c \in Commitments : Decide(c) \/ Tell(c) \/ End(c)

Spec == Init /\ [][Next]_vars
=============================================================================
