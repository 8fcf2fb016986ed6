--------------------------- MODULE MCBackendSession ---------------------------
(***************************************************************************)
(* BackendSession for TLC: one or two pairing codes, with and without a    *)
(* configured token.                                                       *)
(***************************************************************************)
EXTENDS BackendSession

TwoCodes == {1, 2}
MaybeConfigured == {0, 1}
Works == {TRUE}
MayFail == {TRUE, FALSE}
=============================================================================
