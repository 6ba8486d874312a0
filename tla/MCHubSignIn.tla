----------------------------- MODULE MCHubSignIn -----------------------------
(* Instances of HubSignIn for TLC.                                         *)
EXTENDS HubSignIn

CONSTANTS w1, w2, th1, th2, d1, alice, bob
=============================================================================
