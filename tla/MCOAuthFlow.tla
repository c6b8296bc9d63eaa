---------------------------- MODULE MCOAuthFlow ----------------------------
(***************************************************************************)
(* Instances of OAuthFlow for TLC.  Flows and tasks are model values.      *)
(***************************************************************************)
EXTENDS OAuthFlow
=============================================================================
