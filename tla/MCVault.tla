------------------------------ MODULE MCVault ------------------------------
(* Instances of Vault for TLC.  Accounts, clients and captures are model values. *)
EXTENDS Vault
=============================================================================
