------------------------------ MODULE MCWizard -------------------------------
(* One preview and its commit.                                               *)
EXTENDS Wizard
=============================================================================
