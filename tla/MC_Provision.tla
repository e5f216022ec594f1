----------------------------- MODULE MC_Provision -----------------------------
EXTENDS Provision
=============================================================================
