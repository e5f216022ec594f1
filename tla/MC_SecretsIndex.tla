--------------------------- MODULE MC_SecretsIndex ---------------------------
EXTENDS SecretsIndex

CONSTANTS p1, p2, work, home
=============================================================================
