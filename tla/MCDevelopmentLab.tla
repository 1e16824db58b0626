--------------------------- MODULE MCDevelopmentLab ---------------------------
EXTENDS DevelopmentLab, TLC

CONSTANTS h1, h2, pause, resume, cancel, gate, verify, rollback

Symmetry == Permutations(Handler)
=============================================================================
