----------------------------- MODULE MCRegistry -----------------------------
EXTENDS Registry, TLC

CONSTANTS h1, h2

Interchangeable == Permutations(Handlers)
=============================================================================
