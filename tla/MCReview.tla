------------------------------ MODULE MCReview ------------------------------
EXTENDS Versions, TLC
CONSTANTS c1, n1, n2

\* One empty slot is as good as another.
NotesAlike == Permutations(Notes)
=============================================================================
