------------------------------ MODULE MCAware ------------------------------
\* Constants for TLC.  Lists are told apart by nothing but their names.
EXTENDS Aware, TLC

ListSymmetry == Permutations(Lists)

=============================================================================
