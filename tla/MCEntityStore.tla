---------------------------- MODULE MCEntityStore ----------------------------
EXTENDS EntityStore, TLC

MCSymmetry == Permutations(Writer) \cup Permutations(Video)
=============================================================================
