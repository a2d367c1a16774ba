---------------------------- MODULE MCCacheStartup ----------------------------
EXTENDS CacheStartup, TLC

MCSymmetry == Permutations(Proc) \cup Permutations(MediaFact)
=============================================================================
