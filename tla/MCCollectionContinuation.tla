--------------------- MODULE MCCollectionContinuation ---------------------
EXTENDS CollectionContinuation

\* A collection of two targets, and a revision that dropped one of them.
MCRevision == {<<"A", "B">>, <<"B">>}
MCTarget == {"A", "B"}
=============================================================================
