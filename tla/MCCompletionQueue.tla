--------------------------- MODULE MCCompletionQueue ---------------------------
EXTENDS CompletionQueue, TLC

Symmetric == Permutations(Run)
MCTarget == {"A", "B"}

\* Exact IDs and a comment; and the same with a marked or annotated line.
PlainLine == {[names |-> "A", raw |-> TRUE], [names |-> "B", raw |-> TRUE],
              [names |-> NoTarget, raw |-> FALSE]}
MarkedLine == PlainLine \cup {[names |-> "A", raw |-> FALSE]}
=============================================================================
