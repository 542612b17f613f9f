----------------------------- MODULE MCParsedStore -----------------------------
\* Instances of ParsedStore.
EXTENDS ParsedStore, TLC

\* Scans are alike, and so are writers: no property tells one from another.
Alike == Permutations(Scanner) \cup Permutations(Writer)

\* Stores of this version and old ones, under a crash and two scans at a time.
PlansPublish == {[crashes |-> 1, together |-> 2, legacy |-> FALSE],
                 [crashes |-> 1, together |-> 2, legacy |-> TRUE]}
=============================================================================
