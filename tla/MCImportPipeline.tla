-------------------------- MODULE MCImportPipeline --------------------------
(***************************************************************************)
(* Instances of ImportPipeline for TLC.                                    *)
(***************************************************************************)
EXTENDS ImportPipeline

\* Model values are assigned to the layers in the configurations.
CONSTANTS a1, a2, b1, c1, a, b, c

ThreeFiles == [l \in {a1, a2, b1, c1} |-> CASE l \in {a1, a2} -> a [] l = b1 -> b [] l = c1 -> c]
SplitFile == [l \in {a1, a2} |-> a]

NoStale == <<>>
OneStale == <<a1>>
BothStale == <<a1, a2>>
=============================================================================
