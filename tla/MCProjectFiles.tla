--------------------------- MODULE MCProjectFiles ---------------------------
(* Two projects that share a folder, one elsewhere and one of the session;  *)
(* a dual-frequency file with two layers and another with one.              *)
EXTENDS ProjectFiles

CONSTANTS x, y, z, t, Work, Away, Temp, hf, lf, sb, f1, f2

MCFolderOf == [p \in Path |-> CASE p \in {x, y} -> Work [] p = z -> Away [] p = t -> Temp]
MCSourceOf == [l \in Layer |-> IF l = sb THEN f2 ELSE f1]
MCMainOf   == [s \in Source |-> IF s = f2 THEN sb ELSE hf]

Budget(deeds) == [d \in Deed |-> IF d \in DOMAIN deeds THEN deeds[d] ELSE 0]
Copying  == Budget([create |-> 1, import |-> 1, bake |-> 1, revert |-> 1, saveAs |-> 2, open |-> 1, fail |-> 1])
Crossing == Budget([create |-> 1, import |-> 1, reindex |-> 1, run |-> 1, saveAs |-> 1, open |-> 2])
Renaming == Budget([create |-> 2, import |-> 1, rename |-> 2, remove |-> 1, delete |-> 1, open |-> 1, fail |-> 1])
Staying  == Budget([adopt |-> 2, import |-> 2, remove |-> 1, saveAs |-> 1, fail |-> 1])
Leaving  == Budget([adopt |-> 1, import |-> 1, bake |-> 1, saveAs |-> 1, restart |-> 1, open |-> 1])
Fading   == Budget([create |-> 1, import |-> 1, remove |-> 1, saveAs |-> 1, open |-> 3, stale |-> 1, delete |-> 1])
Shared   == Budget([create |-> 1, import |-> 1, saveAs |-> 1, delete |-> 1])

PlansFiles  == {Copying, Crossing, Renaming, Staying, Leaving, Fading}
PlansShared == {Shared}
=============================================================================
