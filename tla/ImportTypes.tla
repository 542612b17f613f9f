----------------------------- MODULE ImportTypes -----------------------------
(***************************************************************************)
(* Vocabulary shared by the import queue (ImportJobManager) and the        *)
(* indexing service (ImportService): layers, the source files they are     *)
(* parsed from, and the jobs the queue holds.                              *)
(***************************************************************************)
EXTENDS Integers, Sequences, FiniteSets

CONSTANTS
  Layer,      \* the layer ids Project::generateId may ever hand out
  Source,     \* the source files
  SourceOf,   \* the file a layer is parsed from (DataLayer::source_id)
  NoLayer     \* a job or failure that names no layer

ASSUME LayerAssumption ==
  /\ IsFiniteSet(Layer)
  /\ SourceOf \in [Layer -> Source]
  /\ NoLayer \notin Layer

\* What FileImportAction asks for once Skip and ReuseExisting are set aside:
\* parse a file into a new layer, or parse it again for a layer it has.
ImportJob(s)  == [kind |-> "import",  source |-> s,           layer |-> NoLayer]
RebuildJob(l) == [kind |-> "rebuild", source |-> SourceOf[l], layer |-> l]

Job == {ImportJob(s) : s \in Source} \cup {RebuildJob(l) : l \in Layer}
=============================================================================
