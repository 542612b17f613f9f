---------------------------- MODULE ProjectFiles ----------------------------
(***************************************************************************)
(* Where projects and their stores lie on disk: creating, saving, saving   *)
(* as, renaming, deleting and opening projects in several folders, while   *)
(* imports and bakes that were started before still write and commit.      *)
(*                                                                         *)
(* A project's stores are in the folder "data" beside its manifest, so     *)
(* projects of one folder share it.  A layer is the stores it names, and   *)
(* whether the active one is indexed; a manifest is the layers that were   *)
(* saved.  An import keeps the project it was started for; a bake or a     *)
(* graph run knows the layer's id only.                                    *)
(***************************************************************************)
EXTENDS Integers, FiniteSets

CONSTANTS
  Folder, Path,     \* folders; paths of manifests
  FolderOf,         \* the folder of a manifest
  Sessions,         \* manifests called Session_*, of projects nobody named
  Layer, Source,    \* layers; imported files
  SourceOf,         \* the file of a layer
  MainOf,           \* the layer importFile makes; others are added when the build ends
  Object,           \* bound: project objects at one time
  Plans,            \* bounds: budgets, each saying how often each thing is done
  NoPath, NoStore, NoManifest, NoObject

Deed == {"create", "adopt", "open", "import", "reindex", "bake", "run", "revert",
         "remove", "saveAs", "rename", "delete", "restart", "fail", "stale"}

ASSUME FilesAssumption ==
  /\ FolderOf \in [Path -> Folder] /\ NoPath \notin Path
  /\ Sessions \subseteq Path
  /\ SourceOf \in [Layer -> Source] /\ MainOf \in [Source -> Layer]
  /\ \A s \in Source : SourceOf[MainOf[s]] = s
  /\ Layer \cap Source = {} /\ Object # {} /\ NoObject \notin Object
  /\ Plans \subseteq [Deed -> Nat]

VARIABLES
  projects,    \* the project objects that are held
  open,        \* m_project
  dirty,       \* m_project_dirty
  manifests,   \* the .dlp files
  files,       \* the .dlpd files
  tasks,       \* builds, bakes and graph runs that are not settled
  imported,    \* history: files that were imported; a source's id is new every time
  owed,        \* history: the open project differs from its file by what opening
               \* found missing, by what a build could not save, or because a build
               \* saved another project object under its path
  left         \* what is left of the budget

vars == <<projects, open, dirty, manifests, files, tasks, imported, owed, left>>

Store == [dir : Folder, of : Source \cup Layer]
Raw(f, l)  == [dir |-> f, of |-> SourceOf[l]]
Side(f, l) == [dir |-> f, of |-> l]
ASSUME NoStoreAssumption == NoStore \notin Store

\* history: a layer is stray when its store was written by a task of an earlier session
\* or of a project that has moved since, or was missing when the project moved.  It is
\* missed when its manifest held it without an index and its store had gone.
NoRow == [known |-> FALSE, active |-> NoStore, base |-> NoStore, indexed |-> FALSE,
          stray |-> FALSE, missed |-> FALSE]
Placeholder == [NoRow EXCEPT !.known = TRUE]
NoRows == [l \in Layer |-> NoRow]

Blank == [path |-> NoPath, temp |-> FALSE, layers |-> NoRows]
NewProject(p, temp) == [path |-> p, temp |-> temp, layers |-> NoRows]

Builds == {t \in tasks : t.kind \in {"import", "reindex"}}
HeldBy(ts, o) == \E t \in ts : t.kind \in {"import", "reindex"} /\ t.of = o
Home(o) == FolderOf[projects[o].path]

Init ==
  /\ projects = [o \in Object |-> Blank]
  /\ open = NoObject
  /\ dirty = FALSE
  /\ manifests = [p \in Path |-> NoManifest]
  /\ files = {}
  /\ tasks = {}
  /\ imported = {}
  /\ owed = FALSE
  /\ left \in Plans

Does(d) == left[d] > 0 /\ left' = [left EXCEPT ![d] = @ - 1]
Free == UNCHANGED left
\* A file operation works, or fails at the cost of the budget.
Works(d, ok) ==
  /\ left[d] > 0 /\ (ok \/ left["fail"] > 0)
  /\ left' = [left EXCEPT ![d] = @ - 1, !["fail"] = IF ok THEN @ ELSE @ - 1]
Tries(ok) == /\ ok \/ left["fail"] > 0
             /\ left' = [left EXCEPT !["fail"] = IF ok THEN @ ELSE @ - 1]

-----------------------------------------------------------------------------
(* The open project.                                                       *)

Opened == open # NoObject
Rows == projects[open].layers
WithRows(o, rows) == [projects EXCEPT ![o].layers = rows]

\* The session turns to another project object, or to none; what it leaves is held
\* only by builds.
TurnTo(o, project) ==
  /\ open' = o
  /\ projects' = [q \in Object |-> IF q = o THEN project
                                   ELSE IF q = open /\ ~HeldBy(tasks, q) THEN Blank
                                   ELSE projects[q]]
  /\ dirty' = FALSE

\* projectAboutToChange: what is under way is of an earlier session.
Orphaned == {[t EXCEPT !.live = FALSE] : t \in tasks}

Unused(o) == ~HeldBy(tasks, o)
Spare == CHOOSE o \in Object : Unused(o)

\* ensureImportsIdle
Idle == Builds = {}

\* newProject and Project::create.  The operator may discard unsaved changes.
Create(p) ==
  /\ Does("create") /\ Idle
  /\ p \notin Sessions /\ manifests[p] = NoManifest
  /\ TurnTo(Spare, NewProject(p, FALSE))
  /\ tasks' = Orphaned
  /\ owed' = FALSE
  /\ UNCHANGED <<manifests, files, imported>>

\* adoptNewProject: importing into a new project, or with none open into one for the
\* session.  Nothing is asked, and nothing is told that the project changes.
Adopt(p) ==
  /\ Does("adopt") /\ (\E o \in Object : Unused(o))
  /\ p \in Sessions => ~Opened
  /\ manifests[p] = NoManifest
  /\ TurnTo(Spare, NewProject(p, p \in Sessions))
  /\ owed' = FALSE
  /\ UNCHANGED <<manifests, files, tasks, imported>>

\* restoreLayersFromJson: the index comes from the store.  A layer saved with an index
\* whose store is gone loses the name; one saved without keeps it, there or not.
Gone(store) == store \notin files \cup {NoStore}
Reread(row, stale) == [row EXCEPT !.indexed = row.active \in files \ stale,
                                  !.missed = ~row.indexed /\ Gone(row.active)]
Readable_Trusting(row, stale) == Reread(row, stale)
Readable(row, stale) ==
  IF row.indexed /\ Gone(row.active) THEN [Reread(row, stale) EXCEPT !.active = NoStore]
  ELSE Reread(row, stale)

\* What layers name, which opening does not work out again.
Named(rows) == [l \in Layer |-> [rows[l] EXCEPT !.indexed = FALSE, !.missed = FALSE]]

\* loadProjectPath; the stores that are stale have no footer that can be read now.
Load(p, stale) ==
  /\ left["open"] > 0 /\ (stale = {} \/ left["stale"] > 0)
  /\ left' = [left EXCEPT !["open"] = @ - 1, !["stale"] = IF stale = {} THEN @ ELSE @ - 1]
  /\ Idle /\ manifests[p] # NoManifest
  /\ Opened /\ ~dirty => projects[open].path # p
  /\ LET rows == [l \in Layer |-> Readable(manifests[p][l], stale)] IN
       /\ TurnTo(Spare, [NewProject(p, FALSE) EXCEPT !.layers = rows])
       /\ owed' = (Named(rows) # Named(manifests[p]))
  /\ tasks' = Orphaned
  /\ UNCHANGED <<manifests, files, imported>>

Close ==
  /\ Opened /\ Idle /\ Free
  /\ TurnTo(NoObject, Blank)
  /\ tasks' = Orphaned
  /\ owed' = FALSE
  /\ UNCHANGED <<manifests, files, imported>>

\* deleteProject: manifest and data folder go to the trash, each if it can be moved.
Delete(gone, emptied) ==
  /\ Idle
  /\ Works("delete", gone /\ emptied)
  /\ manifests' = IF gone THEN [manifests EXCEPT ![projects[open].path] = NoManifest] ELSE manifests
  /\ files' = IF emptied THEN {f \in files : f.dir # Home(open)} ELSE files
  /\ TurnTo(NoObject, Blank)
  /\ tasks' = Orphaned
  /\ owed' = FALSE
  /\ UNCHANGED imported

-----------------------------------------------------------------------------
(* Saving.                                                                 *)

\* Project::save of an object, which works or not.
Save(o, rows, ok) ==
  manifests' = IF ok THEN [manifests EXCEPT ![projects[o].path] = rows] ELSE manifests

\* saveProject and the timer's autoSave.
SaveProject(ok) ==
  /\ Tries(ok) /\ ~projects[open].temp
  /\ Save(open, Rows, ok)
  /\ dirty' = (dirty /\ ~ok)
  /\ owed' = (owed /\ ~ok)
  /\ UNCHANGED <<projects, open, files, tasks, imported>>

\* An edit that marks the project dirty and asks for autoSave at once.
Edited_Unmarked(rows, ok) ==
  /\ projects' = WithRows(open, rows)
  /\ IF projects[open].temp THEN ok /\ UNCHANGED manifests ELSE Save(open, rows, ok)
  /\ dirty' = FALSE
  /\ owed' = (owed /\ (projects[open].temp \/ ~ok))
Edited(rows, ok) ==
  /\ projects' = WithRows(open, rows)
  /\ IF projects[open].temp THEN ok /\ UNCHANGED manifests ELSE Save(open, rows, ok)
  /\ dirty' = (projects[open].temp \/ ~ok)
  /\ owed' = (owed /\ (projects[open].temp \/ ~ok))

\* copyProjectOwnedCaches: the stores of the old folder that exist are copied, and
\* their names with them.
Owned(store, f) == store \in files /\ store.dir = f
Relocated(store, old, new) == IF Owned(store, old) THEN [store EXCEPT !.dir = new] ELSE store
RelocatedRow_ActiveOnly(row, old, new) == [row EXCEPT !.active = Relocated(@, old, new)]
RelocatedRow(row, old, new) ==
  [known |-> row.known, indexed |-> row.indexed, missed |-> row.missed,
   active |-> Relocated(row.active, old, new), base |-> Relocated(row.base, old, new),
   stray |-> row.stray \/ (old # new /\ ~({row.active, row.base} \subseteq files \cup {NoStore}))]
Actives(f) == {Rows[l].active : l \in {k \in Layer : Owned(Rows[k].active, f)}}
Bases(f)   == {Rows[l].base : l \in {k \in Layer : Owned(Rows[k].base, f)}}

\* In the folder it is in, an active store is left alone, and a baseline that is not
\* active any more is copied onto itself, which fails.
CopiesOntoItself(old, new) == old = new /\ ~(Bases(old) \subseteq Actives(old))

SaveAs(p, ok) ==
  LET old == Home(open)
      new == FolderOf[p]
      rows == [l \in Layer |-> RelocatedRow(Rows[l], old, new)]
      copies == {Relocated(s, old, new) : s \in Actives(old) \cup Bases(old)} IN
  IF CopiesOntoItself(old, new)
  THEN ~ok /\ Does("saveAs") /\ UNCHANGED <<projects, open, dirty, manifests, files, tasks, imported, owed>>
  ELSE /\ Works("saveAs", ok)
       /\ IF ok
          THEN /\ projects' = [projects EXCEPT ![open] = [path |-> p, temp |-> FALSE, layers |-> rows]]
               /\ manifests' = [manifests EXCEPT ![p] = rows]
               /\ files' = files \cup copies
               /\ dirty' = FALSE /\ owed' = FALSE
          ELSE /\ \E some \in SUBSET copies : files' = files \cup some
               /\ UNCHANGED <<projects, manifests, dirty, owed>>
       /\ UNCHANGED <<open, tasks, imported>>

\* renameProject and renameOnDisk, in the folder it is in.  When the manifest cannot be
\* written under its new name it is moved back, if that works.
Rename(p, how) ==
  LET old == projects[open].path
      Moved(m) == [manifests EXCEPT ![p] = m, ![old] = NoManifest]
      moves == /\ ~projects[open].temp
               /\ manifests[p] = NoManifest /\ manifests[old] # NoManifest IN
  /\ p # old /\ FolderOf[p] = FolderOf[old]
  /\ Works("rename", how = "works" \/ ~moves)
  /\ IF moves /\ how = "works"
     THEN /\ manifests' = Moved(Rows)
          /\ projects' = [projects EXCEPT ![open].path = p]
          /\ dirty' = FALSE /\ owed' = FALSE
     ELSE /\ manifests' = IF moves /\ how = "stuck" THEN Moved(manifests[old]) ELSE manifests
          /\ dirty' = TRUE
          /\ UNCHANGED <<projects, owed>>
  /\ UNCHANGED <<open, files, tasks, imported>>

-----------------------------------------------------------------------------
(* Layers.                                                                 *)

Layers(rows, s) == {l \in Layer : rows[l].known /\ SourceOf[l] = s}
Building(s) == \E t \in Builds : SourceOf[t.layer] = s
Task(kind, l, dest, stray) ==
  [kind |-> kind, layer |-> l, of |-> open, dest |-> dest, home |-> Home(open),
   state |-> "running", live |-> TRUE, stray |-> stray]

\* importFile: the destination is fixed now.
ImportFile(s) ==
  /\ Does("import") /\ s \notin imported
  /\ imported' = imported \cup {s}
  /\ tasks' = tasks \cup {Task("import", MainOf[s], Raw(Home(open), MainOf[s]), FALSE)}
  /\ projects' = WithRows(open, [Rows EXCEPT ![MainOf[s]] = Placeholder])
  /\ dirty' = TRUE
  /\ UNCHANGED <<open, manifests, files, owed>>

ReindexLayer(l) ==
  /\ Does("reindex") /\ Rows[l].known /\ ~Building(SourceOf[l])
  /\ tasks' = tasks \cup {Task("reindex", l, Raw(Home(open), l), FALSE)}
  /\ UNCHANGED <<projects, open, dirty, manifests, files, imported, owed>>

\* A bake or a graph run of an indexed layer.  It writes beside the store it reads: the
\* baseline, or the active store for sub-bottom bakes.
Input(row) == IF row.base # NoStore THEN row.base ELSE row.active
Inputs(kind, row) == {Input(row)} \cup (IF kind = "bake" THEN {row.active} ELSE {})
Process(kind, l) ==
  /\ Does(kind) /\ Rows[l].indexed
  /\ \A t \in tasks : t.kind = kind => t.layer # l
  /\ \E input \in Inputs(kind, Rows[l]) \cap files :
       tasks' = tasks \cup {Task(kind, l, Side(input.dir, l), Rows[l].stray)}
  /\ UNCHANGED <<projects, open, dirty, manifests, files, imported, owed>>

\* onRevertProcessedLayer
Reverted(row) == [row EXCEPT !.active = row.base, !.missed = FALSE]
Revert(l, ok) ==
  LET row == Rows[l] IN
  /\ Works("revert", ok)
  /\ row.base \notin {NoStore, row.active} /\ row.base \in files
  /\ Edited([Rows EXCEPT ![l] = Reverted(row)], ok)
  /\ UNCHANGED <<open, files, tasks, imported>>

\* removeLayer: stores stay.
RemoveLayer(l) ==
  /\ Does("remove") /\ Rows[l].known
  /\ projects' = WithRows(open, [Rows EXCEPT ![l] = NoRow])
  /\ dirty' = TRUE
  /\ UNCHANGED <<open, manifests, files, tasks, imported, owed>>

-----------------------------------------------------------------------------
(* Pool threads, and the handlers of their results.                        *)

Writes(t, ok) ==
  /\ t.state = "running" /\ Tries(ok)
  /\ tasks' = (tasks \ {t}) \cup {[t EXCEPT !.state = IF ok THEN "written" ELSE "failed"]}
  /\ files' = IF ok THEN files \cup {t.dest} ELSE files
  /\ UNCHANGED <<projects, open, dirty, manifests, imported, owed>>

\* A build's project object goes with its last build, unless it is the open one.
Kept(ps, ts) == [o \in Object |-> IF o = open \/ HeldBy(ts, o) THEN ps[o] ELSE Blank]

\* completeImport and completeReindex, on the object the build was started for.  The
\* layers of the file get the store; the manifest of that object is saved.
Built(t) ==
  [NoRow EXCEPT !.known = TRUE, !.active = t.dest, !.base = t.dest, !.indexed = TRUE,
                !.stray = t.home # Home(t.of)]
Targets(t) ==
  IF t.kind = "import" THEN {l \in Layer : SourceOf[l] = SourceOf[t.layer]}
  ELSE Layers(projects[t.of].layers, SourceOf[t.layer])
Completes(t, ok) ==
  LET rows == projects[t.of].layers
      still == rows[t.layer].known
      good == t.state = "written" /\ t.dest \in files
      ends == tasks \ {t}
      became == IF still /\ good THEN [l \in Layer |-> IF l \in Targets(t) THEN Built(t) ELSE rows[l]]
                ELSE IF still /\ t.kind = "import" THEN [rows EXCEPT ![t.layer] = NoRow]
                ELSE rows
      emits == {l \in Layer : rows[l].known # became[l].known} # {} IN
  /\ t \in Builds /\ t.state # "running"
  /\ IF still /\ good THEN Tries(ok) /\ Save(t.of, became, ok)
     ELSE ok /\ Free /\ UNCHANGED manifests
  /\ tasks' = ends
  /\ projects' = Kept(WithRows(t.of, became), ends)
  /\ dirty' = (dirty \/ (t.of = open /\ emits))
  /\ owed' = IF still /\ good /\ Opened /\ projects[t.of].path = projects[open].path
             THEN t.of # open \/ ~ok ELSE owed
  /\ UNCHANGED <<open, files, imported>>

\* rebuildCacheIndex, which opening asks for where a layer names a store and has no
\* index, reads the whole store and handles what it found.  Stores do not go while a
\* scan of them runs: what deletes them ends the scans.
Rescanned(o, l) ==
  /\ o = open \/ HeldBy(tasks, o)
  /\ LET row == projects[o].layers[l] IN row.known /\ ~row.indexed /\ row.active \in files
  /\ projects' = WithRows(o, [projects[o].layers EXCEPT ![l].indexed = TRUE])
  /\ Free
  /\ UNCHANGED <<open, dirty, manifests, files, tasks, imported, owed>>

\* onCorrectionPersisted and onProcessingPersisted: the layer of that id, in whichever
\* project is open.  A bake of an earlier session is discarded before.
Processed(row, t) ==
  [known |-> row.known, indexed |-> row.indexed, missed |-> FALSE,
   active |-> t.dest, base |-> IF row.base = NoStore THEN row.active ELSE row.base,
   stray |-> row.stray \/ t.stray \/ ~t.live \/ t.home # Home(open)]
Delivers(t, ok) ==
  LET lands == /\ t.state = "written" /\ Opened /\ Rows[t.layer].known
               /\ t.kind = "run" \/ t.live IN
  /\ t \notin Builds /\ t.state # "running"
  /\ IF lands
     THEN /\ Tries(ok)
          /\ Edited([Rows EXCEPT ![t.layer] = Processed(Rows[t.layer], t)], ok)
     ELSE ok /\ Free /\ UNCHANGED <<projects, dirty, manifests, owed>>
  /\ tasks' = tasks \ {t}
  /\ UNCHANGED <<open, files, imported>>

\* The application ends, or is ended, and starts again: purgeStaleTempProjects removes
\* folders of sessions that hold no project with a name, when they are old enough.
Restart ==
  /\ Does("restart")
  /\ \E old \in SUBSET {f \in Folder : \E p \in Sessions : FolderOf[p] = f} :
       LET purged == {f \in old : \A p \in Path : FolderOf[p] = f /\ manifests[p] # NoManifest
                                                    => p \in Sessions} IN
       /\ files' = {s \in files : s.dir \notin purged}
       /\ manifests' = [p \in Path |-> IF FolderOf[p] \in purged THEN NoManifest ELSE manifests[p]]
  /\ projects' = [o \in Object |-> Blank]
  /\ open' = NoObject
  /\ tasks' = {}
  /\ dirty' = FALSE /\ owed' = FALSE
  /\ UNCHANGED imported

-----------------------------------------------------------------------------
OnProject ==
  \/ Close
  \/ \E gone, emptied \in BOOLEAN : Delete(gone, emptied)
  \/ \E ok \in BOOLEAN :
       \/ SaveProject(ok)
       \/ \E p \in Path \ Sessions : SaveAs(p, ok)
       \/ \E l \in Layer : Revert(l, ok)
  \/ \E p \in Path \ Sessions, how \in {"works", "undone", "stuck"} : Rename(p, how)
  \/ \E s \in Source : ImportFile(s)
  \/ \E l \in Layer : ReindexLayer(l) \/ Process("bake", l) \/ Process("run", l) \/ RemoveLayer(l)

Next ==
  \/ \E p \in Path : Create(p) \/ Adopt(p) \/ \E stale \in SUBSET files : Load(p, stale)
  \/ Opened /\ OnProject
  \/ \E t \in tasks, ok \in BOOLEAN : Writes(t, ok) \/ Completes(t, ok) \/ Delivers(t, ok)
  \/ \E o \in Object, l \in Layer : Rescanned(o, l)
  \/ Restart

Spec == Init /\ [][Next]_vars

-----------------------------------------------------------------------------
Row == [known : BOOLEAN, active : Store \cup {NoStore}, base : Store \cup {NoStore},
        indexed : BOOLEAN, stray : BOOLEAN, missed : BOOLEAN]
ASSUME NoManifestAssumption == NoManifest \notin [Layer -> Row]
Project == [path : Path \cup {NoPath}, temp : BOOLEAN, layers : [Layer -> Row]]
TaskRecord == [kind : {"import", "reindex", "bake", "run"}, layer : Layer, of : Object, dest : Store,
               home : Folder, state : {"running", "written", "failed"}, live : BOOLEAN, stray : BOOLEAN]

TypeOK ==
  /\ projects \in [Object -> Project]
  /\ open \in Object \cup {NoObject}
  /\ dirty \in BOOLEAN /\ owed \in BOOLEAN
  /\ manifests \in [Path -> [Layer -> Row] \cup {NoManifest}]
  /\ files \subseteq Store
  /\ tasks \subseteq TaskRecord
  /\ imported \subseteq Source

Saved == {p \in Path : manifests[p] # NoManifest}
In(store, f) == store = NoStore \/ store.dir = f
RowWithin(row, f) == row.stray \/ (In(row.active, f) /\ In(row.base, f))
Within(rows, f) == \A l \in Layer : RowWithin(rows[l], f)

\* What the open project and every saved one names lies in its own folder, wherever it
\* was saved to, renamed, reverted or opened from, and whatever failed on the way: no
\* project depends on the folder it was once copied from.
SelfContained ==
  /\ \A p \in Saved : Within(manifests[p], FolderOf[p])
  /\ Opened => Within(Rows, Home(open))

\* A manifest that is written names stores that exist, and none that does not as indexed.
\* What names one that has gone is stray, or was not indexed in the manifest it comes from.
RowWhole(row, stores) ==
  \/ row.stray
  \/ row.active \in stores \cup {NoStore}
  \/ row.missed /\ ~row.indexed
SavedStep ==
  \A p \in Path : manifests'[p] \notin {NoManifest} \cup {manifests[q] : q \in Path}
    => \A l \in Layer : RowWhole(manifests'[p][l], files')
SavedWhole == [][SavedStep]_vars

\* What can be closed without a question is what is on disk, but for indexes.
CleanIsSaved ==
  Opened /\ ~dirty /\ ~projects[open].temp /\ ~owed
    => IF projects[open].path \in Saved THEN Named(manifests[projects[open].path]) = Named(Rows)
       ELSE Rows = NoRows

\* "Parsed stores remain durable workflow assets until the project itself is deleted":
\* while a project that is not the open one stays on disk, so do the stores it names.
KeptUntilDeleted ==
  [][\A p \in Path :
       /\ manifests[p] # NoManifest /\ manifests'[p] # NoManifest
       /\ Opened => projects[open].path # p
       => \A l \in Layer : {manifests[p][l].active, manifests[p][l].base} \cap files \subseteq files']_vars
=============================================================================
