------------------------- MODULE ProjectFilesProofs -------------------------
(***************************************************************************)
(* What a project names lies in its own folder, for any folders, manifests *)
(* and files, any number of project objects, and whatever is saved,        *)
(* copied, moved, deleted or interrupted in whatever order.                *)
(***************************************************************************)
EXTENDS ProjectFiles, TLAPS

\* The strengthening: what the open project names, and what a build's object names,
\* lies in its folder; a task writes where its project lay when it was started.
Placed(o) == projects[o].path \in Path /\ Within(projects[o].layers, FolderOf[projects[o].path])
ManifestsPlaced == \A p \in Path : manifests[p] # NoManifest => Within(manifests[p], FolderOf[p])
ProjectsPlaced == \A o \in Object : o = open \/ HeldBy(tasks, o) => Placed(o)
Aimed(t) == /\ t.stray \/ t.dest.dir = t.home
            /\ t.kind \in {"import", "reindex"} => ~t.stray
TasksAimed == \A t \in tasks : Aimed(t)
IInv == TypeOK /\ ManifestsPlaced /\ ProjectsPlaced /\ TasksAimed

-----------------------------------------------------------------------------
(* Rows.                                                                   *)

LEMMA StoreFields ==
  ASSUME NEW f \in Folder, NEW l \in Layer
  PROVE  /\ Raw(f, l) \in Store /\ Raw(f, l).dir = f
         /\ Side(f, l) \in Store /\ Side(f, l).dir = f
  BY FilesAssumption DEF Raw, Side, Store

LEMMA NewRows ==
  /\ NoRow \in Row /\ Placeholder \in Row /\ NoRows \in [Layer -> Row]
  /\ \A f : RowWithin(NoRow, f) /\ RowWithin(Placeholder, f) /\ Within(NoRows, f)
  BY DEF NoRow, Placeholder, NoRows, Row, RowWithin, Within, In

LEMMA PutRow ==
  ASSUME NEW rows \in [Layer -> Row], NEW f, Within(rows, f),
         NEW l, NEW row \in Row, RowWithin(row, f)
  PROVE  /\ [rows EXCEPT ![l] = row] \in [Layer -> Row]
         /\ Within([rows EXCEPT ![l] = row], f)
  BY DEF Within

\* Reading a manifest: a layer may lose its store, or its index.
LEMMA ReadableRow ==
  ASSUME NEW row \in Row, NEW f, RowWithin(row, f), NEW stale
  PROVE  /\ Readable(row, stale) \in Row /\ RowWithin(Readable(row, stale), f)
         /\ RowWhole(Readable(row, stale), files)
<1> DEFINE again == Reread(row, stale)
<1>1. /\ again \in Row
      /\ again.active = row.active /\ again.base = row.base /\ again.stray = row.stray
      /\ again.indexed <=> row.active \in files \ stale
      /\ again.missed <=> ~row.indexed /\ Gone(row.active)
  <2> DEFINE a == row.active \in files \ stale
             b == ~row.indexed /\ Gone(row.active)
  <2>1. a \in BOOLEAN /\ b \in BOOLEAN /\ again = [row EXCEPT !.indexed = a, !.missed = b]
    BY DEF Reread
  <2> HIDE DEF a, b, again
  <2>2. /\ again \in Row
        /\ again.active = row.active /\ again.base = row.base /\ again.stray = row.stray
        /\ again.indexed = a /\ again.missed = b
    BY <2>1 DEF Row
  <2> QED BY <2>2 DEF a, b
<1>2. RowWithin(again, f)
  BY <1>1 DEF RowWithin
<1> HIDE DEF again
<1>3. CASE row.indexed /\ Gone(row.active)
  <2> DEFINE read == [again EXCEPT !.active = NoStore]
  <2>1. read \in Row /\ read.active = NoStore /\ read.base = again.base /\ read.stray = again.stray
    BY <1>1 DEF Row
  <2>2. Readable(row, stale) = read
    BY <1>3 DEF Readable, again
  <2> HIDE DEF read
  <2> QED BY <1>2, <2>1, <2>2 DEF RowWithin, In, RowWhole
<1>4. CASE ~(row.indexed /\ Gone(row.active))
  <2>1. Readable(row, stale) = again
    BY <1>4 DEF Readable, again
  <2>2. RowWhole(again, files)
    BY <1>1, <1>4 DEF RowWhole, Gone
  <2> QED BY <1>1, <1>2, <2>1, <2>2
<1> QED BY <1>3, <1>4

\* Saving as moves a store, or marks the layer that names it.
LEMMA RelocatedStore ==
  ASSUME NEW store \in Store \cup {NoStore}, NEW old \in Folder, NEW new \in Folder,
         files \subseteq Store, In(store, old)
  PROVE  /\ Relocated(store, old, new) \in Store \cup {NoStore}
         /\ old = new \/ store \in files \cup {NoStore} => In(Relocated(store, old, new), new)
<1>1. CASE Owned(store, old)
  <2>1. store \in Store
    BY <1>1 DEF Owned
  <2>2. Relocated(store, old, new) = [store EXCEPT !.dir = new]
    BY <1>1 DEF Relocated
  <2>3. [store EXCEPT !.dir = new] = [dir |-> new, of |-> store.of] /\ store.of \in Source \cup Layer
    BY <2>1 DEF Store
  <2>4. [dir |-> new, of |-> store.of] \in Store
    BY <2>3 DEF Store
  <2> QED BY <2>2, <2>3, <2>4 DEF In
<1>2. CASE ~Owned(store, old)
  <2>1. Relocated(store, old, new) = store
    BY <1>2 DEF Relocated
  <2>2. old = new \/ store \in files \cup {NoStore} => In(store, new)
    BY <1>2 DEF Owned, In
  <2> QED BY <2>1, <2>2
<1> QED BY <1>1, <1>2

LEMMA RelocatedRows ==
  ASSUME NEW row \in Row, NEW old \in Folder, NEW new \in Folder,
         files \subseteq Store, RowWithin(row, old)
  PROVE  RelocatedRow(row, old, new) \in Row /\ RowWithin(RelocatedRow(row, old, new), new)
<1> DEFINE moved == RelocatedRow(row, old, new)
           lost == old # new /\ ~({row.active, row.base} \subseteq files \cup {NoStore})
<1>1. /\ row.active \in Store \cup {NoStore} /\ row.base \in Store \cup {NoStore}
      /\ row.stray \in BOOLEAN /\ row.known \in BOOLEAN
      /\ row.indexed \in BOOLEAN /\ row.missed \in BOOLEAN
  BY DEF Row
<1>2. /\ moved.active = Relocated(row.active, old, new)
      /\ moved.base = Relocated(row.base, old, new)
      /\ moved.stray <=> (row.stray \/ lost)
      /\ moved.stray \in BOOLEAN /\ moved.known \in BOOLEAN
      /\ moved = [known |-> row.known, indexed |-> row.indexed, missed |-> row.missed,
                  active |-> moved.active, base |-> moved.base, stray |-> moved.stray]
  BY <1>1 DEF RelocatedRow
<1>3. CASE row.stray
  <2>1. moved.stray
    BY <1>2, <1>3
  <2>2. \A s \in Store \cup {NoStore} : Relocated(s, old, new) \in Store \cup {NoStore}
    BY DEF Relocated, Store, Owned
  <2>3. moved \in Row
    <3>1. moved.active \in Store \cup {NoStore} /\ moved.base \in Store \cup {NoStore}
      BY <1>1, <1>2, <2>2
    <3> HIDE DEF moved, lost
    <3> QED BY <1>1, <1>2, <3>1 DEF Row
  <2> QED BY <2>1, <2>3 DEF RowWithin
<1>4. CASE ~row.stray
  <2>1. In(row.active, old) /\ In(row.base, old)
    BY <1>4 DEF RowWithin
  <2>2. /\ moved.active \in Store \cup {NoStore} /\ moved.base \in Store \cup {NoStore}
        /\ ~lost => In(moved.active, new) /\ In(moved.base, new)
    BY <1>1, <1>2, <2>1, RelocatedStore
  <2>3. moved \in Row
    BY <1>1, <1>2, <2>2 DEF Row
  <2>4. RowWithin(moved, new)
    BY <1>2, <2>2 DEF RowWithin
  <2> QED BY <2>3, <2>4
<1> QED BY <1>3, <1>4

-----------------------------------------------------------------------------
(* Project objects.                                                        *)

LEMMA WithRowsFacts ==
  ASSUME TypeOK, NEW o \in Object, NEW rows \in [Layer -> Row]
  PROVE  /\ WithRows(o, rows) \in [Object -> Project]
         /\ \A q \in Object : /\ WithRows(o, rows)[q].path = projects[q].path
                              /\ WithRows(o, rows)[q].temp = projects[q].temp
                              /\ WithRows(o, rows)[q].layers = IF q = o THEN rows ELSE projects[q].layers
  BY DEF WithRows, TypeOK, Project

LEMMA BlankProject == Blank \in Project
  BY NewRows DEF Blank, Project

LEMMA FreshProject ==
  ASSUME NEW p \in Path, NEW temp \in BOOLEAN
  PROVE  /\ NewProject(p, temp) \in Project
         /\ NewProject(p, temp).path = p
         /\ \A f : Within(NewProject(p, temp).layers, f)
  BY NewRows DEF NewProject, Project

LEMMA TurnToFacts ==
  ASSUME TypeOK, NEW o, NEW project \in Project, TurnTo(o, project)
  PROVE  /\ open' = o /\ dirty' = FALSE
         /\ projects' \in [Object -> Project]
         /\ o \in Object => projects'[o] = project
         /\ \A q \in Object : q # o /\ HeldBy(tasks, q) => projects'[q] = projects[q]
  BY BlankProject DEF TurnTo, TypeOK

LEMMA OrphanedFacts ==
  ASSUME TypeOK, TasksAimed
  PROVE  /\ Orphaned \subseteq TaskRecord
         /\ \A t \in Orphaned : Aimed(t)
         /\ Idle => \A o : ~HeldBy(Orphaned, o)
<1> SUFFICES ASSUME NEW t \in Orphaned
             PROVE  /\ t \in TaskRecord /\ Aimed(t)
                    /\ Idle => t.kind \notin {"import", "reindex"}
  BY DEF HeldBy
<1>1. PICK s \in tasks : t = [s EXCEPT !.live = FALSE]
  BY DEF Orphaned
<1>2. s \in TaskRecord /\ Aimed(s)
  BY DEF TypeOK, TasksAimed
<1>3. /\ t \in TaskRecord
      /\ t.kind = s.kind /\ t.stray = s.stray /\ t.dest = s.dest /\ t.home = s.home
  BY <1>1, <1>2 DEF TaskRecord
<1> QED BY <1>2, <1>3 DEF Aimed, Idle, Builds

LEMMA SpareObject ==
  ASSUME \E o \in Object : Unused(o)
  PROVE  Spare \in Object /\ ~HeldBy(tasks, Spare)
  BY DEF Spare, Unused

LEMMA IdleHolds ==
  ASSUME Idle PROVE \A o : ~HeldBy(tasks, o)
  BY DEF Idle, Builds, HeldBy

LEMMA TheOpenProject ==
  ASSUME IInv, Opened
  PROVE  /\ open \in Object /\ projects[open] \in Project /\ projects[open].path \in Path
         /\ Home(open) = FolderOf[projects[open].path] /\ Home(open) \in Folder
         /\ Rows \in [Layer -> Row] /\ Within(Rows, Home(open)) /\ Placed(open)
<1>1. open \in Object /\ Placed(open)
  BY DEF IInv, TypeOK, Opened, ProjectsPlaced
<1>2. projects[open] \in Project
  BY <1>1 DEF IInv, TypeOK
<1>3. Rows \in [Layer -> Row]
  BY <1>2 DEF Rows, Project
<1> QED BY <1>1, <1>2, <1>3, FilesAssumption DEF Placed, Home, Rows

\* What is placed stays so where only the open project changes, or nothing does.
LEMMA PlacedStill ==
  ASSUME ProjectsPlaced, open' = open,
         \A q \in Object : HeldBy(tasks', q) => q = open \/ HeldBy(tasks, q),
         \A q \in Object : q # open => projects'[q] = projects[q],
         open \in Object => Placed(open)'
  PROVE  ProjectsPlaced'
<1> SUFFICES ASSUME NEW q \in Object, q = open \/ HeldBy(tasks', q)
             PROVE  Placed(q)'
  BY DEF ProjectsPlaced
<1>1. CASE q = open
  BY <1>1
<1>2. CASE q # open
  <2>1. Placed(q)
    BY <1>2 DEF ProjectsPlaced
  <2>2. projects'[q] = projects[q]
    BY <1>2
  <2> QED BY <2>1, <2>2 DEF Placed
<1> QED BY <1>1, <1>2

LEMMA Saves ==
  ASSUME TypeOK, ManifestsPlaced, NEW o \in Object, projects[o].path \in Path,
         NEW rows \in [Layer -> Row], Within(rows, Home(o)),
         NEW ok, Save(o, rows, ok) \/ UNCHANGED manifests
  PROVE  /\ manifests' \in [Path -> [Layer -> Row] \cup {NoManifest}]
         /\ ManifestsPlaced'
<1>1. manifests' \in {manifests, [manifests EXCEPT ![projects[o].path] = rows]}
  BY DEF Save
<1>2. manifests \in [Path -> [Layer -> Row] \cup {NoManifest}]
  BY DEF TypeOK
<1>3. \A p \in Path : manifests'[p] = manifests[p] \/ (p = projects[o].path /\ manifests'[p] = rows)
  BY <1>1, <1>2
<1>4. ManifestsPlaced'
  BY <1>3 DEF ManifestsPlaced, Home
<1> QED BY <1>1, <1>2, <1>4

LEMMA Turns ==
  ASSUME IInv, NEW o \in Object \cup {NoObject}, NEW project \in Project, TurnTo(o, project),
         o \in Object => project.path \in Path /\ Within(project.layers, FolderOf[project.path]),
         tasks' = tasks \/ (tasks' = Orphaned /\ Idle),
         manifests' \in [Path -> [Layer -> Row] \cup {NoManifest}], ManifestsPlaced',
         files' \subseteq files, imported' = imported, owed' \in BOOLEAN
  PROVE  IInv'
<1>1. /\ open' = o /\ dirty' = FALSE /\ projects' \in [Object -> Project]
      /\ o \in Object => projects'[o] = project
      /\ \A q \in Object : q # o /\ HeldBy(tasks, q) => projects'[q] = projects[q]
  BY TurnToFacts DEF IInv
<1>2. tasks' \subseteq TaskRecord /\ TasksAimed'
  BY OrphanedFacts DEF IInv, TasksAimed, TypeOK, Aimed
<1>3. \A q \in Object : HeldBy(tasks', q) => HeldBy(tasks, q)
  BY OrphanedFacts DEF IInv
<1>4. ProjectsPlaced'
  <2> SUFFICES ASSUME NEW q \in Object, q = o \/ HeldBy(tasks', q)
               PROVE  Placed(q)'
    BY <1>1 DEF ProjectsPlaced
  <2>1. CASE q = o
    BY <1>1, <2>1 DEF Placed
  <2>2. CASE q # o
    <3>1. HeldBy(tasks, q)
      BY <1>3, <2>2
    <3>2. Placed(q) /\ projects'[q] = projects[q]
      BY <1>1, <2>2, <3>1 DEF IInv, ProjectsPlaced
    <3> QED BY <3>2 DEF Placed
  <2> QED BY <2>1, <2>2
<1>5. TypeOK'
  BY <1>1, <1>2 DEF IInv, TypeOK
<1> QED BY <1>2, <1>4, <1>5 DEF IInv

-----------------------------------------------------------------------------
(* Projects that come and go.                                              *)

LEMMA InitPlaced == Init => IInv
<1> SUFFICES ASSUME Init PROVE IInv
  OBVIOUS
<1>1. TypeOK
  BY BlankProject DEF Init, TypeOK
<1>2. ManifestsPlaced /\ TasksAimed
  BY DEF Init, ManifestsPlaced, TasksAimed
<1>3. ProjectsPlaced
  BY FilesAssumption DEF Init, ProjectsPlaced, HeldBy
<1> QED BY <1>1, <1>2, <1>3 DEF IInv

LEMMA CreateStep ==
  ASSUME IInv, NEW p \in Path, Create(p)
  PROVE  IInv'
<1>1. Spare \in Object
  BY IdleHolds, SpareObject, FilesAssumption DEF Create, Unused
<1>2. NewProject(p, FALSE) \in Project /\ NewProject(p, FALSE).path = p
      /\ Within(NewProject(p, FALSE).layers, FolderOf[p])
  BY FreshProject
<1>3. manifests' \in [Path -> [Layer -> Row] \cup {NoManifest}] /\ ManifestsPlaced'
  BY DEF Create, IInv, TypeOK, ManifestsPlaced
<1>4. TurnTo(Spare, NewProject(p, FALSE)) /\ tasks' = Orphaned /\ Idle
      /\ files' = files /\ imported' = imported /\ owed' = FALSE
  BY DEF Create
<1> HIDE DEF IInv
<1> QED BY <1>1, <1>2, <1>3, <1>4, Turns

LEMMA AdoptStep ==
  ASSUME IInv, NEW p \in Path, Adopt(p)
  PROVE  IInv'
<1>1. Spare \in Object
  BY SpareObject DEF Adopt
<1> DEFINE temp == p \in Sessions
<1>2. temp \in BOOLEAN
  OBVIOUS
<1>3. NewProject(p, temp) \in Project /\ NewProject(p, temp).path = p
      /\ Within(NewProject(p, temp).layers, FolderOf[p])
  <2> HIDE DEF temp
  <2> QED BY <1>2, FreshProject
<1>4. manifests' \in [Path -> [Layer -> Row] \cup {NoManifest}] /\ ManifestsPlaced'
  BY DEF Adopt, IInv, TypeOK, ManifestsPlaced
<1>5. TurnTo(Spare, NewProject(p, temp)) /\ tasks' = tasks
      /\ files' = files /\ imported' = imported /\ owed' = FALSE
  BY DEF Adopt
<1> HIDE DEF temp
<1> QED BY <1>1, <1>3, <1>4, <1>5, Turns

LEMMA LoadStep ==
  ASSUME IInv, NEW p \in Path, NEW stale, Load(p, stale)
  PROVE  IInv'
<1> DEFINE rows == [l \in Layer |-> Readable(manifests[p][l], stale)]
           project == [NewProject(p, FALSE) EXCEPT !.layers = rows]
<1>1. Spare \in Object
  BY IdleHolds, SpareObject, FilesAssumption DEF Load, Unused
<1>2. manifests[p] \in [Layer -> Row] /\ Within(manifests[p], FolderOf[p])
  BY DEF Load, IInv, TypeOK, ManifestsPlaced
<1>3. \A l \in Layer : manifests[p][l] \in Row /\ RowWithin(manifests[p][l], FolderOf[p])
  BY <1>2 DEF Within
<1>4. \A l \in Layer : Readable(manifests[p][l], stale) \in Row
                       /\ RowWithin(Readable(manifests[p][l], stale), FolderOf[p])
  BY <1>3, ReadableRow
<1>5. rows \in [Layer -> Row] /\ Within(rows, FolderOf[p])
  BY <1>4 DEF Within
<1>6. project \in Project /\ project.path = p /\ project.layers = rows
  <2> HIDE DEF rows
  <2> QED BY <1>5 DEF NewProject, Project
<1>7. manifests' \in [Path -> [Layer -> Row] \cup {NoManifest}] /\ ManifestsPlaced'
  BY DEF Load, IInv, TypeOK, ManifestsPlaced
<1>8. TurnTo(Spare, project) /\ tasks' = Orphaned /\ Idle /\ files' = files /\ imported' = imported
  BY DEF Load
<1>9. owed' \in BOOLEAN
  BY DEF Load
<1> HIDE DEF project, rows
<1> QED BY <1>1, <1>5, <1>6, <1>7, <1>8, <1>9, Turns

LEMMA CloseStep ==
  ASSUME IInv, Close
  PROVE  IInv'
<1>1. manifests' \in [Path -> [Layer -> Row] \cup {NoManifest}] /\ ManifestsPlaced'
  BY DEF Close, IInv, TypeOK, ManifestsPlaced
<1>2. TurnTo(NoObject, Blank) /\ tasks' = Orphaned /\ Idle
      /\ files' = files /\ imported' = imported /\ owed' = FALSE
  BY DEF Close
<1> QED BY <1>1, <1>2, BlankProject, Turns, FilesAssumption

LEMMA DeleteStep ==
  ASSUME IInv, NEW gone \in BOOLEAN, NEW emptied \in BOOLEAN, Delete(gone, emptied)
  PROVE  IInv'
<1>1. manifests' \in {manifests, [manifests EXCEPT ![projects[open].path] = NoManifest]}
  BY DEF Delete
<1>2. manifests \in [Path -> [Layer -> Row] \cup {NoManifest}]
  BY DEF IInv, TypeOK
<1>3. manifests' \in [Path -> [Layer -> Row] \cup {NoManifest}]
      /\ \A p \in Path : manifests'[p] \in {manifests[p], NoManifest}
  BY <1>1, <1>2
<1>4. ManifestsPlaced'
  BY <1>3 DEF IInv, ManifestsPlaced
<1>5. TurnTo(NoObject, Blank) /\ tasks' = Orphaned /\ Idle
      /\ files' \subseteq files /\ imported' = imported /\ owed' = FALSE
  BY DEF Delete
<1> QED BY <1>3, <1>4, <1>5, BlankProject, Turns, FilesAssumption

LEMMA RestartStep ==
  ASSUME IInv, Restart
  PROVE  IInv'
<1>1. /\ projects' = [o \in Object |-> Blank] /\ open' = NoObject /\ tasks' = {}
      /\ dirty' = FALSE /\ owed' = FALSE /\ imported' = imported /\ files' \subseteq files
  BY DEF Restart
<1>2. PICK purged : manifests' = [p \in Path |-> IF FolderOf[p] \in purged THEN NoManifest
                                                  ELSE manifests[p]]
  BY DEF Restart
<1>3. manifests \in [Path -> [Layer -> Row] \cup {NoManifest}]
  BY DEF IInv, TypeOK
<1>4. manifests' \in [Path -> [Layer -> Row] \cup {NoManifest}]
      /\ \A p \in Path : manifests'[p] \in {manifests[p], NoManifest}
  BY <1>2, <1>3
<1>5. ManifestsPlaced'
  BY <1>4 DEF IInv, ManifestsPlaced
<1>6. TypeOK'
  BY <1>1, <1>4, BlankProject DEF IInv, TypeOK
<1>7. ProjectsPlaced' /\ TasksAimed'
  BY <1>1, FilesAssumption DEF ProjectsPlaced, TasksAimed, HeldBy
<1> QED BY <1>5, <1>6, <1>7 DEF IInv

-----------------------------------------------------------------------------
(* Saving.                                                                 *)

LEMMA SaveStep ==
  ASSUME IInv, Opened, NEW ok \in BOOLEAN, SaveProject(ok)
  PROVE  IInv'
<1>1. /\ open \in Object /\ projects[open].path \in Path /\ Placed(open)
      /\ Rows \in [Layer -> Row] /\ Within(Rows, Home(open))
  BY TheOpenProject
<1>2. /\ Save(open, Rows, ok) /\ dirty' \in BOOLEAN /\ owed' \in BOOLEAN
      /\ UNCHANGED <<projects, open, files, tasks, imported>>
  BY DEF SaveProject
<1>3. manifests' \in [Path -> [Layer -> Row] \cup {NoManifest}] /\ ManifestsPlaced'
  BY <1>1, <1>2, Saves DEF IInv
<1>4. TypeOK'
  BY <1>2, <1>3 DEF IInv, TypeOK
<1>5. ProjectsPlaced' /\ TasksAimed'
  BY <1>2 DEF IInv, ProjectsPlaced, TasksAimed, HeldBy, Placed, Aimed
<1> QED BY <1>3, <1>4, <1>5 DEF IInv

LEMMA SaveAsStep ==
  ASSUME IInv, Opened, NEW p \in Path, NEW ok \in BOOLEAN, SaveAs(p, ok)
  PROVE  IInv'
<1> DEFINE old == Home(open)
           new == FolderOf[p]
           rows == [l \in Layer |-> RelocatedRow(Rows[l], old, new)]
           copies == {Relocated(s, old, new) : s \in Actives(old) \cup Bases(old)}
           moved == [path |-> p, temp |-> FALSE, layers |-> rows]
<1>1. /\ open \in Object /\ projects[open] \in Project /\ old \in Folder
      /\ Rows \in [Layer -> Row] /\ Within(Rows, old) /\ Placed(open)
  BY TheOpenProject
<1>2. new \in Folder /\ files \subseteq Store
  BY FilesAssumption DEF IInv, TypeOK
<1>3. rows \in [Layer -> Row] /\ Within(rows, new)
  <2>1. \A l \in Layer : Rows[l] \in Row /\ RowWithin(Rows[l], old)
    BY <1>1 DEF Within
  <2>2. \A l \in Layer : RelocatedRow(Rows[l], old, new) \in Row
                         /\ RowWithin(RelocatedRow(Rows[l], old, new), new)
    BY <1>1, <1>2, <2>1, RelocatedRows
  <2> QED BY <2>2 DEF Within
<1>4. copies \subseteq Store
  <2>1. \A s \in Actives(old) \cup Bases(old) : s \in files /\ s.dir = old
    BY DEF Actives, Bases, Owned
  <2>2. \A s \in Actives(old) \cup Bases(old) : Relocated(s, old, new) \in Store
    <3> SUFFICES ASSUME NEW s \in Actives(old) \cup Bases(old)
                 PROVE  Relocated(s, old, new) \in Store
      OBVIOUS
    <3>1. s \in Store /\ Owned(s, old)
      BY <1>2, <2>1 DEF Owned
    <3>2. Relocated(s, old, new) = [s EXCEPT !.dir = new]
      BY <3>1 DEF Relocated
    <3>3. [s EXCEPT !.dir = new] = [dir |-> new, of |-> s.of] /\ s.of \in Source \cup Layer
      BY <3>1 DEF Store
    <3>4. [dir |-> new, of |-> s.of] \in Store
      BY <1>2, <3>3 DEF Store
    <3> QED BY <3>2, <3>3, <3>4
  <2> QED BY <2>2
<1>5. moved \in Project
  <2> HIDE DEF rows
  <2> QED BY <1>3 DEF Project
<1>6. open' = open /\ tasks' = tasks /\ imported' = imported
  BY DEF SaveAs
<1>7. \/ UNCHANGED <<projects, dirty, manifests, owed>> /\ files' \subseteq files \cup copies
      \/ /\ projects' = [projects EXCEPT ![open] = moved]
         /\ manifests' = [manifests EXCEPT ![p] = rows]
         /\ files' = files \cup copies /\ dirty' = FALSE /\ owed' = FALSE
  BY DEF SaveAs
<1>8. TasksAimed'
  BY <1>6 DEF IInv, TasksAimed, Aimed
<1> HIDE DEF copies, rows, new
<1>9. CASE UNCHANGED <<projects, dirty, manifests, owed>> /\ files' \subseteq files \cup copies
  <2>1. TypeOK'
    BY <1>2, <1>4, <1>6, <1>9 DEF IInv, TypeOK
  <2>2. ProjectsPlaced' /\ ManifestsPlaced'
    BY <1>6, <1>9 DEF IInv, ProjectsPlaced, ManifestsPlaced, HeldBy, Placed
  <2> QED BY <1>8, <2>1, <2>2 DEF IInv
<1>10. CASE /\ projects' = [projects EXCEPT ![open] = moved]
            /\ manifests' = [manifests EXCEPT ![p] = rows]
            /\ files' = files \cup copies /\ dirty' = FALSE /\ owed' = FALSE
  <2>1. /\ projects' \in [Object -> Project] /\ projects'[open] = moved
        /\ \A q \in Object : q # open => projects'[q] = projects[q]
    <3> HIDE DEF moved
    <3> QED BY <1>1, <1>5, <1>10 DEF IInv, TypeOK
  <2>2. manifests' \in [Path -> [Layer -> Row] \cup {NoManifest}]
        /\ \A q \in Path : manifests'[q] = IF q = p THEN rows ELSE manifests[q]
    BY <1>3, <1>10 DEF IInv, TypeOK
  <2>3. TypeOK'
    BY <1>2, <1>4, <1>6, <1>10, <2>1, <2>2 DEF IInv, TypeOK
  <2>4. ManifestsPlaced'
    BY <1>3, <2>2 DEF IInv, ManifestsPlaced, new
  <2>5. Placed(open)'
    <3>1. projects'[open].path = p /\ projects'[open].layers = rows
      BY <2>1
    <3> QED BY <1>3, <1>6, <3>1 DEF Placed, new
  <2>6. ProjectsPlaced'
    BY <1>6, <2>1, <2>5, PlacedStill DEF IInv, HeldBy
  <2> QED BY <1>8, <2>3, <2>4, <2>6 DEF IInv
<1> QED BY <1>7, <1>9, <1>10

LEMMA RenameStep ==
  ASSUME IInv, Opened, NEW p \in Path, NEW how, Rename(p, how)
  PROVE  IInv'
<1> DEFINE old == projects[open].path
           Moved(m) == [manifests EXCEPT ![p] = m, ![old] = NoManifest]
<1>1. /\ open \in Object /\ old \in Path /\ Rows \in [Layer -> Row] /\ Placed(open)
      /\ Within(Rows, FolderOf[old]) /\ projects[open] \in Project
  BY TheOpenProject
<1>2. /\ p # old /\ FolderOf[p] = FolderOf[old]
      /\ UNCHANGED <<open, files, tasks, imported>>
  BY DEF Rename
<1>3. \/ /\ manifests' = Moved(Rows) /\ projects' = [projects EXCEPT ![open].path = p]
         /\ dirty' = FALSE /\ owed' = FALSE
      \/ /\ manifests' = manifests \/ (manifests[old] # NoManifest /\ manifests' = Moved(manifests[old]))
         /\ dirty' = TRUE /\ UNCHANGED <<projects, owed>>
  BY DEF Rename
<1>4. manifests \in [Path -> [Layer -> Row] \cup {NoManifest}]
  BY DEF IInv, TypeOK
<1>5. ASSUME NEW rows \in [Layer -> Row], Within(rows, FolderOf[old]), manifests' = Moved(rows)
      PROVE  manifests' \in [Path -> [Layer -> Row] \cup {NoManifest}] /\ ManifestsPlaced'
  <2>1. manifests' \in [Path -> [Layer -> Row] \cup {NoManifest}]
        /\ \A q \in Path : manifests'[q] \in {manifests[q], NoManifest} \/ (q = p /\ manifests'[q] = rows)
    BY <1>4, <1>5
  <2>2. ManifestsPlaced'
    BY <1>2, <1>5, <2>1 DEF IInv, ManifestsPlaced
  <2> QED BY <2>1, <2>2
<1>6. manifests[old] # NoManifest
        => manifests[old] \in [Layer -> Row] /\ Within(manifests[old], FolderOf[old])
  BY <1>1, <1>4 DEF IInv, ManifestsPlaced
<1>7. manifests' \in [Path -> [Layer -> Row] \cup {NoManifest}] /\ ManifestsPlaced'
  <2>1. CASE manifests' = manifests
    BY <1>4, <2>1 DEF IInv, ManifestsPlaced
  <2>2. CASE manifests' = Moved(Rows)
    <3> HIDE DEF Moved, old
    <3> QED BY <1>1, <1>5, <2>2
  <2>3. CASE manifests[old] # NoManifest /\ manifests' = Moved(manifests[old])
    <3> HIDE DEF Moved, old
    <3> QED BY <1>5, <1>6, <2>3
  <2> QED BY <1>3, <2>1, <2>2, <2>3
<1>8. /\ projects' \in [Object -> Project]
      /\ \A q \in Object : q # open => projects'[q] = projects[q]
      /\ projects'[open].path \in {old, p} /\ projects'[open].layers = Rows
  BY <1>1, <1>3 DEF IInv, TypeOK, Project, Rows
<1>9. Placed(open)'
  <2>1. projects'[open].path \in Path /\ Within(projects'[open].layers, FolderOf[projects'[open].path])
    BY <1>1, <1>2, <1>8
  <2> QED BY <1>2, <2>1 DEF Placed
<1>10. ProjectsPlaced'
  BY <1>2, <1>8, <1>9, PlacedStill DEF IInv, HeldBy
<1>11. TypeOK'
  BY <1>2, <1>3, <1>7, <1>8 DEF IInv, TypeOK
<1>12. TasksAimed'
  BY <1>2 DEF IInv, TasksAimed, Aimed
<1> QED BY <1>7, <1>10, <1>11, <1>12 DEF IInv

-----------------------------------------------------------------------------
(* Layers and tasks.                                                       *)

LEMMA EditedFacts ==
  ASSUME IInv, Opened, NEW rows \in [Layer -> Row], Within(rows, Home(open)),
         NEW ok \in BOOLEAN, Edited(rows, ok), UNCHANGED <<open, files, imported>>,
         tasks' \subseteq tasks
  PROVE  IInv'
<1>1. open \in Object /\ projects[open].path \in Path /\ Placed(open)
      /\ projects[open].temp \in BOOLEAN
  BY TheOpenProject DEF Project
<1>2. /\ projects' = WithRows(open, rows)
      /\ Save(open, rows, ok) \/ UNCHANGED manifests
      /\ dirty' \in BOOLEAN /\ owed' \in BOOLEAN
  BY <1>1 DEF Edited, IInv, TypeOK
<1>3. /\ projects' \in [Object -> Project] /\ Placed(open)'
      /\ \A q \in Object : q # open => projects'[q] = projects[q]
  <2>1. projects' \in [Object -> Project]
        /\ projects'[open].path = projects[open].path /\ projects'[open].layers = rows
    BY <1>1, <1>2, WithRowsFacts DEF IInv
  <2>2. \A q \in Object : q # open => projects'[q] = projects[q]
    BY <1>2 DEF WithRows, IInv, TypeOK
  <2> QED BY <1>1, <2>1, <2>2 DEF Placed, Home
<1>4. manifests' \in [Path -> [Layer -> Row] \cup {NoManifest}] /\ ManifestsPlaced'
  BY <1>1, <1>2, Saves DEF IInv
<1>5. ProjectsPlaced'
  BY <1>3, PlacedStill DEF IInv, HeldBy
<1>6. TypeOK' /\ TasksAimed'
  BY <1>2, <1>3, <1>4 DEF IInv, TypeOK, TasksAimed, Aimed
<1> QED BY <1>4, <1>5, <1>6 DEF IInv

LEMMA RevertStep ==
  ASSUME IInv, Opened, NEW l \in Layer, NEW ok \in BOOLEAN, Revert(l, ok)
  PROVE  IInv'
<1> DEFINE put == Reverted(Rows[l])
<1>1. Rows \in [Layer -> Row] /\ Within(Rows, Home(open))
  BY TheOpenProject
<1>2. Rows[l] \in Row /\ RowWithin(Rows[l], Home(open))
  BY <1>1 DEF Within
<1>3. put \in Row /\ RowWithin(put, Home(open))
  BY <1>2 DEF Reverted, Row, RowWithin
<1>5. Edited([Rows EXCEPT ![l] = put], ok) /\ UNCHANGED <<open, files, tasks, imported>>
  BY DEF Revert
<1> HIDE DEF put
<1>6. [Rows EXCEPT ![l] = put] \in [Layer -> Row] /\ Within([Rows EXCEPT ![l] = put], Home(open))
  BY <1>1, <1>3, PutRow
<1> QED BY <1>5, <1>6, EditedFacts

\* Steps that change the open project's layers, add a task, or both, and save nothing.
Added(rows, more) ==
  /\ rows \in [Layer -> Row] /\ Within(rows, Home(open))
  /\ projects' = WithRows(open, rows) \/ projects' = projects
  /\ tasks' = tasks \cup more /\ more \subseteq TaskRecord
  /\ \A t \in more : Aimed(t) /\ t.of = open
  /\ open' = open /\ manifests' = manifests /\ files' = files /\ owed' = owed
  /\ dirty' \in BOOLEAN /\ imported' \subseteq Source

LEMMA Adds ==
  ASSUME IInv, Opened, NEW rows, NEW more, Added(rows, more)
  PROVE  IInv'
<1>0. /\ rows \in [Layer -> Row] /\ Within(rows, Home(open))
      /\ projects' = WithRows(open, rows) \/ projects' = projects
      /\ tasks' = tasks \cup more /\ more \subseteq TaskRecord
      /\ \A t \in more : Aimed(t) /\ t.of = open
      /\ open' = open /\ manifests' = manifests /\ files' = files /\ owed' = owed
      /\ dirty' \in BOOLEAN /\ imported' \subseteq Source
  BY DEF Added
<1>1. open \in Object /\ Placed(open)
  BY TheOpenProject
<1>2. /\ projects' \in [Object -> Project] /\ Placed(open)'
      /\ \A q \in Object : q # open => projects'[q] = projects[q]
  <2>1. CASE projects' = projects
    BY <1>0, <1>1, <2>1 DEF Placed, IInv, TypeOK
  <2>2. CASE projects' = WithRows(open, rows)
    <3>1. projects' \in [Object -> Project]
          /\ projects'[open].path = projects[open].path /\ projects'[open].layers = rows
      BY <1>0, <1>1, <2>2, WithRowsFacts DEF IInv
    <3>2. \A q \in Object : q # open => projects'[q] = projects[q]
      BY <2>2 DEF WithRows, IInv, TypeOK
    <3> QED BY <1>0, <1>1, <3>1, <3>2 DEF Placed, Home
  <2> QED BY <1>0, <2>1, <2>2
<1>3. \A q \in Object : HeldBy(tasks', q) => q = open \/ HeldBy(tasks, q)
  BY <1>0 DEF HeldBy
<1>4. ProjectsPlaced'
  BY <1>0, <1>2, <1>3, PlacedStill DEF IInv
<1>5. TypeOK' /\ TasksAimed'
  BY <1>0, <1>2 DEF IInv, TypeOK, TasksAimed, Aimed
<1>6. ManifestsPlaced'
  BY <1>0 DEF IInv, ManifestsPlaced
<1> QED BY <1>4, <1>5, <1>6 DEF IInv

LEMMA NewTask ==
  ASSUME IInv, Opened, NEW kind \in {"import", "reindex", "bake", "run"}, NEW l \in Layer,
         NEW dest \in Store, dest.dir = Home(open)
  PROVE  LET t == Task(kind, l, dest, FALSE) IN t \in TaskRecord /\ t.of = open /\ Aimed(t)
  BY TheOpenProject DEF Task, TaskRecord, Aimed

LEMMA ImportStep ==
  ASSUME IInv, Opened, NEW s \in Source, ImportFile(s)
  PROVE  IInv'
<1> DEFINE l == MainOf[s]
           new == Task("import", l, Raw(Home(open), l), FALSE)
           rows == [Rows EXCEPT ![l] = Placeholder]
<1>1. l \in Layer /\ Rows \in [Layer -> Row] /\ Within(Rows, Home(open)) /\ Home(open) \in Folder
  BY TheOpenProject, FilesAssumption
<1>2. new \in TaskRecord /\ new.of = open /\ Aimed(new)
  BY <1>1, StoreFields, NewTask
<1>3. rows \in [Layer -> Row] /\ Within(rows, Home(open))
  BY <1>1, NewRows, PutRow
<1>4. /\ projects' = WithRows(open, rows) /\ tasks' = tasks \cup {new} /\ dirty' = TRUE
      /\ imported' = imported \cup {s} /\ UNCHANGED <<open, manifests, files, owed>>
  BY DEF ImportFile
<1>5. imported' \subseteq Source
  BY <1>4 DEF IInv, TypeOK
<1> HIDE DEF new, rows
<1>6. {new} \subseteq TaskRecord /\ \A t \in {new} : Aimed(t) /\ t.of = open
  BY <1>2
<1>7. dirty' \in BOOLEAN
  BY <1>4
<1>8. Added(rows, {new})
  BY <1>3, <1>4, <1>5, <1>6, <1>7 DEF Added
<1> QED BY <1>8, Adds

LEMMA ReindexStep ==
  ASSUME IInv, Opened, NEW l \in Layer, ReindexLayer(l)
  PROVE  IInv'
<1> DEFINE new == Task("reindex", l, Raw(Home(open), l), FALSE)
<1>1. Rows \in [Layer -> Row] /\ Within(Rows, Home(open)) /\ Home(open) \in Folder
  BY TheOpenProject
<1>2. new \in TaskRecord /\ new.of = open /\ Aimed(new)
  BY <1>1, StoreFields, NewTask
<1>3. tasks' = tasks \cup {new} /\ UNCHANGED <<projects, open, dirty, manifests, files, imported, owed>>
  BY DEF ReindexLayer
<1> HIDE DEF new
<1>4. {new} \subseteq TaskRecord /\ \A t \in {new} : Aimed(t) /\ t.of = open
  BY <1>2
<1>5. dirty' \in BOOLEAN /\ imported' \subseteq Source
  BY <1>3 DEF IInv, TypeOK
<1>6. Added(Rows, {new})
  BY <1>1, <1>3, <1>4, <1>5 DEF Added
<1> QED BY <1>6, Adds

LEMMA ProcessStep ==
  ASSUME IInv, Opened, NEW kind \in {"bake", "run"}, NEW l \in Layer, Process(kind, l)
  PROVE  IInv'
<1>1. Rows \in [Layer -> Row] /\ Within(Rows, Home(open)) /\ Home(open) \in Folder /\ open \in Object
  BY TheOpenProject
<1>2. Rows[l] \in Row /\ RowWithin(Rows[l], Home(open))
  BY <1>1 DEF Within
<1>3. PICK input \in Inputs(kind, Rows[l]) \cap files :
        tasks' = tasks \cup {Task(kind, l, Side(input.dir, l), Rows[l].stray)}
  BY DEF Process
<1> DEFINE new == Task(kind, l, Side(input.dir, l), Rows[l].stray)
<1>4. input \in Store /\ input.dir \in Folder
  BY DEF IInv, TypeOK, Store
<1>5. input \in {Rows[l].active, Rows[l].base}
  BY DEF Inputs, Input
<1>6. Rows[l].stray \/ input.dir = Home(open)
  <2>1. input # NoStore
    BY <1>4, NoStoreAssumption
  <2> QED BY <1>2, <1>5, <2>1 DEF RowWithin, In
<1>7. Side(input.dir, l) \in Store /\ Side(input.dir, l).dir = input.dir
  BY <1>4, StoreFields
<1>8. Rows[l].stray \in BOOLEAN
  BY <1>2 DEF Row
<1>9. new = [kind |-> kind, layer |-> l, of |-> open, dest |-> Side(input.dir, l), home |-> Home(open),
             state |-> "running", live |-> TRUE, stray |-> Rows[l].stray]
  BY DEF Task
<1>10. new \in TaskRecord
  <2> HIDE DEF new
  <2> QED BY <1>1, <1>7, <1>8, <1>9 DEF TaskRecord
<1>11. new.of = open /\ Aimed(new)
  <2> HIDE DEF new
  <2> QED BY <1>6, <1>7, <1>8, <1>9 DEF Aimed
<1>12. UNCHANGED <<projects, open, dirty, manifests, files, imported, owed>>
  BY DEF Process
<1> HIDE DEF new
<1>13. {new} \subseteq TaskRecord /\ \A t \in {new} : Aimed(t) /\ t.of = open
  BY <1>10, <1>11
<1>14. dirty' \in BOOLEAN /\ imported' \subseteq Source /\ tasks' = tasks \cup {new}
  BY <1>3, <1>12 DEF IInv, TypeOK, new
<1>15. Added(Rows, {new})
  BY <1>1, <1>12, <1>13, <1>14 DEF Added
<1> QED BY <1>15, Adds

LEMMA RemoveStep ==
  ASSUME IInv, Opened, NEW l \in Layer, RemoveLayer(l)
  PROVE  IInv'
<1> DEFINE rows == [Rows EXCEPT ![l] = NoRow]
<1>1. Rows \in [Layer -> Row] /\ Within(Rows, Home(open))
  BY TheOpenProject
<1>2. rows \in [Layer -> Row] /\ Within(rows, Home(open))
  BY <1>1, NewRows, PutRow
<1>3. /\ projects' = WithRows(open, rows) /\ tasks' = tasks \cup {} /\ dirty' = TRUE
      /\ UNCHANGED <<open, manifests, files, imported, owed>>
  BY DEF RemoveLayer
<1>4. dirty' \in BOOLEAN /\ imported' \subseteq Source
  BY <1>3 DEF IInv, TypeOK
<1> HIDE DEF rows
<1>5. Added(rows, {})
  BY <1>2, <1>3, <1>4 DEF Added
<1> QED BY <1>5, Adds

-----------------------------------------------------------------------------
(* Pool threads and the handlers of their results.                         *)

LEMMA WritesStep ==
  ASSUME IInv, NEW t \in tasks, NEW ok \in BOOLEAN, Writes(t, ok)
  PROVE  IInv'
<1> DEFINE new == [t EXCEPT !.state = IF ok THEN "written" ELSE "failed"]
<1>1. t \in TaskRecord /\ Aimed(t)
  BY DEF IInv, TypeOK, TasksAimed
<1>2. /\ new \in TaskRecord /\ new.of = t.of /\ new.kind = t.kind
      /\ new.stray = t.stray /\ new.dest = t.dest /\ new.home = t.home
  BY <1>1 DEF TaskRecord
<1>3. /\ tasks' = (tasks \ {t}) \cup {new}
      /\ files' \subseteq files \cup {t.dest}
      /\ projects' = projects /\ open' = open /\ dirty' = dirty /\ manifests' = manifests
      /\ imported' = imported /\ owed' = owed
  BY DEF Writes
<1> HIDE DEF new
<1>4. Aimed(new)
  BY <1>1, <1>2 DEF Aimed
<1>5. TasksAimed'
  BY <1>3, <1>4 DEF IInv, TasksAimed, Aimed
<1>6. \A q \in Object : HeldBy(tasks', q) => HeldBy(tasks, q)
  BY <1>2, <1>3 DEF HeldBy
<1>7. ProjectsPlaced'
  BY <1>3, <1>6 DEF IInv, ProjectsPlaced, Placed
<1>8. t.dest \in Store
  BY <1>1 DEF TaskRecord
<1>9. TypeOK'
  BY <1>2, <1>3, <1>8 DEF IInv, TypeOK
<1>10. ManifestsPlaced'
  BY <1>3 DEF IInv, ManifestsPlaced
<1> QED BY <1>5, <1>7, <1>9, <1>10 DEF IInv

\* The layers a build that ends leaves in its project.
LEMMA BuiltRow ==
  ASSUME IInv, NEW t \in Builds
  PROVE  /\ t \in tasks /\ t.of \in Object /\ projects[t.of] \in Project /\ Placed(t.of)
         /\ projects[t.of].path \in Path /\ Home(t.of) = FolderOf[projects[t.of].path]
         /\ Built(t) \in Row /\ RowWithin(Built(t), Home(t.of))
<1>1. t \in tasks /\ t.kind \in {"import", "reindex"} /\ t \in TaskRecord /\ Aimed(t)
  BY DEF Builds, IInv, TypeOK, TasksAimed
<1>2. t.of \in Object /\ t.dest \in Store /\ t.dest.dir = t.home
  BY <1>1 DEF TaskRecord, Aimed
<1>3. Placed(t.of)
  BY <1>1, <1>2 DEF HeldBy, IInv, ProjectsPlaced
<1>4. projects[t.of] \in Project
  BY <1>2 DEF IInv, TypeOK
<1>5. Built(t) \in Row
  BY <1>2 DEF Built, NoRow, Row
<1>6. RowWithin(Built(t), Home(t.of))
  BY <1>2 DEF Built, NoRow, RowWithin, In
<1> QED BY <1>1, <1>2, <1>3, <1>4, <1>5, <1>6 DEF Placed, Home

LEMMA CompletesStep ==
  ASSUME IInv, NEW t \in tasks, NEW ok \in BOOLEAN, Completes(t, ok)
  PROVE  IInv'
<1> DEFINE o == t.of
           rows == projects[o].layers
           still == rows[t.layer].known
           good == t.state = "written" /\ t.dest \in files
           ends == tasks \ {t}
           filled == [l \in Layer |-> IF l \in Targets(t) THEN Built(t) ELSE rows[l]]
           dropped == [rows EXCEPT ![t.layer] = NoRow]
           became == IF still /\ good THEN filled
                     ELSE IF still /\ t.kind = "import" THEN dropped
                     ELSE rows
           emits == {l \in Layer : rows[l].known # became[l].known} # {}
<1>1. /\ o \in Object /\ projects[o] \in Project /\ Placed(o) /\ projects[o].path \in Path
      /\ Home(o) = FolderOf[projects[o].path]
      /\ Built(t) \in Row /\ RowWithin(Built(t), Home(o))
  BY BuiltRow DEF Completes
<1>2. rows \in [Layer -> Row] /\ Within(rows, Home(o))
  BY <1>1 DEF Project, Placed
<1>3. filled \in [Layer -> Row] /\ Within(filled, Home(o))
  BY <1>1, <1>2 DEF Within
<1>4. dropped \in [Layer -> Row] /\ Within(dropped, Home(o))
  BY <1>2, NewRows, PutRow
<1>5. became \in [Layer -> Row] /\ Within(became, Home(o))
  <2> HIDE DEF filled, dropped, still, good, rows
  <2> QED BY <1>2, <1>3, <1>4
<1>6. /\ IF still /\ good THEN Tries(ok) /\ Save(o, became, ok)
         ELSE ok /\ Free /\ UNCHANGED manifests
      /\ tasks' = ends
      /\ projects' = Kept(WithRows(o, became), ends)
      /\ dirty' = (dirty \/ (o = open /\ emits))
      /\ owed' = IF still /\ good /\ Opened /\ projects[o].path = projects[open].path
                 THEN o # open \/ ~ok ELSE owed
      /\ open' = open /\ files' = files /\ imported' = imported
  BY DEF Completes
<1>7. dirty' \in BOOLEAN /\ owed' \in BOOLEAN
  <2> HIDE DEF emits, still, good
  <2> QED BY <1>6 DEF IInv, TypeOK
<1> HIDE DEF became, rows, still, good, emits, filled, dropped
<1>8. /\ WithRows(o, became) \in [Object -> Project]
      /\ \A q \in Object : /\ WithRows(o, became)[q].path = projects[q].path
                           /\ WithRows(o, became)[q].layers = IF q = o THEN became ELSE projects[q].layers
  <2> HIDE DEF o
  <2> QED BY <1>1, <1>5, WithRowsFacts DEF IInv
<1>9. projects' \in [Object -> Project]
  BY <1>6, <1>8, BlankProject DEF Kept
<1>10. \A q \in Object : q = open \/ HeldBy(ends, q) => projects'[q] = WithRows(o, became)[q]
  BY <1>6 DEF Kept
<1>11. manifests' \in [Path -> [Layer -> Row] \cup {NoManifest}] /\ ManifestsPlaced'
  <2>1. Save(o, became, ok) \/ UNCHANGED manifests
    BY <1>6
  <2>2. TypeOK /\ ManifestsPlaced
    BY DEF IInv
  <2> HIDE DEF o
  <2> QED BY <1>1, <1>5, <2>1, <2>2, Saves
<1>12. ProjectsPlaced'
  <2> SUFFICES ASSUME NEW q \in Object, q = open \/ HeldBy(ends, q)
               PROVE  Placed(q)'
    BY <1>6 DEF ProjectsPlaced
  <2>1. Placed(q)
    BY DEF HeldBy, IInv, ProjectsPlaced
  <2>2. /\ projects'[q].path = projects[q].path
        /\ projects'[q].layers = IF q = o THEN became ELSE projects[q].layers
    BY <1>8, <1>10
  <2> QED BY <1>1, <1>5, <2>1, <2>2 DEF Placed
<1>13. TypeOK' /\ TasksAimed'
  BY <1>6, <1>7, <1>9, <1>11 DEF IInv, TypeOK, TasksAimed, Aimed
<1> QED BY <1>11, <1>12, <1>13 DEF IInv

LEMMA DeliversStep ==
  ASSUME IInv, NEW t \in tasks, NEW ok \in BOOLEAN, Delivers(t, ok)
  PROVE  IInv'
<1> DEFINE new == Processed(Rows[t.layer], t)
           rows == [Rows EXCEPT ![t.layer] = new]
<1>1. t \in TaskRecord /\ Aimed(t)
  BY DEF IInv, TypeOK, TasksAimed
<1>2. /\ open' = open /\ files' = files /\ imported' = imported
      /\ tasks' = tasks \ {t}
      /\ \/ Opened /\ Edited(rows, ok)
         \/ UNCHANGED <<projects, dirty, manifests, owed>>
  BY DEF Delivers
<1>3. CASE UNCHANGED <<projects, dirty, manifests, owed>>
  <2>1. TypeOK' /\ ManifestsPlaced' /\ TasksAimed'
    BY <1>2, <1>3 DEF IInv, TypeOK, ManifestsPlaced, TasksAimed, Aimed
  <2>2. ProjectsPlaced'
    BY <1>2, <1>3 DEF IInv, ProjectsPlaced, Placed, HeldBy
  <2> QED BY <2>1, <2>2 DEF IInv
<1>4. CASE Opened /\ Edited(rows, ok)
  <2>1. Rows \in [Layer -> Row] /\ Within(Rows, Home(open))
    BY <1>4, TheOpenProject
  <2>2. /\ t.layer \in Layer /\ t.dest \in Store /\ t.stray \in BOOLEAN
        /\ t.live \in BOOLEAN /\ (t.stray \/ t.dest.dir = t.home)
    BY <1>1 DEF TaskRecord, Aimed
  <2>3. Rows[t.layer] \in Row /\ RowWithin(Rows[t.layer], Home(open))
    BY <2>1, <2>2 DEF Within
  <2>4. new \in Row
    BY <2>2, <2>3 DEF Processed, Row
  <2>5. RowWithin(new, Home(open))
    BY <2>2, <2>3 DEF Processed, RowWithin, In
  <2> HIDE DEF new
  <2>6. rows \in [Layer -> Row] /\ Within(rows, Home(open))
    BY <2>1, <2>4, <2>5, PutRow
  <2>7. Edited(rows, ok) /\ UNCHANGED <<open, files, imported>> /\ tasks' \subseteq tasks
    BY <1>2, <1>4
  <2> HIDE DEF rows
  <2> QED BY <1>4, <2>6, <2>7, EditedFacts
<1> QED BY <1>2, <1>3, <1>4

LEMMA RescannedRow ==
  ASSUME IInv, NEW o \in Object, NEW l \in Layer, Rescanned(o, l)
  PROVE  /\ Placed(o) /\ projects[o].layers \in [Layer -> Row]
         /\ [projects[o].layers EXCEPT ![l].indexed = TRUE] \in [Layer -> Row]
         /\ Within([projects[o].layers EXCEPT ![l].indexed = TRUE], FolderOf[projects[o].path])
         /\ projects' \in [Object -> Project]
         /\ \A q \in Object : /\ projects'[q].path = projects[q].path
                              /\ projects'[q].temp = projects[q].temp
                              /\ projects'[q].layers = IF q = o THEN [projects[o].layers EXCEPT ![l].indexed = TRUE]
                                                       ELSE projects[q].layers
         /\ UNCHANGED <<open, dirty, manifests, files, tasks, imported, owed>>
<1> DEFINE found == [projects[o].layers EXCEPT ![l].indexed = TRUE]
<1>1. Placed(o) /\ projects[o] \in Project
  BY DEF Rescanned, IInv, TypeOK, ProjectsPlaced
<1>2. projects[o].layers \in [Layer -> Row] /\ Within(projects[o].layers, FolderOf[projects[o].path])
  BY <1>1 DEF Project, Placed
<1>3. found \in [Layer -> Row] /\ Within(found, FolderOf[projects[o].path])
  BY <1>2 DEF Row, Within, RowWithin
<1>4. projects' = WithRows(o, found) /\ UNCHANGED <<open, dirty, manifests, files, tasks, imported, owed>>
  BY DEF Rescanned
<1> HIDE DEF found
<1>5. /\ projects' \in [Object -> Project]
      /\ \A q \in Object : /\ projects'[q].path = projects[q].path
                           /\ projects'[q].temp = projects[q].temp
                           /\ projects'[q].layers = IF q = o THEN found ELSE projects[q].layers
  BY <1>3, <1>4, WithRowsFacts DEF IInv
<1> QED BY <1>1, <1>2, <1>3, <1>4, <1>5 DEF found

LEMMA RescannedStep ==
  ASSUME IInv, NEW o \in Object, NEW l \in Layer, Rescanned(o, l)
  PROVE  IInv'
<1>1. TypeOK' /\ ManifestsPlaced' /\ TasksAimed'
  BY RescannedRow DEF IInv, TypeOK, ManifestsPlaced, TasksAimed, Aimed
<1>2. ProjectsPlaced'
  <2> SUFFICES ASSUME NEW q \in Object, q = open \/ HeldBy(tasks, q) PROVE Placed(q)'
    BY RescannedRow DEF ProjectsPlaced
  <2>1. Placed(q)
    BY DEF IInv, ProjectsPlaced
  <2>2. /\ projects'[q].path = projects[q].path
        /\ Within(projects'[q].layers, FolderOf[projects[q].path])
    BY <2>1, RescannedRow DEF Placed
  <2> QED BY <2>1, <2>2 DEF Placed
<1> QED BY <1>1, <1>2 DEF IInv

LEMMA StutterStep == IInv /\ UNCHANGED vars => IInv'
<1> SUFFICES ASSUME IInv, UNCHANGED vars PROVE IInv'
  OBVIOUS
<1>1. /\ projects' = projects /\ open' = open /\ dirty' = dirty /\ manifests' = manifests
      /\ files' = files /\ tasks' = tasks /\ imported' = imported /\ owed' = owed
  BY DEF vars
<1>2. TypeOK' /\ ManifestsPlaced' /\ TasksAimed'
  BY <1>1 DEF IInv, TypeOK, ManifestsPlaced, TasksAimed, Aimed
<1>3. ProjectsPlaced'
  BY <1>1 DEF IInv, ProjectsPlaced, Placed, HeldBy
<1> QED BY <1>2, <1>3 DEF IInv

-----------------------------------------------------------------------------
LEMMA NextStep == IInv /\ [Next]_vars => IInv'
<1> SUFFICES ASSUME IInv, [Next]_vars PROVE IInv'
  OBVIOUS
<1>1. CASE \E p \in Path : Create(p) \/ Adopt(p) \/ \E stale \in SUBSET files : Load(p, stale)
  BY <1>1, CreateStep, AdoptStep, LoadStep
<1>2. CASE Opened /\ OnProject
  <2>1. CASE Close
    BY <2>1, CloseStep
  <2>2. CASE \E gone, emptied \in BOOLEAN : Delete(gone, emptied)
    BY <2>2, DeleteStep
  <2>3. CASE \E ok \in BOOLEAN : SaveProject(ok)
    BY <1>2, <2>3, SaveStep
  <2>4. CASE \E ok \in BOOLEAN : \E p \in Path \ Sessions : SaveAs(p, ok)
    BY <1>2, <2>4, SaveAsStep
  <2>5. CASE \E ok \in BOOLEAN : \E l \in Layer : Revert(l, ok)
    BY <1>2, <2>5, RevertStep
  <2>6. CASE \E p \in Path \ Sessions, how \in {"works", "undone", "stuck"} : Rename(p, how)
    BY <1>2, <2>6, RenameStep
  <2>7. CASE \E s \in Source : ImportFile(s)
    BY <1>2, <2>7, ImportStep
  <2>8. CASE \E l \in Layer : ReindexLayer(l) \/ Process("bake", l) \/ Process("run", l) \/ RemoveLayer(l)
    BY <1>2, <2>8, ReindexStep, ProcessStep, RemoveStep
  <2> QED BY <1>2, <2>1, <2>2, <2>3, <2>4, <2>5, <2>6, <2>7, <2>8 DEF OnProject
<1>3. CASE \E t \in tasks, ok \in BOOLEAN : Writes(t, ok) \/ Completes(t, ok) \/ Delivers(t, ok)
  BY <1>3, WritesStep, CompletesStep, DeliversStep
<1>4. CASE Restart
  BY <1>4, RestartStep
<1>5. CASE \E o \in Object, l \in Layer : Rescanned(o, l)
  BY <1>5, RescannedStep
<1>6. CASE UNCHANGED vars
  BY <1>6, StutterStep
<1> QED BY <1>1, <1>2, <1>3, <1>4, <1>5, <1>6 DEF Next

LEMMA PlacedIsContained == IInv => SelfContained
<1> SUFFICES ASSUME IInv PROVE SelfContained
  OBVIOUS
<1>1. \A p \in Saved : Within(manifests[p], FolderOf[p])
  BY DEF IInv, ManifestsPlaced, Saved
<1>2. Opened => Within(Rows, Home(open))
  BY TheOpenProject
<1> QED BY <1>1, <1>2 DEF SelfContained

\* No project names a store outside its own folder, except in layers it lost to a move:
\* Project::saveAs and renameOnDisk, the saves of edits, the handlers of builds, bakes and
\* graph runs that began elsewhere, and the purge at start all keep it so, whichever of
\* their file operations fail.
THEOREM ProjectsAreSelfContained == Spec => []SelfContained
<1>1. Init => IInv
  BY InitPlaced
<1>2. IInv /\ [Next]_vars => IInv'
  BY NextStep
<1>3. IInv => SelfContained
  BY PlacedIsContained
<1> QED BY <1>1, <1>2, <1>3, PTL DEF Spec

-----------------------------------------------------------------------------
(* What is clean is saved.  With types and paths in place this is          *)
(* inductive: every step that changes the open project's layers, or the    *)
(* manifest under its path, saves them, marks it dirty, or owes a save.    *)

LEMMA CleanTurn ==
  ASSUME TypeOK, NEW o \in Object \cup {NoObject}, NEW project \in Project, TurnTo(o, project),
         o \in Object /\ ~owed' => /\ project.path \in Path
                                   /\ IF manifests'[project.path] # NoManifest
                                      THEN Named(manifests'[project.path]) = Named(project.layers)
                                      ELSE project.layers = NoRows
  PROVE  CleanIsSaved'
<1>1. open' = o /\ (o \in Object => projects'[o] = project)
  BY TurnToFacts
<1>2. CASE o = NoObject
  BY <1>1, <1>2 DEF CleanIsSaved, Opened
<1>3. CASE o \in Object
  BY <1>1, <1>3 DEF CleanIsSaved, Saved, Rows
<1> QED BY <1>2, <1>3

\* Nothing that the property speaks of changes.
LEMMA CleanStill ==
  ASSUME CleanIsSaved, UNCHANGED <<projects, open, dirty, manifests, owed>>
  PROVE  CleanIsSaved'
BY DEF CleanIsSaved, Opened, Saved, Rows

\* The open project is saved as it is.
LEMMA CleanSaved ==
  ASSUME open' = open, NEW p \in Path, NEW rows \in [Layer -> Row], manifests'[p] = rows,
         Opened => projects'[open].path = p /\ projects'[open].layers = rows
  PROVE  CleanIsSaved'
BY NoManifestAssumption DEF CleanIsSaved, Opened, Saved, Rows

LEMMA CleanTurns ==
  ASSUME IInv, NEW p \in Path, Create(p) \/ Adopt(p) \/ \E stale \in SUBSET files : Load(p, stale)
  PROVE  CleanIsSaved'
<1>1. CASE Create(p)
  <2>1. Spare \in Object
    BY <1>1, IdleHolds, SpareObject, FilesAssumption DEF Create, Unused
  <2>2. NewProject(p, FALSE) \in Project /\ NewProject(p, FALSE).path = p
        /\ NewProject(p, FALSE).layers = NoRows
    BY FreshProject DEF NewProject
  <2>3. TurnTo(Spare, NewProject(p, FALSE)) /\ manifests'[p] = NoManifest /\ TypeOK
    BY <1>1 DEF Create, IInv
  <2> QED BY <2>1, <2>2, <2>3, CleanTurn
<1>2. CASE Adopt(p)
  <2> DEFINE temp == p \in Sessions
  <2>1. Spare \in Object
    BY <1>2, SpareObject DEF Adopt
  <2>2. TurnTo(Spare, NewProject(p, temp)) /\ manifests'[p] = NoManifest /\ TypeOK
    BY <1>2 DEF Adopt, IInv
  <2>3. temp \in BOOLEAN
    OBVIOUS
  <2> HIDE DEF temp
  <2>4. NewProject(p, temp) \in Project /\ NewProject(p, temp).path = p
        /\ NewProject(p, temp).layers = NoRows
    BY <2>3, FreshProject DEF NewProject
  <2> QED BY <2>1, <2>2, <2>4, CleanTurn
<1>3. ASSUME NEW stale, Load(p, stale) PROVE CleanIsSaved'
  <2> DEFINE rows == [l \in Layer |-> Readable(manifests[p][l], stale)]
             project == [NewProject(p, FALSE) EXCEPT !.layers = rows]
  <2>1. Spare \in Object
    BY <1>3, IdleHolds, SpareObject, FilesAssumption DEF Load, Unused
  <2>2. TurnTo(Spare, project) /\ owed' = (Named(rows) # Named(manifests[p])) /\ manifests' = manifests
        /\ manifests[p] # NoManifest /\ TypeOK
    BY <1>3 DEF Load, IInv
  <2>3. manifests[p] \in [Layer -> Row] /\ Within(manifests[p], FolderOf[p])
    BY <2>2 DEF IInv, TypeOK, ManifestsPlaced
  <2>4. rows \in [Layer -> Row]
    <3>1. \A l \in Layer : manifests[p][l] \in Row /\ RowWithin(manifests[p][l], FolderOf[p])
      BY <2>3 DEF Within
    <3>2. \A l \in Layer : Readable(manifests[p][l], stale) \in Row
      BY <3>1, ReadableRow
    <3> QED BY <3>2
  <2>5. project \in Project /\ project.path = p /\ project.layers = rows
    <3> HIDE DEF rows
    <3> QED BY <2>4 DEF NewProject, Project
  <2> HIDE DEF project, rows
  <2> QED BY <2>1, <2>2, <2>5, CleanTurn
<1> QED BY <1>1, <1>2, <1>3

LEMMA CleanLeaves ==
  ASSUME IInv, Close \/ Restart \/ \E gone, emptied \in BOOLEAN : Delete(gone, emptied)
  PROVE  CleanIsSaved'
<1>1. open' = NoObject
  BY DEF Close, Restart, Delete, TurnTo
<1> QED BY <1>1 DEF CleanIsSaved, Opened

LEMMA CleanEdited ==
  ASSUME IInv, Opened, NEW rows \in [Layer -> Row], NEW ok \in BOOLEAN, Edited(rows, ok),
         open' = open
  PROVE  CleanIsSaved'
<1>1. open \in Object /\ projects[open].path \in Path
  BY TheOpenProject
<1>2. /\ projects'[open].path = projects[open].path /\ projects'[open].layers = rows
      /\ projects'[open].temp = projects[open].temp
  BY <1>1, WithRowsFacts DEF Edited, IInv
<1>3. CASE dirty' \/ projects'[open].temp
  BY <1>3 DEF CleanIsSaved
<1>4. CASE ~ (dirty' \/ projects'[open].temp)
  <2>1. Save(open, rows, ok) /\ ok
    BY <1>2, <1>4 DEF Edited
  <2>2. manifests'[projects[open].path] = rows
    BY <1>1, <2>1 DEF Save, IInv, TypeOK
  <2> QED BY <1>1, <1>2, <2>2, CleanSaved
<1> QED BY <1>3, <1>4

LEMMA CleanSaves ==
  ASSUME IInv, CleanIsSaved, Opened, NEW ok \in BOOLEAN,
         SaveProject(ok) \/ \E p \in Path : SaveAs(p, ok)
  PROVE  CleanIsSaved'
<1>1. /\ open \in Object /\ projects[open].path \in Path /\ Rows \in [Layer -> Row]
      /\ Home(open) \in Folder /\ Within(Rows, Home(open))
  BY TheOpenProject
<1>2. CASE SaveProject(ok)
  <2>1. Save(open, Rows, ok) /\ UNCHANGED <<projects, open>>
        /\ dirty' = (dirty /\ ~ok) /\ owed' = (owed /\ ~ok)
    BY <1>2 DEF SaveProject
  <2>2. CASE ok
    <3>1. manifests'[projects[open].path] = Rows
      BY <1>1, <2>1, <2>2 DEF Save, IInv, TypeOK
    <3> QED BY <3>1, <1>1, <2>1, CleanSaved DEF Rows
  <2>3. CASE ~ok
    <3>1. UNCHANGED <<projects, open, dirty, manifests, owed>>
      BY <2>1, <2>3 DEF Save, IInv, TypeOK
    <3> QED BY <3>1, CleanStill
  <2> QED BY <2>2, <2>3
<1>3. ASSUME NEW p \in Path, SaveAs(p, ok) PROVE CleanIsSaved'
  <2> DEFINE rows == [l \in Layer |-> RelocatedRow(Rows[l], Home(open), FolderOf[p])]
             moved == [path |-> p, temp |-> FALSE, layers |-> rows]
  <2>1. open' = open
    BY <1>3 DEF SaveAs
  <2>2. \/ UNCHANGED <<projects, dirty, manifests, owed>>
        \/ /\ projects' = [projects EXCEPT ![open] = moved]
           /\ manifests' = [manifests EXCEPT ![p] = rows]
    BY <1>3 DEF SaveAs
  <2>3. rows \in [Layer -> Row]
    <3>1. \A l \in Layer : Rows[l] \in Row /\ RowWithin(Rows[l], Home(open))
      BY <1>1 DEF Within
    <3>2. FolderOf[p] \in Folder /\ files \subseteq Store
      BY FilesAssumption DEF IInv, TypeOK
    <3>3. \A l \in Layer : RelocatedRow(Rows[l], Home(open), FolderOf[p]) \in Row
      BY <1>1, <3>1, <3>2, RelocatedRows
    <3> QED BY <3>3
  <2> HIDE DEF rows
  <2>4. CASE /\ projects' = [projects EXCEPT ![open] = moved]
             /\ manifests' = [manifests EXCEPT ![p] = rows]
    <3>1. manifests'[p] = rows /\ projects'[open] = moved
      BY <1>1, <2>4 DEF IInv, TypeOK
    <3> QED BY <3>1, <2>1, <2>3, CleanSaved
  <2> QED BY <2>1, <2>2, <2>4, CleanStill
<1> QED BY <1>2, <1>3

LEMMA CleanRename ==
  ASSUME IInv, CleanIsSaved, Opened, NEW p \in Path, NEW how, Rename(p, how)
  PROVE  CleanIsSaved'
<1>1. /\ open \in Object /\ projects[open].path \in Path /\ Rows \in [Layer -> Row]
      /\ projects[open] \in Project
  BY TheOpenProject
<1>2. open' = open /\ p # projects[open].path
  BY DEF Rename
<1>3. CASE dirty' = TRUE
  BY <1>3 DEF CleanIsSaved
<1>4. CASE /\ manifests' = [manifests EXCEPT ![p] = Rows, ![projects[open].path] = NoManifest]
           /\ projects' = [projects EXCEPT ![open].path = p]
  <2>1. manifests'[p] = Rows
    BY <1>1, <1>2, <1>4 DEF IInv, TypeOK
  <2>2. projects'[open].path = p /\ projects'[open].layers = Rows
    BY <1>1, <1>4 DEF IInv, TypeOK, Project, Rows
  <2> QED BY <1>1, <1>2, <2>1, <2>2, CleanSaved
<1> QED BY <1>3, <1>4 DEF Rename

LEMMA CleanCompletes ==
  ASSUME IInv, CleanIsSaved, NEW t \in tasks, NEW ok \in BOOLEAN, Completes(t, ok)
  PROVE  CleanIsSaved'
<1> DEFINE rows == projects[t.of].layers
           still == rows[t.layer].known
           good == t.state = "written" /\ t.dest \in files
           filled == [l \in Layer |-> IF l \in Targets(t) THEN Built(t) ELSE rows[l]]
           dropped == [rows EXCEPT ![t.layer] = NoRow]
           became == IF still /\ good THEN filled
                     ELSE IF still /\ t.kind = "import" THEN dropped
                     ELSE rows
           emits == {l \in Layer : rows[l].known # became[l].known} # {}
<1> PICK o : o = t.of
  OBVIOUS
<1>1. /\ o \in Object /\ projects[o] \in Project /\ Placed(o) /\ projects[o].path \in Path
      /\ Built(t) \in Row /\ t.layer \in Layer
  BY BuiltRow DEF Completes, IInv, TypeOK, TaskRecord
<1>2. rows \in [Layer -> Row]
  BY <1>1 DEF Project
<1>3. /\ IF still /\ good THEN Save(o, became, ok) ELSE UNCHANGED manifests
      /\ projects' = Kept(WithRows(o, became), tasks \ {t})
      /\ dirty' = (dirty \/ (o = open /\ emits))
      /\ owed' = IF still /\ good /\ Opened /\ projects[o].path = projects[open].path
                 THEN o # open \/ ~ok ELSE owed
      /\ open' = open
  BY DEF Completes
<1>4. became \in [Layer -> Row]
  <2>1. filled \in [Layer -> Row] /\ dropped \in [Layer -> Row]
    BY <1>1, <1>2, NewRows
  <2> HIDE DEF filled, dropped, still, good, rows
  <2> QED BY <1>2, <2>1
<1>5. ~ (still /\ good) /\ became # rows => emits
  <2>1. CASE became = dropped /\ still
    <3>1. rows[t.layer].known # became[t.layer].known
      <4>1. became[t.layer] = NoRow
        BY <1>1, <1>2, <2>1
      <4>2. rows[t.layer].known \in BOOLEAN
        BY <1>1, <1>2 DEF Row
      <4>3. rows[t.layer].known = TRUE
        BY <4>2, <2>1
      <4>4. became[t.layer].known = FALSE
        BY <4>1 DEF NoRow
      <4> HIDE DEF rows, became
      <4> QED BY <4>3, <4>4
    <3> HIDE DEF rows, became
    <3> QED BY <3>1, <1>1
  <2> QED BY <2>1
<1> HIDE DEF became, emits, rows
<1>6. /\ WithRows(o, became) \in [Object -> Project]
      /\ \A q \in Object : /\ WithRows(o, became)[q].path = projects[q].path
                           /\ WithRows(o, became)[q].temp = projects[q].temp
                           /\ WithRows(o, became)[q].layers = IF q = o THEN became ELSE projects[q].layers
  BY <1>1, <1>4, WithRowsFacts DEF IInv
<1>7. SUFFICES ASSUME Opened, ~ dirty', ~ owed', ~ projects'[open].temp PROVE CleanIsSaved'
  BY <1>3 DEF CleanIsSaved, Opened
<1>8. /\ open \in Object /\ projects[open].path \in Path
      /\ projects'[open].path = projects[open].path
      /\ projects'[open].temp = projects[open].temp
      /\ projects'[open].layers = IF open = o THEN became ELSE Rows
  BY <1>3, <1>6, <1>7, TheOpenProject DEF Kept, Rows
<1>9. CASE still /\ good /\ projects[o].path = projects[open].path
  <2>1. o = open /\ ok /\ Save(o, became, ok)
    BY <1>3, <1>7, <1>9
  <2>2. manifests'[projects[o].path] = became
    BY <1>1, <2>1 DEF Save, IInv, TypeOK
  <2> QED BY <1>1, <1>3, <1>4, <1>8, <2>1, <2>2, CleanSaved
<1>10. CASE ~ (still /\ good /\ projects[o].path = projects[open].path)
  <2>1. manifests'[projects[open].path] = manifests[projects[open].path]
    BY <1>1, <1>3, <1>8, <1>10 DEF Save, IInv, TypeOK
  <2>2. ~ dirty /\ ~ owed /\ ~ projects[open].temp
    BY <1>3, <1>7, <1>8, <1>10
  <2>3. projects'[open].layers = Rows
    <3>1. CASE open = o
      <4>1. ~ (still /\ good) /\ ~ emits
        BY <1>3, <1>7, <1>10, <3>1
      <4>2. became = rows
        BY <4>1, <1>5
      <4> QED BY <4>2, <1>8, <3>1 DEF rows, Rows
    <3> QED BY <3>1, <1>8
  <2> QED BY <1>3, <1>7, <1>8, <2>1, <2>2, <2>3 DEF CleanIsSaved, Saved, Rows
<1> QED BY <1>9, <1>10

LEMMA CleanDelivers ==
  ASSUME IInv, CleanIsSaved, NEW t \in tasks, NEW ok \in BOOLEAN, Delivers(t, ok)
  PROVE  CleanIsSaved'
<1> DEFINE new == Processed(Rows[t.layer], t)
           rows == [Rows EXCEPT ![t.layer] = new]
<1>1. /\ open' = open
      /\ \/ Opened /\ Edited(rows, ok)
         \/ UNCHANGED <<projects, dirty, manifests, owed>>
  BY DEF Delivers
<1>2. CASE Opened /\ Edited(rows, ok)
  <2>1. t \in TaskRecord /\ Rows \in [Layer -> Row]
    BY <1>2, TheOpenProject DEF IInv, TypeOK
  <2>2. t.layer \in Layer /\ t.dest \in Store /\ t.stray \in BOOLEAN /\ t.live \in BOOLEAN
    BY <2>1 DEF TaskRecord
  <2>3. new \in Row
    BY <2>1, <2>2 DEF Processed, Row
  <2> HIDE DEF new
  <2>4. rows \in [Layer -> Row]
    BY <2>1, <2>2, <2>3
  <2> HIDE DEF rows
  <2> QED BY <1>1, <1>2, <2>4, CleanEdited
<1> QED BY <1>1, <1>2, CleanStill

\* A scan gives a layer its index, and no layer another name.
LEMMA CleanRescanned ==
  ASSUME IInv, CleanIsSaved, NEW o \in Object, NEW l \in Layer, Rescanned(o, l)
  PROVE  CleanIsSaved'
<1>0. CASE open # o
  <2>1. /\ UNCHANGED <<open, dirty, manifests, owed>>
        /\ Opened => /\ open \in Object /\ projects'[open].path = projects[open].path
                     /\ projects'[open].temp = projects[open].temp
                     /\ projects'[open].layers = projects[open].layers
    BY <1>0, RescannedRow DEF IInv, TypeOK, Opened
  <2> QED BY <2>1 DEF CleanIsSaved, Opened, Saved, Rows
<1>1. SUFFICES ASSUME open = o, Opened, ~dirty, ~projects[open].temp, ~owed PROVE CleanIsSaved'
  <2>1. UNCHANGED <<open, dirty, owed>> /\ projects'[o].temp = projects[o].temp
    BY RescannedRow
  <2> QED BY <1>0, <2>1 DEF CleanIsSaved, Opened
<1> DEFINE found == [Rows EXCEPT ![l].indexed = TRUE]
<1>2. /\ Rows \in [Layer -> Row] /\ Rows[l].known
      /\ projects'[open].path = projects[open].path /\ projects'[open].layers = found
      /\ UNCHANGED <<open, dirty, manifests, owed>>
  BY <1>1, RescannedRow DEF Rows, Rescanned
<1>3. Rows # NoRows
  BY <1>2 DEF NoRows, NoRow
<1>4. Named(found) = Named(Rows)
  BY <1>2 DEF Named, Row
<1> HIDE DEF found
<1> QED BY <1>1, <1>2, <1>3, <1>4 DEF CleanIsSaved, Opened, Saved, Rows

LEMMA CleanNext == IInv /\ CleanIsSaved /\ [Next]_vars => CleanIsSaved'
<1> SUFFICES ASSUME IInv, CleanIsSaved, [Next]_vars PROVE CleanIsSaved'
  OBVIOUS
<1>1. CASE Opened /\ OnProject
  <2>1. ASSUME NEW l \in Layer, NEW ok \in BOOLEAN, Revert(l, ok) PROVE CleanIsSaved'
    <3>1. Rows \in [Layer -> Row]
      BY <1>1, TheOpenProject
    <3>2. Rows[l] \in Row
      BY <3>1
    <3>3. Reverted(Rows[l]) \in Row
      BY <3>2 DEF Reverted, Row
    <3>4. [Rows EXCEPT ![l] = Reverted(Rows[l])] \in [Layer -> Row]
      BY <3>1, <3>3
    <3>5. Edited([Rows EXCEPT ![l] = Reverted(Rows[l])], ok) /\ open' = open
      BY <2>1 DEF Revert
    <3> QED BY <1>1, <3>4, <3>5, CleanEdited
  <2>2. ASSUME NEW s \in Source, ImportFile(s) PROVE CleanIsSaved'
    BY <2>2 DEF ImportFile, CleanIsSaved
  <2>3. ASSUME NEW l \in Layer, RemoveLayer(l) PROVE CleanIsSaved'
    BY <2>3 DEF RemoveLayer, CleanIsSaved
  <2>4. ASSUME NEW l \in Layer, ReindexLayer(l) \/ Process("bake", l) \/ Process("run", l)
        PROVE  CleanIsSaved'
    BY <2>4, CleanStill DEF ReindexLayer, Process
  <2>5. ASSUME NEW ok \in BOOLEAN, SaveProject(ok) \/ \E p \in Path \ Sessions : SaveAs(p, ok)
        PROVE  CleanIsSaved'
    BY <1>1, <2>5, CleanSaves
  <2>6. ASSUME NEW p \in Path, NEW how, Rename(p, how) PROVE CleanIsSaved'
    BY <1>1, <2>6, CleanRename
  <2>7. CASE Close \/ \E gone, emptied \in BOOLEAN : Delete(gone, emptied)
    BY <2>7, CleanLeaves
  <2> QED BY <1>1, <2>1, <2>2, <2>3, <2>4, <2>5, <2>6, <2>7 DEF OnProject
<1>2. ASSUME NEW t \in tasks, NEW ok \in BOOLEAN, Writes(t, ok) PROVE CleanIsSaved'
  BY <1>2, CleanStill DEF Writes
<1>3. CASE UNCHANGED vars
  BY <1>3, CleanStill DEF vars
<1> QED BY <1>1, <1>2, <1>3, CleanTurns, CleanLeaves, CleanCompletes, CleanDelivers, CleanRescanned DEF Next

\* A project that can be closed without a question is on disk as it is, or was never
\* changed: m_project_dirty and the saves of edits keep up with every change of layers,
\* except where a save is owed, which the handlers of builds and the opening of a project
\* with missing stores leave unmarked.
THEOREM WhatIsCleanIsSaved == Spec => []CleanIsSaved
<1>1. Init => CleanIsSaved
  BY DEF Init, CleanIsSaved, Opened
<1> QED BY <1>1, InitPlaced, NextStep, CleanNext, PTL DEF Spec

-----------------------------------------------------------------------------
(* What is saved is there.  The layers of the open project, and of the     *)
(* projects builds work for, name stores that exist, strays aside; so does *)
(* what a task of this session wrote.                                      *)

Whole(rows, fs) == \A l \in Layer : RowWhole(rows[l], fs)
ObjectsWhole ==
  \A o \in Object : o = open \/ HeldBy(tasks, o) => Whole(projects[o].layers, files)
TasksWritten ==
  \A t \in tasks : t.kind \in {"bake", "run"} /\ t.state = "written" /\ t.live
                     => t.stray \/ t.dest \in files
WholeInv == ObjectsWhole /\ TasksWritten

LEMMA WholeOfMore ==
  ASSUME NEW rows, NEW fs, NEW more, fs \subseteq more, Whole(rows, fs)
  PROVE  Whole(rows, more)
BY DEF Whole, RowWhole

\* Manifests that are there already, gone, or whole.
LEMMA SavesWhole ==
  ASSUME \A p \in Path : \/ manifests'[p] \in {NoManifest} \cup {manifests[q] : q \in Path}
                         \/ Whole(manifests'[p], files')
  PROVE  SavedStep
BY DEF SavedStep, Whole

LEMMA NothingSaved == ASSUME UNCHANGED manifests PROVE SavedStep
<1>1. \A p \in Path : manifests'[p] \in {NoManifest} \cup {manifests[q] : q \in Path}
  OBVIOUS
<1> QED BY <1>1, SavesWhole

\* Rows saved under one path.
LEMMA OneSaved ==
  ASSUME TypeOK, NEW p \in Path, NEW rows, Whole(rows, files'),
         manifests' = [manifests EXCEPT ![p] = rows]
  PROVE  SavedStep
<1>1. \A q \in Path : manifests'[q] = IF q = p THEN rows ELSE manifests[q]
  BY DEF TypeOK
<1> QED BY <1>1, SavesWhole

\* Only the open project changes, and stores stay.
LEMMA ObjectsStill ==
  ASSUME ObjectsWhole, open' = open, files \subseteq files',
         \A q \in Object : HeldBy(tasks', q) => q = open \/ HeldBy(tasks, q),
         \A q \in Object : q # open => projects'[q] = projects[q],
         open \in Object => Whole(projects'[open].layers, files')
  PROVE  ObjectsWhole'
<1> SUFFICES ASSUME NEW q \in Object, q = open \/ HeldBy(tasks', q)
             PROVE  Whole(projects'[q].layers, files')
  BY DEF ObjectsWhole, Whole
<1>1. CASE q = open
  BY <1>1
<1>2. CASE q # open
  <2>1. Whole(projects[q].layers, files) /\ projects'[q] = projects[q]
    BY <1>2 DEF ObjectsWhole
  <2> QED BY <2>1, WholeOfMore
<1> QED BY <1>1, <1>2

LEMMA WrittenStill ==
  ASSUME TasksWritten, files \subseteq files',
         \A t \in tasks' : t \in tasks \/ t.state = "running"
  PROVE  TasksWritten'
BY DEF TasksWritten

LEMMA OpenWhole ==
  ASSUME IInv, WholeInv, Opened
  PROVE  Whole(Rows, files) /\ Whole(projects[open].layers, files)
BY TheOpenProject DEF WholeInv, ObjectsWhole, Rows

\* The session turns to a project whose layers are whole; no store goes.
LEMMA WholeTurn ==
  ASSUME TypeOK, WholeInv, NEW o \in Object \cup {NoObject}, NEW project \in Project,
         TurnTo(o, project), o \in Object => Whole(project.layers, files),
         UNCHANGED <<files, manifests>>, tasks' = tasks \/ tasks' = Orphaned
  PROVE  WholeInv' /\ SavedStep
<1>1. /\ open' = o /\ (o \in Object => projects'[o] = project)
      /\ \A q \in Object : q # o /\ HeldBy(tasks, q) => projects'[q] = projects[q]
  BY TurnToFacts
<1>2. \A q : HeldBy(tasks', q) => HeldBy(tasks, q)
  <2>1. ASSUME NEW q, HeldBy(Orphaned, q) PROVE HeldBy(tasks, q)
    <3>1. PICK t \in Orphaned : t.kind \in {"import", "reindex"} /\ t.of = q
      BY <2>1 DEF HeldBy
    <3>2. PICK s \in tasks : t = [s EXCEPT !.live = FALSE]
      BY <3>1 DEF Orphaned
    <3>3. t.kind = s.kind /\ t.of = s.of
      BY <3>2 DEF TypeOK, TaskRecord
    <3> QED BY <3>1, <3>3 DEF HeldBy
  <2> QED BY <2>1
<1>3. ObjectsWhole'
  <2> SUFFICES ASSUME NEW q \in Object, q = o \/ HeldBy(tasks', q)
               PROVE  Whole(projects'[q].layers, files)
    BY <1>1 DEF ObjectsWhole, Whole
  <2>1. CASE q = o
    BY <1>1, <2>1
  <2>2. CASE q # o
    <3>1. HeldBy(tasks, q)
      BY <1>2, <2>2
    <3> QED BY <1>1, <2>2, <3>1 DEF WholeInv, ObjectsWhole
  <2> QED BY <2>1, <2>2
<1>4. TasksWritten'
  <2>1. CASE tasks' = tasks
    BY <2>1, WrittenStill DEF WholeInv
  <2>2. CASE tasks' = Orphaned
    <3>1. ASSUME NEW t \in Orphaned PROVE t.live = FALSE
      BY DEF Orphaned, TypeOK, TaskRecord
    <3> QED BY <2>2, <3>1 DEF TasksWritten
  <2> QED BY <2>1, <2>2
<1> QED BY <1>3, <1>4, NothingSaved DEF WholeInv

LEMMA WholeTurns ==
  ASSUME IInv, WholeInv, NEW p \in Path, Create(p) \/ Adopt(p) \/ \E stale \in SUBSET files : Load(p, stale)
  PROVE  WholeInv' /\ SavedStep
<1>0. TypeOK /\ Whole(NoRows, files)
  BY DEF IInv, Whole, RowWhole, NoRows, NoRow
<1>1. CASE Create(p)
  <2>1. Spare \in Object
    BY <1>1, IdleHolds, SpareObject, FilesAssumption DEF Create, Unused
  <2>2. NewProject(p, FALSE) \in Project /\ NewProject(p, FALSE).layers = NoRows
    BY FreshProject DEF NewProject
  <2>3. TurnTo(Spare, NewProject(p, FALSE)) /\ UNCHANGED <<files, manifests>> /\ tasks' = Orphaned
    BY <1>1 DEF Create
  <2> QED BY <1>0, <2>1, <2>2, <2>3, WholeTurn
<1>2. CASE Adopt(p)
  <2> DEFINE temp == p \in Sessions
  <2>1. Spare \in Object
    BY <1>2, SpareObject DEF Adopt
  <2>2. TurnTo(Spare, NewProject(p, temp)) /\ UNCHANGED <<files, manifests, tasks>>
    BY <1>2 DEF Adopt
  <2>3. temp \in BOOLEAN
    OBVIOUS
  <2> HIDE DEF temp
  <2>4. NewProject(p, temp) \in Project /\ NewProject(p, temp).layers = NoRows
    BY <2>3, FreshProject DEF NewProject
  <2> QED BY <1>0, <2>1, <2>2, <2>4, WholeTurn
<1>3. ASSUME NEW stale, Load(p, stale) PROVE WholeInv' /\ SavedStep
  <2> DEFINE rows == [l \in Layer |-> Readable(manifests[p][l], stale)]
             project == [NewProject(p, FALSE) EXCEPT !.layers = rows]
  <2>1. Spare \in Object
    BY <1>3, IdleHolds, SpareObject, FilesAssumption DEF Load, Unused
  <2>2. TurnTo(Spare, project) /\ UNCHANGED <<files, manifests>> /\ tasks' = Orphaned
        /\ manifests[p] # NoManifest
    BY <1>3 DEF Load
  <2>3. manifests[p] \in [Layer -> Row] /\ Within(manifests[p], FolderOf[p])
    BY <2>2 DEF IInv, TypeOK, ManifestsPlaced
  <2>4. \A l \in Layer : Readable(manifests[p][l], stale) \in Row
    <3>1. \A l \in Layer : manifests[p][l] \in Row /\ RowWithin(manifests[p][l], FolderOf[p])
      BY <2>3 DEF Within
    <3> QED BY <3>1, ReadableRow
  <2>5. Whole(rows, files)
    <3>1. \A l \in Layer : manifests[p][l] \in Row /\ RowWithin(manifests[p][l], FolderOf[p])
      BY <2>3 DEF Within
    <3> QED BY <3>1, ReadableRow DEF Whole
  <2>6. rows \in [Layer -> Row]
    BY <2>4
  <2>7. project \in Project /\ project.layers = rows
    <3> HIDE DEF rows
    <3> QED BY <2>6 DEF NewProject, Project
  <2> HIDE DEF project, rows
  <2> QED BY <1>0, <2>1, <2>2, <2>5, <2>7, WholeTurn
<1> QED BY <1>1, <1>2, <1>3

\* When stores go, no project is open, and no build holds one.
LEMMA WholeLeaves ==
  ASSUME IInv, WholeInv, Close \/ Restart \/ \E gone, emptied \in BOOLEAN : Delete(gone, emptied)
  PROVE  WholeInv' /\ SavedStep
<1>1. open' = NoObject /\ (tasks' = {} \/ (tasks' = Orphaned /\ Idle))
  BY DEF Close, Restart, Delete, TurnTo
<1>2. \A q : ~ HeldBy(tasks', q)
  BY <1>1, OrphanedFacts DEF HeldBy, IInv
<1>3. ObjectsWhole'
  BY <1>1, <1>2, FilesAssumption DEF ObjectsWhole
<1>4. TasksWritten'
  <2>1. ASSUME NEW t \in Orphaned PROVE t.live = FALSE
    BY DEF Orphaned, IInv, TypeOK, TaskRecord
  <2> QED BY <1>1, <2>1 DEF TasksWritten
<1>5. SavedStep
  <2>1. manifests \in [Path -> [Layer -> Row] \cup {NoManifest}]
    BY DEF IInv, TypeOK
  <2>2. \A p \in Path : manifests'[p] \in {NoManifest, manifests[p]}
    <3>1. CASE Close
      BY <3>1 DEF Close
    <3>2. CASE Restart
      BY <3>2, <2>1 DEF Restart
    <3>3. CASE \E gone, emptied \in BOOLEAN : Delete(gone, emptied)
      BY <3>3, <2>1 DEF Delete
    <3> QED BY <3>1, <3>2, <3>3
  <2> QED BY <2>2, SavesWhole
<1> QED BY <1>3, <1>4, <1>5 DEF WholeInv

LEMMA WholeEdited ==
  ASSUME IInv, WholeInv, Opened, NEW rows \in [Layer -> Row], Whole(rows, files),
         NEW ok \in BOOLEAN, Edited(rows, ok), UNCHANGED <<open, files>>, tasks' \subseteq tasks
  PROVE  WholeInv' /\ SavedStep
<1>1. open \in Object /\ projects[open].path \in Path
  BY TheOpenProject
<1>2. projects'[open].layers = rows
  BY <1>1, WithRowsFacts DEF Edited, IInv
<1>3. \A q \in Object : q # open => projects'[q] = projects[q]
  BY DEF Edited, WithRows, IInv, TypeOK
<1>4. ObjectsWhole'
  BY <1>2, <1>3, ObjectsStill DEF WholeInv, HeldBy
<1>5. TasksWritten'
  BY WrittenStill DEF WholeInv
<1>6. SavedStep
  <2>1. UNCHANGED manifests \/ manifests' = [manifests EXCEPT ![projects[open].path] = rows]
    BY DEF Edited, Save
  <2> QED BY <1>1, <2>1, NothingSaved, OneSaved DEF IInv
<1> QED BY <1>4, <1>5, <1>6 DEF WholeInv

\* Steps that add tasks or change the open project's layers, and save nothing.
LEMMA WholeAdds ==
  ASSUME IInv, WholeInv, Opened, NEW rows \in [Layer -> Row], Whole(rows, files),
         projects' = WithRows(open, rows) \/ projects' = projects,
         \A t \in tasks' : t \in tasks \/ (t.of = open /\ t.state = "running"),
         open' = open, manifests' = manifests, files' = files
  PROVE  WholeInv' /\ SavedStep
<1>1. open \in Object
  BY TheOpenProject
<1>2. Whole(projects'[open].layers, files)
  <2>1. CASE projects' = projects
    BY <2>1, OpenWhole
  <2>2. CASE projects' = WithRows(open, rows)
    BY <2>2, <1>1, WithRowsFacts DEF IInv
  <2> QED BY <2>1, <2>2
<1>3. \A q \in Object : q # open => projects'[q] = projects[q]
  BY DEF WithRows, IInv, TypeOK
<1>4. \A q \in Object : HeldBy(tasks', q) => q = open \/ HeldBy(tasks, q)
  BY DEF HeldBy
<1>5. ObjectsWhole'
  BY <1>2, <1>3, <1>4, ObjectsStill DEF WholeInv
<1>6. TasksWritten'
  BY WrittenStill DEF WholeInv
<1> QED BY <1>5, <1>6, NothingSaved DEF WholeInv

LEMMA WholeLayers ==
  ASSUME IInv, WholeInv, Opened,
         \/ \E s \in Source : ImportFile(s)
         \/ \E l \in Layer : ReindexLayer(l) \/ Process("bake", l) \/ Process("run", l)
                               \/ RemoveLayer(l)
  PROVE  WholeInv' /\ SavedStep
<1>0. Rows \in [Layer -> Row] /\ Whole(Rows, files)
  BY TheOpenProject, OpenWhole
<1>1. ASSUME NEW kind, NEW l, NEW dest, NEW stray
      PROVE  Task(kind, l, dest, stray).of = open /\ Task(kind, l, dest, stray).state = "running"
  BY DEF Task
<1>2. ASSUME NEW l \in Layer, NEW row \in {NoRow, Placeholder}
      PROVE  /\ [Rows EXCEPT ![l] = row] \in [Layer -> Row]
             /\ Whole([Rows EXCEPT ![l] = row], files)
  <2>1. row \in Row /\ row.active = NoStore
    <3>1. CASE row = NoRow
      BY <3>1, NewRows DEF NoRow
    <3>2. CASE row = Placeholder
      BY <3>2, NewRows DEF Placeholder, NoRow
    <3> QED BY <3>1, <3>2
  <2> QED BY <1>0, <2>1 DEF Whole, RowWhole
<1>3. ASSUME NEW s \in Source, ImportFile(s) PROVE WholeInv' /\ SavedStep
  <2> DEFINE new == Task("import", MainOf[s], Raw(Home(open), MainOf[s]), FALSE)
             rows == [Rows EXCEPT ![MainOf[s]] = Placeholder]
  <2>1. /\ projects' = WithRows(open, rows) /\ tasks' = tasks \cup {new}
        /\ open' = open /\ manifests' = manifests /\ files' = files
    BY <1>3 DEF ImportFile
  <2>2. rows \in [Layer -> Row] /\ Whole(rows, files)
    BY <1>2, FilesAssumption
  <2>3. new.of = open /\ new.state = "running"
    BY <1>1
  <2> HIDE DEF new, rows
  <2>4. \A t \in tasks' : t \in tasks \/ (t.of = open /\ t.state = "running")
    BY <2>1, <2>3
  <2> QED BY <2>1, <2>2, <2>4, WholeAdds
<1>4. ASSUME NEW l \in Layer, RemoveLayer(l) PROVE WholeInv' /\ SavedStep
  <2> DEFINE rows == [Rows EXCEPT ![l] = NoRow]
  <2>1. /\ projects' = WithRows(open, rows) /\ tasks' = tasks
        /\ open' = open /\ manifests' = manifests /\ files' = files
    BY <1>4 DEF RemoveLayer
  <2>2. rows \in [Layer -> Row] /\ Whole(rows, files)
    BY <1>2
  <2> HIDE DEF rows
  <2> QED BY <2>1, <2>2, WholeAdds
<1>5. ASSUME NEW l \in Layer, ReindexLayer(l) \/ Process("bake", l) \/ Process("run", l)
      PROVE  WholeInv' /\ SavedStep
  <2>1. /\ projects' = projects
        /\ open' = open /\ manifests' = manifests /\ files' = files
    BY <1>5 DEF ReindexLayer, Process
  <2>2. \A t \in tasks' : t \in tasks \/ (t.of = open /\ t.state = "running")
    <3>1. CASE ReindexLayer(l)
      BY <3>1 DEF ReindexLayer, Task
    <3>2. CASE Process("bake", l) \/ Process("run", l)
      BY <3>2 DEF Process, Task
    <3> QED BY <1>5, <3>1, <3>2
  <2> QED BY <1>0, <2>1, <2>2, WholeAdds
<1> QED BY <1>3, <1>4, <1>5

\* A store that exists is copied where its name goes.
LEMMA WholeSaveAs ==
  ASSUME IInv, WholeInv, Opened, NEW p \in Path, NEW ok \in BOOLEAN, SaveAs(p, ok)
  PROVE  WholeInv' /\ SavedStep
<1> DEFINE old == Home(open)
           new == FolderOf[p]
           rows == [l \in Layer |-> RelocatedRow(Rows[l], old, new)]
           copies == {Relocated(s, old, new) : s \in Actives(old) \cup Bases(old)}
           moved == [path |-> p, temp |-> FALSE, layers |-> rows]
<1>1. /\ open \in Object /\ Rows \in [Layer -> Row] /\ Whole(Rows, files)
      /\ Whole(projects[open].layers, files)
  BY TheOpenProject, OpenWhole
<1>2. /\ open' = open /\ tasks' = tasks
      /\ \/ UNCHANGED <<projects, manifests>> /\ files \subseteq files'
         \/ /\ projects' = [projects EXCEPT ![open] = moved]
            /\ manifests' = [manifests EXCEPT ![p] = rows]
            /\ files' = files \cup copies
  BY DEF SaveAs
<1>3. CASE UNCHANGED <<projects, manifests>> /\ files \subseteq files'
  <2>1. Whole(projects'[open].layers, files')
    BY <1>1, <1>3, WholeOfMore
  <2>2. ObjectsWhole'
    BY <1>2, <1>3, <2>1, ObjectsStill DEF WholeInv
  <2>3. TasksWritten'
    BY <1>2, <1>3, WrittenStill DEF WholeInv
  <2> QED BY <1>3, <2>2, <2>3, NothingSaved DEF WholeInv
<1>4. CASE /\ projects' = [projects EXCEPT ![open] = moved]
           /\ manifests' = [manifests EXCEPT ![p] = rows]
           /\ files' = files \cup copies
  <2>1. Whole(rows, files')
    <3> SUFFICES ASSUME NEW l \in Layer
                 PROVE  RowWhole(RelocatedRow(Rows[l], old, new), files')
      BY DEF Whole
    <3>1. Rows[l] \in Row /\ RowWhole(Rows[l], files)
      BY <1>1 DEF Whole
    <3>2. /\ RelocatedRow(Rows[l], old, new).active = Relocated(Rows[l].active, old, new)
          /\ RelocatedRow(Rows[l], old, new).indexed = Rows[l].indexed
          /\ RelocatedRow(Rows[l], old, new).missed = Rows[l].missed
          /\ Rows[l].stray => RelocatedRow(Rows[l], old, new).stray
      BY <3>1 DEF RelocatedRow
    <3>3. CASE Rows[l].active \in files \cup {NoStore}
      <4>1. CASE Owned(Rows[l].active, old)
        <5>1. Rows[l].active \in Actives(old)
          BY <4>1 DEF Actives
        <5>2. Relocated(Rows[l].active, old, new) \in copies
          BY <5>1
        <5> QED BY <5>2, <3>2, <1>4 DEF RowWhole
      <4>2. CASE ~ Owned(Rows[l].active, old)
        BY <3>2, <3>3, <4>2, <1>4 DEF Relocated, RowWhole
      <4> QED BY <4>1, <4>2
    <3> QED BY <3>1, <3>2, <3>3 DEF RowWhole
  <2> HIDE DEF rows
  <2>2. projects'[open].layers = rows /\ \A q \in Object : q # open => projects'[q] = projects[q]
    BY <1>1, <1>4 DEF IInv, TypeOK
  <2>3. ObjectsWhole'
    BY <1>2, <1>4, <2>1, <2>2, ObjectsStill DEF WholeInv
  <2>4. TasksWritten'
    BY <1>2, <1>4, WrittenStill DEF WholeInv
  <2>5. SavedStep
    BY <1>4, <2>1, OneSaved DEF IInv
  <2> QED BY <2>3, <2>4, <2>5 DEF WholeInv
<1> QED BY <1>2, <1>3, <1>4

LEMMA WholeSaves ==
  ASSUME IInv, WholeInv, Opened,
         (\E ok \in BOOLEAN : SaveProject(ok)) \/ \E p \in Path : \E how : Rename(p, how)
  PROVE  WholeInv' /\ SavedStep
<1>1. /\ open \in Object /\ projects[open].path \in Path /\ Whole(Rows, files)
      /\ Rows = projects[open].layers /\ projects[open] \in Project
  BY TheOpenProject, OpenWhole DEF Rows
<1>2. UNCHANGED <<open, files, tasks>>
  BY DEF SaveProject, Rename
<1>3. /\ projects'[open].layers = Rows
      /\ \A q \in Object : q # open => projects'[q] = projects[q]
  BY <1>1 DEF SaveProject, Rename, IInv, TypeOK, Project
<1>4. ObjectsWhole'
  BY <1>1, <1>2, <1>3, ObjectsStill DEF WholeInv
<1>5. TasksWritten'
  BY <1>2, WrittenStill DEF WholeInv
<1>6. SavedStep
  <2>1. ASSUME NEW ok \in BOOLEAN, SaveProject(ok) PROVE SavedStep
    <3>1. UNCHANGED manifests \/ manifests' = [manifests EXCEPT ![projects[open].path] = Rows]
      BY <2>1 DEF SaveProject, Save
    <3> QED BY <1>1, <1>2, <3>1, NothingSaved, OneSaved DEF IInv
  <2>2. ASSUME NEW p \in Path, NEW how, Rename(p, how) PROVE SavedStep
    <3> PICK old : old = projects[open].path
      OBVIOUS
    <3>1. PICK rows \in {Rows, manifests[old]} :
            \/ UNCHANGED manifests
            \/ manifests' = [manifests EXCEPT ![p] = rows, ![old] = NoManifest]
      BY <2>2 DEF Rename
    <3>2. CASE UNCHANGED manifests
      BY <3>2, NothingSaved
    <3>3. CASE manifests' = [manifests EXCEPT ![p] = rows, ![old] = NoManifest]
      <4>1. \A q \in Path : manifests'[q] \in {NoManifest, manifests[q], rows}
        BY <3>3 DEF IInv, TypeOK
      <4> QED BY <1>1, <1>2, <3>1, <4>1, SavesWhole
    <3> QED BY <3>1, <3>2, <3>3
  <2> QED BY <2>1, <2>2
<1> QED BY <1>4, <1>5, <1>6 DEF WholeInv

LEMMA WholeRevert ==
  ASSUME IInv, WholeInv, Opened, NEW l \in Layer, NEW ok \in BOOLEAN, Revert(l, ok)
  PROVE  WholeInv' /\ SavedStep
<1> DEFINE put == Reverted(Rows[l])
           rows == [Rows EXCEPT ![l] = put]
<1>1. Rows \in [Layer -> Row] /\ Whole(Rows, files)
  BY TheOpenProject, OpenWhole
<1>2. Rows[l] \in Row /\ Rows[l].base \in files
  BY <1>1 DEF Revert
<1>3. put \in Row /\ put.active = Rows[l].base
  BY <1>2 DEF Reverted, Row
<1>4. rows \in [Layer -> Row]
  BY <1>1, <1>3
<1>5. Whole(rows, files)
  <2> HIDE DEF put
  <2> QED BY <1>1, <1>2, <1>3 DEF Whole, RowWhole
<1>6. Edited(rows, ok) /\ UNCHANGED <<open, files, tasks>>
  BY DEF Revert
<1> HIDE DEF rows
<1> QED BY <1>4, <1>5, <1>6, WholeEdited

LEMMA WholeWrites ==
  ASSUME IInv, WholeInv, NEW t \in tasks, NEW ok \in BOOLEAN, Writes(t, ok)
  PROVE  WholeInv' /\ SavedStep
<1> DEFINE new == [t EXCEPT !.state = IF ok THEN "written" ELSE "failed"]
<1>1. t \in TaskRecord
  BY DEF IInv, TypeOK
<1>2. /\ new.of = t.of /\ new.kind = t.kind /\ new.dest = t.dest
      /\ new.state = IF ok THEN "written" ELSE "failed"
  BY <1>1 DEF TaskRecord
<1>3. /\ tasks' = (tasks \ {t}) \cup {new} /\ files \subseteq files'
      /\ ok => t.dest \in files'
      /\ UNCHANGED <<projects, open, manifests>>
  BY DEF Writes
<1> HIDE DEF new
<1>4. \A q \in Object : HeldBy(tasks', q) => HeldBy(tasks, q)
  BY <1>2, <1>3 DEF HeldBy
<1>5. ObjectsWhole'
  <2>1. open \in Object => Whole(projects'[open].layers, files')
    BY <1>3, WholeOfMore DEF WholeInv, ObjectsWhole
  <2> QED BY <1>3, <1>4, <2>1, ObjectsStill DEF WholeInv
<1>6. TasksWritten'
  BY <1>2, <1>3 DEF WholeInv, TasksWritten
<1> QED BY <1>3, <1>5, <1>6, NothingSaved DEF WholeInv

LEMMA WholeCompletes ==
  ASSUME IInv, WholeInv, NEW t \in tasks, NEW ok \in BOOLEAN, Completes(t, ok)
  PROVE  WholeInv' /\ SavedStep
<1> DEFINE rows == projects[t.of].layers
           still == rows[t.layer].known
           good == t.state = "written" /\ t.dest \in files
           filled == [l \in Layer |-> IF l \in Targets(t) THEN Built(t) ELSE rows[l]]
           dropped == [rows EXCEPT ![t.layer] = NoRow]
           became == IF still /\ good THEN filled
                     ELSE IF still /\ t.kind = "import" THEN dropped
                     ELSE rows
<1> PICK o : o = t.of
  OBVIOUS
<1>1. /\ o \in Object /\ projects[o] \in Project /\ projects[o].path \in Path
      /\ Built(t) \in Row /\ HeldBy(tasks, o)
  BY BuiltRow DEF Completes, HeldBy, Builds
<1>2. rows \in [Layer -> Row] /\ Whole(rows, files)
  BY <1>1 DEF Project, WholeInv, ObjectsWhole
<1>3. /\ Save(o, became, ok) \/ UNCHANGED manifests
      /\ tasks' = tasks \ {t}
      /\ projects' = Kept(WithRows(o, became), tasks \ {t})
      /\ open' = open /\ files' = files
  BY DEF Completes
<1>4. became \in [Layer -> Row] /\ Whole(became, files)
  <2>1. filled \in [Layer -> Row] /\ dropped \in [Layer -> Row]
    BY <1>1, <1>2, NewRows
  <2>2. good => Whole(filled, files)
    <3> SUFFICES ASSUME good, NEW l \in Layer
                 PROVE  RowWhole(filled[l], files)
      BY DEF Whole
    <3>1. CASE l \in Targets(t)
      BY <3>1, <1>1 DEF Built, NoRow, RowWhole
    <3>2. CASE l \notin Targets(t)
      BY <3>2, <1>2 DEF Whole
    <3> QED BY <3>1, <3>2
  <2>3. Whole(dropped, files)
    BY <1>2 DEF Whole, NoRow, RowWhole
  <2> HIDE DEF filled, dropped, still, good, rows
  <2> QED BY <1>2, <2>1, <2>2, <2>3
<1> HIDE DEF became, rows
<1>5. /\ WithRows(o, became) \in [Object -> Project]
      /\ \A q \in Object :
           WithRows(o, became)[q].layers = IF q = o THEN became ELSE projects[q].layers
  BY <1>1, <1>4, WithRowsFacts DEF IInv
<1>6. ObjectsWhole'
  <2> SUFFICES ASSUME NEW q \in Object, q = open \/ HeldBy(tasks \ {t}, q)
               PROVE  Whole(projects'[q].layers, files)
    BY <1>3 DEF ObjectsWhole, Whole
  <2>1. Whole(projects[q].layers, files)
    BY DEF HeldBy, WholeInv, ObjectsWhole
  <2>2. projects'[q].layers = IF q = o THEN became ELSE projects[q].layers
    BY <1>3, <1>5 DEF Kept
  <2> QED BY <1>4, <2>1, <2>2
<1>7. TasksWritten'
  BY <1>3, WrittenStill DEF WholeInv
<1>8. SavedStep
  <2>1. UNCHANGED manifests \/ manifests' = [manifests EXCEPT ![projects[o].path] = became]
    BY <1>3 DEF Save
  <2> QED BY <1>1, <1>3, <1>4, <2>1, NothingSaved, OneSaved DEF IInv
<1> QED BY <1>6, <1>7, <1>8 DEF WholeInv

LEMMA WholeDelivers ==
  ASSUME IInv, WholeInv, NEW t \in tasks, NEW ok \in BOOLEAN, Delivers(t, ok)
  PROVE  WholeInv' /\ SavedStep
<1> DEFINE new == Processed(Rows[t.layer], t)
           rows == [Rows EXCEPT ![t.layer] = new]
<1>1. t \in TaskRecord
  BY DEF IInv, TypeOK
<1>2. /\ t.layer \in Layer /\ t.dest \in Store /\ t.stray \in BOOLEAN /\ t.live \in BOOLEAN
      /\ t.kind \in {"bake", "run"}
  BY <1>1 DEF TaskRecord, Delivers, Builds
<1>3. /\ open' = open /\ files' = files /\ tasks' = tasks \ {t}
      /\ \/ Opened /\ Edited(rows, ok) /\ t.state = "written"
         \/ UNCHANGED <<projects, manifests>>
  BY DEF Delivers
<1>4. CASE UNCHANGED <<projects, manifests>>
  <2>1. open \in Object => Whole(projects'[open].layers, files')
    BY <1>3, <1>4 DEF WholeInv, ObjectsWhole
  <2>2. ObjectsWhole'
    BY <1>3, <1>4, <2>1, ObjectsStill DEF WholeInv, HeldBy
  <2>3. TasksWritten'
    BY <1>3, WrittenStill DEF WholeInv
  <2> QED BY <1>4, <2>2, <2>3, NothingSaved DEF WholeInv
<1>5. CASE Opened /\ Edited(rows, ok) /\ t.state = "written"
  <2>1. Rows \in [Layer -> Row] /\ Whole(Rows, files)
    BY <1>5, TheOpenProject, OpenWhole
  <2>2. Rows[t.layer] \in Row
    BY <1>2, <2>1
  <2>3. new \in Row
    BY <1>2, <2>2 DEF Processed, Row
  <2>4. RowWhole(new, files)
    <3>1. t.live => t.stray \/ t.dest \in files
      BY <1>2, <1>5 DEF WholeInv, TasksWritten
    <3> QED BY <3>1, <1>2, <2>2 DEF Processed, Row, RowWhole
  <2> HIDE DEF new
  <2>5. rows \in [Layer -> Row] /\ Whole(rows, files)
    BY <1>2, <2>1, <2>3, <2>4 DEF Whole
  <2> HIDE DEF rows
  <2> QED BY <1>3, <1>5, <2>5, WholeEdited
<1> QED BY <1>3, <1>4, <1>5

LEMMA WholeRescanned ==
  ASSUME IInv, WholeInv, NEW o \in Object, NEW l \in Layer, Rescanned(o, l)
  PROVE  WholeInv' /\ SavedStep
<1> DEFINE found == [projects[o].layers EXCEPT ![l].indexed = TRUE]
<1>1. projects[o].layers \in [Layer -> Row] /\ Whole(projects[o].layers, files)
      /\ projects[o].layers[l].active \in files
  BY RescannedRow DEF Rescanned, WholeInv, ObjectsWhole
<1>2. Whole(found, files)
  BY <1>1 DEF Whole, RowWhole, Row
<1>3. /\ \A q \in Object : projects'[q].layers = IF q = o THEN found ELSE projects[q].layers
      /\ UNCHANGED <<open, manifests, files, tasks>>
  BY RescannedRow
<1> HIDE DEF found
<1>4. ObjectsWhole' /\ TasksWritten'
  BY <1>2, <1>3 DEF WholeInv, ObjectsWhole, TasksWritten, HeldBy, Whole
<1> QED BY <1>3, <1>4, NothingSaved DEF WholeInv

LEMMA WholeStutter ==
  ASSUME WholeInv, UNCHANGED vars
  PROVE  WholeInv' /\ SavedStep
<1>1. ObjectsWhole' /\ TasksWritten'
  BY DEF vars, WholeInv, ObjectsWhole, TasksWritten, Whole, HeldBy
<1> QED BY <1>1, NothingSaved DEF vars, WholeInv

LEMMA WholeNext == IInv /\ WholeInv /\ [Next]_vars => WholeInv' /\ SavedStep
<1> SUFFICES ASSUME IInv, WholeInv, [Next]_vars PROVE WholeInv' /\ SavedStep
  OBVIOUS
<1>1. CASE Opened /\ OnProject
  <2>1. CASE Close \/ \E gone, emptied \in BOOLEAN : Delete(gone, emptied)
    BY <2>1, WholeLeaves
  <2>2. CASE \/ \E ok \in BOOLEAN : SaveProject(ok)
             \/ \E p \in Path \ Sessions, how \in {"works", "undone", "stuck"} : Rename(p, how)
    BY <1>1, <2>2, WholeSaves
  <2>3. ASSUME NEW ok \in BOOLEAN, NEW p \in Path \ Sessions, SaveAs(p, ok)
        PROVE  WholeInv' /\ SavedStep
    BY <1>1, <2>3, WholeSaveAs
  <2>4. ASSUME NEW ok \in BOOLEAN, NEW l \in Layer, Revert(l, ok)
        PROVE  WholeInv' /\ SavedStep
    BY <1>1, <2>4, WholeRevert
  <2>5. CASE \/ \E s \in Source : ImportFile(s)
             \/ \E l \in Layer : ReindexLayer(l) \/ Process("bake", l) \/ Process("run", l)
                                   \/ RemoveLayer(l)
    BY <1>1, <2>5, WholeLayers
  <2> QED BY <1>1, <2>1, <2>2, <2>3, <2>4, <2>5 DEF OnProject
<1>2. ASSUME NEW t \in tasks, NEW ok \in BOOLEAN,
             Writes(t, ok) \/ Completes(t, ok) \/ Delivers(t, ok)
      PROVE  WholeInv' /\ SavedStep
  BY <1>2, WholeWrites, WholeCompletes, WholeDelivers
<1> QED BY <1>1, <1>2, WholeTurns, WholeLeaves, WholeRescanned, WholeStutter DEF Next

LEMMA WholeInit == Init => WholeInv
BY FilesAssumption DEF Init, WholeInv, ObjectsWhole, TasksWritten, HeldBy

\* Every manifest that is written, by a save, a save-as, a rename, or the handler of a
\* build, a bake or a graph run, names stores that exist, whatever was deleted, purged or
\* failed before; strays aside, and layers that were not indexed in the manifest they
\* come from, which still are not.
THEOREM WhatIsSavedIsWhole == Spec => SavedWhole
<1> QED BY InitPlaced, NextStep, WholeInit, WholeNext, PTL DEF Spec, SavedWhole
=============================================================================
