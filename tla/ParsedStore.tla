------------------------------ MODULE ParsedStore ------------------------------
(***************************************************************************)
(* The readers of .dlpd stores beside their writers.                       *)
(* ParsedCacheReader::buildIndex takes the index from the footer; for a    *)
(* store without one it scans the records and appends a footer in place,   *)
(* by path, to the file readers have: this file has no candidate.          *)
(*                                                                         *)
(* Rebuilds of layers run one at a time (m_rebuilds_running), but probes,  *)
(* imports that find their store and sessions of viewers scan as well.     *)
(***************************************************************************)
EXTENDS StorePublish, FiniteSets

CONSTANTS
  Scanner,     \* one for each call of buildIndex
  NoIndex,     \* what a scan returns that fails
  Hole,        \* bytes nobody wrote, before bytes somebody wrote
  ReplaceOpen, \* whether a file that is open may be replaced; on Windows it may not
  Plans        \* bounds: [crashes, together (scans open at a time), legacy (old stores
               \* have no footer)]

ASSUME ParsedAssumption ==
  /\ IsFiniteSet(Scanner) /\ NoIndex \notin File
  /\ Hole \notin {Record} \cup {Entries(f) : f \in File} \cup {Trailer(f) : f \in File}
  /\ Plans \subseteq [crashes : Nat, together : Nat, legacy : BOOLEAN]

VARIABLES
  scan,   \* of every scanner: at, path, file (its handle), size (when it was opened),
          \* index (of which file), out and pos (the handle it appends with)
  plan,
  spoilt  \* history: the files two readers appended to at a time, or in whose footer
          \* the application ended

readVars == <<scan, plan, spoilt>>
allVars  == <<publishVars, readVars>>

NoScan == [at |-> "idle", path |-> Missing, file |-> Missing, size |-> 0,
           index |-> NoIndex, out |-> Missing, pos |-> 0]

ParsedInit ==
  /\ PublishInit
  /\ scan = [s \in Scanner |-> NoScan]
  /\ plan \in Plans
  /\ \A p \in Path : plan.legacy <=> Len(files[p]) = 1
  /\ spoilt = {}

-----------------------------------------------------------------------------
\* The bytes of a file.
BlockAt(f, i) == IF i <= Len(files[f]) THEN files[f][i] ELSE Hole
Put(f, i, b) ==
  files' = [files EXCEPT ![f] =
              [j \in 1..(IF i > Len(@) THEN i ELSE Len(@)) |-> IF j = i THEN b ELSE BlockAt(f, j)]]
Resize(f, n) == files' = [files EXCEPT ![f] = [j \in 1..n |-> BlockAt(f, j)]]

\* tryReadIndexFooter at the end a reader knows: the file whose index the footer is.
FooterIndex(f, size) ==
  IF \E g \in File : size > 2 /\ BlockAt(f, size) = Trailer(g) /\ BlockAt(f, size - 1) = Entries(g)
  THEN BlockAt(f, size)[2] ELSE NoIndex

\* The scan meets records only, up to the end it knows.
AllRecords(f, size) == size > 0 /\ \A i \in 1..size : BlockAt(f, i) = Record

\* What buildIndex finds in a file nobody is writing to.
IndexOf(f) ==
  IF FooterIndex(f, Len(files[f])) # NoIndex THEN FooterIndex(f, Len(files[f]))
  ELSE IF AllRecords(f, Len(files[f])) THEN f ELSE NoIndex

HasOpen(s)   == scan[s].at \in {"open", "scanned", "append", "entries"}
Appending(s) == scan[s].at \in {"append", "entries"}
Moves(s, to) == scan' = [scan EXCEPT ![s].at = to] /\ UNCHANGED <<plan, spoilt>>
Ends(s, f)   ==
  scan' = [scan EXCEPT ![s].at = "ended", ![s].index = f] /\ UNCHANGED <<plan, spoilt>>

-----------------------------------------------------------------------------
\* The store is opened, and its size is what buildIndex goes by from now on.
OpenStore(s, p) ==
  /\ scan[s].at = "idle" /\ entry[p] # Missing
  /\ Cardinality({t \in Scanner : HasOpen(t)}) < plan.together
  /\ scan' = [scan EXCEPT ![s].at = "open", ![s].path = p, ![s].file = entry[p],
                          ![s].size = Len(files[entry[p]])]
  /\ UNCHANGED <<publishVars, plan, spoilt>>

ReadFooter(s) ==
  /\ scan[s].at = "open" /\ FooterIndex(scan[s].file, scan[s].size) # NoIndex
  /\ Ends(s, FooterIndex(scan[s].file, scan[s].size))
  /\ UNCHANGED publishVars

\* A block that is no record makes the scan return an empty index.
ScanRecords(s) ==
  /\ scan[s].at = "open" /\ FooterIndex(scan[s].file, scan[s].size) = NoIndex
  /\ IF AllRecords(scan[s].file, scan[s].size)
     THEN /\ scan' = [scan EXCEPT ![s].at = "scanned", ![s].index = scan[s].file]
          /\ UNCHANGED <<plan, spoilt>>
     ELSE Ends(s, NoIndex)
  /\ UNCHANGED publishVars

\* Cancelled in the scan, which is then without a result, or after it; or the store
\* cannot be opened for writing.
CancelScan(s) == scan[s].at = "open" /\ Ends(s, NoIndex) /\ UNCHANGED publishVars
SkipFooter(s) == scan[s].at = "scanned" /\ Ends(s, scan[s].index) /\ UNCHANGED publishVars

\* The path is looked up again, and the end of what it names is where the footer goes.
\* Nothing keeps a second reader from appending to the same file meanwhile.
OpenAppend(s) ==
  /\ scan[s].at = "scanned"
  /\ scan' = [scan EXCEPT ![s].at = "append", ![s].out = entry[scan[s].path],
                          ![s].pos = Len(files[entry[scan[s].path]])]
  /\ spoilt' = spoilt \cup
       {f \in File : \E t \in Scanner : Appending(t) /\ f = scan[t].out /\ f = entry[scan[s].path]}
  /\ UNCHANGED <<publishVars, plan>>

AppendEntries(s) ==
  /\ scan[s].at = "append" /\ Moves(s, "entries")
  /\ Put(scan[s].out, scan[s].pos + 1, Entries(scan[s].index))
  /\ UNCHANGED <<entry, stage, target, total>>

AppendTrailer(s) ==
  /\ scan[s].at = "entries" /\ Ends(s, scan[s].index)
  /\ Put(scan[s].out, scan[s].pos + 2, Trailer(scan[s].index))
  /\ UNCHANGED <<entry, stage, target, total>>

\* A write, the flush or the close fails: the file the path names gets the size that
\* the reader found.
FailAppend_KeepsPart(s) ==
  /\ Appending(s) /\ Ends(s, scan[s].index)
  /\ UNCHANGED publishVars
FailAppend(s) ==
  /\ Appending(s) /\ Ends(s, scan[s].index)
  /\ Resize(entry[scan[s].path], scan[s].size)
  /\ UNCHANGED <<entry, stage, target, total>>

Scan(s) ==
  \/ \E p \in Path : OpenStore(s, p)
  \/ ReadFooter(s) \/ ScanRecords(s) \/ CancelScan(s) \/ SkipFooter(s)
  \/ OpenAppend(s) \/ AppendEntries(s) \/ AppendTrailer(s) \/ FailAppend(s)

\* A writer's step; what is open cannot be replaced.
Replaceable_Always(p) == TRUE
Replaceable(p) == ReplaceOpen \/ \A s \in Scanner : HasOpen(s) => entry[p] # scan[s].file
WriteStep(w) ==
  /\ Write(w)
  /\ entry' # entry => Replaceable(target[w])
  /\ UNCHANGED readVars

\* The application ends: writers, scans and appends stop where they are.
Crash ==
  /\ plan.crashes > 0
  /\ plan' = [plan EXCEPT !.crashes = @ - 1]
  /\ StopWriters
  /\ scan' = [s \in Scanner |-> IF HasOpen(s) THEN [scan[s] EXCEPT !.at = "ended"] ELSE scan[s]]
  /\ spoilt' = spoilt \cup {f \in File : \E s \in Scanner : scan[s].at = "entries" /\ f = scan[s].out}

ParsedNext == (\E s \in Scanner : Scan(s)) \/ (\E w \in Writer : WriteStep(w)) \/ Crash
ParsedSpec == ParsedInit /\ [][ParsedNext]_allVars

-----------------------------------------------------------------------------
(* What can go wrong.                                                      *)

\* "A failed acceleration write can never turn the durable artifact store corrupt": a
\* store that is in place, and to which no footer is being appended, can be indexed,
\* and the index is that of its own records.  Not so the one that two readers appended
\* to at a time, or in whose footer the application ended: nothing rolls that back.
FooterHarmless ==
  \A p \in Path :
    /\ entry[p] # Missing /\ entry[p] \notin spoilt
    /\ \A s \in Scanner : Appending(s) => scan[s].out # entry[p]
    => IndexOf(entry[p]) = entry[p]

\* A scan that returns an index returns the one of the store it opened, whoever
\* replaces or extends it meanwhile.
IndexIsOfTheStore ==
  \A s \in Scanner : scan[s].at = "ended" => scan[s].index \in {NoIndex, scan[s].file}
=============================================================================
