-------------------------- MODULE StorePublishProofs --------------------------
(***************************************************************************)
(* StorePublish implements AtomicStore, for any paths, any number of       *)
(* writers and any sources; with readers that scan the stores and append   *)
(* footers to them (ParsedStore) it still does, where a file that is open  *)
(* cannot be replaced.                                                     *)
(***************************************************************************)
EXTENDS ParsedStore, SequenceTheorems, TLAPS

Block == {Record, Hole} \cup {Entries(f) : f \in File} \cup {Trailer(f) : f \in File}

PublishTypes ==
  /\ entry \in [Path -> File \cup {Missing}]
  /\ files \in [File -> Seq(Block)]
  /\ stage \in [Writer -> Stage]
  /\ target \in [Writer -> Path \cup {Missing}]
  /\ total \in [Writer -> Nat]

\* What a writer has written at each stage, and what may be found at a path: a file
\* nobody writes to any more.
OfWriter(w) ==
  /\ Busy(w) => target[w] \in Path
  /\ stage[w] = "idle" => files[w] = <<>>
  /\ stage[w] = "writing" => \A i \in 1..Len(files[w]) : files[w][i] = Record
  /\ stage[w] \in {"indexed", "closed"} => WholeRecords(w, total[w])

Found(f) ==
  IF f \in Writer THEN stage[f] = "ended" /\ WholeRecords(f, total[f]) ELSE WholeRecords(f, 1)

PublishInv ==
  /\ PublishTypes
  /\ \A w \in Writer : OfWriter(w)
  /\ \A p \in Path : entry[p] # Missing => Found(entry[p])

LEMMA FooterBlocks == ASSUME NEW f \in File
                      PROVE  Footer(f) \in Seq(Block) /\ Len(Footer(f)) = 2
BY DEF Footer, Block

LEMMA OldStores ==
  ASSUME NEW p \in Path, NEW legacy \in SUBSET Path
  PROVE  /\ OldStore(p, legacy) \in Seq(Block)
         /\ Len(OldStore(p, legacy)) >= 1 /\ OldStore(p, legacy)[1] = Record
<1>1. Records(1) = <<Record>>
  BY DEF Records
<1>2. Footer(p) \in Seq(Block)
  <2>1. p \in File
    BY DEF File
  <2> QED BY <2>1, FooterBlocks
<1>3. <<>> \in Seq(Block) /\ <<Record>> \in Seq(Block)
  <2>1. Record \in Block
    BY DEF Block
  <2> HIDE DEF Block, Record
  <2> QED BY <2>1
<1>4. ASSUME NEW s \in Seq(Block)
      PROVE  /\ <<Record>> \o s \in Seq(Block)
             /\ Len(<<Record>> \o s) >= 1 /\ (<<Record>> \o s)[1] = Record
  BY <1>3, <1>4
<1> QED BY <1>1, <1>2, <1>3, <1>4 DEF OldStore

LEMMA PublishInvInit == PublishInit => PublishInv
<1> SUFFICES ASSUME PublishInit PROVE PublishInv
  OBVIOUS
<1> PICK legacy \in SUBSET Path :
      files = [f \in File |-> IF f \in Writer THEN <<>> ELSE OldStore(f, legacy)]
  BY DEF PublishInit
<1>1. \A p \in Path : p \in File /\ p \notin Writer /\ files[p] = OldStore(p, legacy)
  BY PublishAssumption DEF PublishAssumption, File
<1>2. PublishTypes
  <2>1. files \in [File -> Seq(Block)]
    BY <1>1, OldStores DEF File
  <2> QED BY <2>1 DEF PublishInit, PublishTypes, Stage, File
<1>3. \A w \in Writer : OfWriter(w)
  BY DEF PublishInit, OfWriter, Busy, File
<1>4. \A p \in Path : WholeRecords(p, 1)
  <2> SUFFICES ASSUME NEW p \in Path PROVE WholeRecords(p, 1)
    OBVIOUS
  <2>1. Len(files[p]) >= 1 /\ files[p][1] = Record
    BY <1>1, OldStores
  <2>2. \A i \in 1..1 : i = 1
    OBVIOUS
  <2> QED BY <2>1, <2>2 DEF WholeRecords
<1>5. \A p \in Path : entry[p] # Missing => Found(entry[p])
  BY <1>1, <1>4 DEF PublishInit, Found
<1> QED BY <1>2, <1>3, <1>5 DEF PublishInv

\* A writer's own steps leave the files found at the paths and those of the other
\* writers alone.
LEMMA OwnStep ==
  ASSUME PublishInv, NEW w \in Writer, stage[w] # "ended",
         NEW s \in Stage, stage' = [stage EXCEPT ![w] = s],
         NEW bs \in Seq(Block), files' = [files EXCEPT ![w] = @ \o bs],
         NEW n \in Nat, total' = [total EXCEPT ![w] = n],
         NEW t \in Path \cup {Missing}, target' = [target EXCEPT ![w] = t],
         UNCHANGED entry, OfWriter(w)'
  PROVE  PublishInv'
<1>1. files[w] \in Seq(Block) /\ files[w] \o bs \in Seq(Block)
  BY DEF PublishInv, PublishTypes, File
<1>2. PublishTypes'
  BY <1>1 DEF PublishInv, PublishTypes
<1>3. ASSUME NEW v \in Writer, v # w
      PROVE  /\ stage'[v] = stage[v] /\ files'[v] = files[v] /\ total'[v] = total[v]
             /\ target'[v] = target[v]
  BY <1>3 DEF PublishInv, PublishTypes, File
<1>4. \A v \in Writer : OfWriter(v)'
  <2> SUFFICES ASSUME NEW v \in Writer, v # w PROVE OfWriter(v)'
    OBVIOUS
  <2> QED BY <1>3 DEF PublishInv, OfWriter, Busy, WholeRecords
<1>5. ASSUME NEW p \in Path, entry[p] # Missing PROVE Found(entry[p])'
  <2>1. Found(entry[p]) /\ entry[p] # w /\ entry[p] \in File
    BY <1>5 DEF PublishInv, PublishTypes, Found
  <2>2. files'[entry[p]] = files[entry[p]]
    BY <2>1 DEF PublishInv, PublishTypes
  <2> QED BY <2>1, <2>2, <1>3 DEF Found, WholeRecords
<1> QED BY <1>2, <1>4, <1>5 DEF PublishInv

\* What a longer file holds.
LEMMA LongerFile ==
  ASSUME NEW s \in Seq(Block), NEW bs \in Seq(Block)
  PROVE  /\ Len(s \o bs) = Len(s) + Len(bs)
         /\ \A i \in 1..Len(s) : (s \o bs)[i] = s[i]
         /\ \A i \in 1..Len(bs) : (s \o bs)[Len(s) + i] = bs[i]
OBVIOUS

\* A step that writes nothing appends nothing.
LEMMA NothingAppended ==
  ASSUME PublishInv, NEW w \in Writer, UNCHANGED files
  PROVE  <<>> \in Seq(Block) /\ files' = [files EXCEPT ![w] = @ \o <<>>]
<1>1. files[w] \in Seq(Block) /\ files[w] \o <<>> = files[w]
  BY DEF PublishInv, PublishTypes, File
<1> QED BY <1>1 DEF PublishInv, PublishTypes

LEMMA StartKeeps ==
  ASSUME PublishInv, NEW w \in Writer, NEW p \in Path, NEW n \in 0..MaxRecords,
         StartWrite(w, p, n)
  PROVE  PublishInv'
<1>1. /\ stage[w] = "idle" /\ stage' = [stage EXCEPT ![w] = "writing"]
      /\ target' = [target EXCEPT ![w] = p] /\ total' = [total EXCEPT ![w] = n]
      /\ UNCHANGED <<entry, files>>
  BY DEF StartWrite, Goes
<1>2. OfWriter(w)'
  <2>1. files[w] = <<>> /\ stage'[w] = "writing" /\ target'[w] = p
    BY <1>1 DEF PublishInv, PublishTypes, OfWriter
  <2> QED BY <2>1, <1>1 DEF OfWriter, Busy
<1>3. n \in Nat
  BY PublishAssumption DEF PublishAssumption
<1> QED BY <1>1, <1>2, <1>3, NothingAppended, OwnStep DEF Stage

LEMMA RecordKeeps ==
  ASSUME PublishInv, NEW w \in Writer, WriteRecord(w)
  PROVE  PublishInv'
<1>1. /\ stage[w] = "writing" /\ stage' = [stage EXCEPT ![w] = "writing"]
      /\ files' = [files EXCEPT ![w] = @ \o <<Record>>]
      /\ UNCHANGED <<entry, target, total>>
      /\ <<Record>> \in Seq(Block)
  BY DEF WriteRecord, Goes, Writes, Block
<1>2. OfWriter(w)'
  <2>1. /\ files[w] \in Seq(Block) /\ Len(files'[w]) = Len(files[w]) + 1
        /\ \A i \in 1..Len(files[w]) : files'[w][i] = files[w][i]
        /\ files'[w][Len(files[w]) + 1] = Record
    <3> DEFINE bs == <<Record>>
    <3>1. bs \in Seq(Block) /\ files[w] \in Seq(Block) /\ files'[w] = files[w] \o bs
      BY <1>1 DEF PublishInv, PublishTypes, File
    <3>2. Len(bs) = 1 /\ bs[1] = Record /\ 1 \in 1..1
      OBVIOUS
    <3>3. /\ Len(files'[w]) = Len(files[w]) + Len(bs)
          /\ \A i \in 1..Len(files[w]) : files'[w][i] = files[w][i]
          /\ \A i \in 1..Len(bs) : files'[w][Len(files[w]) + i] = bs[i]
      <4> HIDE DEF bs
      <4> QED BY <3>1, LongerFile
    <3> HIDE DEF bs
    <3> QED BY <3>1, <3>2, <3>3
  <2>2. stage'[w] = "writing" /\ OfWriter(w)
    BY <1>1 DEF PublishInv, PublishTypes
  <2>3. \A i \in 1..Len(files'[w]) : files'[w][i] = Record
    BY <2>1, <2>2, <1>1 DEF OfWriter
  <2> QED BY <2>2, <2>3, <1>1 DEF OfWriter, Busy
<1>3. /\ total' = [total EXCEPT ![w] = total[w]] /\ target' = [target EXCEPT ![w] = target[w]]
      /\ total[w] \in Nat /\ target[w] \in Path \cup {Missing}
  BY <1>1 DEF PublishInv, PublishTypes
<1> QED BY <1>1, <1>2, <1>3, OwnStep DEF Stage

LEMMA FooterKeeps ==
  ASSUME PublishInv, NEW w \in Writer, WriteFooter(w)
  PROVE  PublishInv'
<1>1. /\ stage[w] = "writing" /\ stage' = [stage EXCEPT ![w] = "indexed"]
      /\ total[w] > 0 /\ Len(files[w]) = total[w]
      /\ files' = [files EXCEPT ![w] = @ \o Footer(w)]
      /\ UNCHANGED <<entry, target, total>>
      /\ Footer(w) \in Seq(Block) /\ Len(Footer(w)) = 2
  BY FooterBlocks DEF WriteFooter, Goes, Writes, Indexable, File
<1>2. OfWriter(w)'
  <2>1. /\ files[w] \in Seq(Block) /\ Len(files'[w]) = Len(files[w]) + 2
        /\ \A i \in 1..Len(files[w]) : files'[w][i] = files[w][i]
    <3> DEFINE bs == Footer(w)
    <3>1. bs \in Seq(Block) /\ files[w] \in Seq(Block) /\ files'[w] = files[w] \o bs
      BY <1>1 DEF PublishInv, PublishTypes, File
    <3>2. Len(bs) = 2
      BY <1>1
    <3>3. /\ Len(files'[w]) = Len(files[w]) + Len(bs)
          /\ \A i \in 1..Len(files[w]) : files'[w][i] = files[w][i]
      <4> HIDE DEF bs
      <4> QED BY <3>1, LongerFile
    <3> HIDE DEF bs
    <3> QED BY <3>1, <3>2, <3>3
  <2>2. stage'[w] = "indexed" /\ OfWriter(w)
    BY <1>1 DEF PublishInv, PublishTypes
  <2> QED BY <2>1, <2>2, <1>1 DEF OfWriter, Busy, WholeRecords
<1>3. /\ total' = [total EXCEPT ![w] = total[w]] /\ target' = [target EXCEPT ![w] = target[w]]
      /\ total[w] \in Nat /\ target[w] \in Path \cup {Missing}
  BY <1>1 DEF PublishInv, PublishTypes
<1> QED BY <1>1, <1>2, <1>3, OwnStep DEF Stage

\* Closing the candidate, and giving up.
LEMMA QuietKeeps ==
  ASSUME PublishInv, NEW w \in Writer, CloseCandidate(w) \/ FailWrite(w)
  PROVE  PublishInv'
<1>1. PICK s \in {"closed", "ended"} :
        /\ stage[w] # "ended" /\ stage' = [stage EXCEPT ![w] = s]
        /\ s = "closed" => stage[w] = "indexed"
        /\ UNCHANGED <<entry, files, target, total>>
  BY DEF CloseCandidate, FailWrite, Goes, Busy
<1>2. OfWriter(w)'
  <2>1. stage'[w] = s /\ OfWriter(w)
    BY <1>1 DEF PublishInv, PublishTypes
  <2> QED BY <2>1, <1>1 DEF OfWriter, Busy, WholeRecords
<1>3. /\ total' = [total EXCEPT ![w] = total[w]] /\ target' = [target EXCEPT ![w] = target[w]]
      /\ total[w] \in Nat /\ target[w] \in Path \cup {Missing} /\ s \in Stage
  BY <1>1 DEF PublishInv, PublishTypes, Stage
<1> QED BY <1>1, <1>2, <1>3, NothingAppended, OwnStep

LEMMA PublishKeeps ==
  ASSUME PublishInv, NEW w \in Writer, Publish(w)
  PROVE  PublishInv'
<1>1. /\ stage[w] = "closed" /\ stage' = [stage EXCEPT ![w] = "ended"]
      /\ entry' = [entry EXCEPT ![target[w]] = w]
      /\ UNCHANGED <<files, target, total>>
      /\ target[w] \in Path /\ WholeRecords(w, total[w]) /\ w \in File
  BY DEF Publish, Goes, PublishInv, OfWriter, Busy, File
<1>2. PublishTypes'
  BY <1>1 DEF PublishInv, PublishTypes, Stage
<1>3. \A v \in Writer : OfWriter(v)'
  BY <1>1 DEF PublishInv, PublishTypes, OfWriter, Busy, WholeRecords
<1>4. ASSUME NEW p \in Path, entry'[p] # Missing PROVE Found(entry[p])'
  <2>1. CASE p = target[w]
    <3>1. entry'[p] = w /\ stage'[w] = "ended"
      BY <1>1, <2>1 DEF PublishInv, PublishTypes
    <3> QED BY <3>1, <1>1 DEF Found, WholeRecords
  <2>2. CASE p # target[w]
    <3>1. entry'[p] = entry[p] /\ Found(entry[p])
      BY <1>1, <2>2, <1>4 DEF PublishInv, PublishTypes
    <3>2. CASE entry[p] \in Writer
      BY <3>1, <3>2, <1>1 DEF Found, WholeRecords, PublishInv, PublishTypes
    <3>3. CASE entry[p] \notin Writer
      BY <3>1, <3>3, <1>1 DEF Found, WholeRecords
    <3> QED BY <3>2, <3>3
  <2> QED BY <2>1, <2>2
<1> QED BY <1>2, <1>3, <1>4 DEF PublishInv

LEMMA StopKeeps == ASSUME PublishInv, StopWriters PROVE PublishInv'
<1>1. /\ stage' = [w \in Writer |-> IF Busy(w) THEN "ended" ELSE stage[w]]
      /\ UNCHANGED <<entry, files, target, total>>
  BY DEF StopWriters
<1>2. PublishTypes'
  BY <1>1 DEF PublishInv, PublishTypes, Stage
<1>3. \A v \in Writer : OfWriter(v)'
  BY <1>1 DEF PublishInv, PublishTypes, OfWriter, Busy, WholeRecords
<1>4. ASSUME NEW p \in Path, entry[p] # Missing PROVE Found(entry[p])'
  BY <1>1, <1>4 DEF PublishInv, Found, WholeRecords, Busy
<1> QED BY <1>1, <1>2, <1>3, <1>4 DEF PublishInv

LEMMA PublishInvStep == PublishInv /\ [PublishNext]_publishVars => PublishInv'
<1> SUFFICES ASSUME PublishInv, [PublishNext]_publishVars PROVE PublishInv'
  OBVIOUS
<1>1. ASSUME NEW w \in Writer, Write(w) PROVE PublishInv'
  BY <1>1, StartKeeps, RecordKeeps, FooterKeeps, QuietKeeps, PublishKeeps DEF Write
<1>2. CASE StopWriters
  BY <1>2, StopKeeps
<1>3. CASE UNCHANGED publishVars
  BY <1>3 DEF publishVars, PublishInv, PublishTypes, OfWriter, Found, Busy, WholeRecords
<1> QED BY <1>1, <1>2, <1>3 DEF PublishNext

-----------------------------------------------------------------------------
(* The refinement.                                                         *)

View == [p \in Path |-> IF entry[p] = Missing THEN Missing ELSE Content(entry[p])]
Aims == [w \in Writer |-> IF Busy(w) THEN target[w] ELSE Missing]

\* At a path is what its entry tells, for files found there are whole.
LEMMA ViewOf ==
  ASSUME PublishInv, NEW p \in Path
  PROVE  View[p] = IF entry[p] = Missing THEN Missing
                   ELSE IF entry[p] \in Writer THEN entry[p] ELSE Imported
BY DEF PublishInv, Found, View, Content

\* Content is read from the file that an entry names, and steps keep both.
LEMMA SameView ==
  ASSUME PublishInv, PublishInv', UNCHANGED entry
  PROVE  UNCHANGED View
<1>1. \A p \in Path : View'[p] = View[p]
  BY DEF PublishInv, Found, View, Content
<1> QED BY <1>1 DEF View

LEMMA InitMaps == PublishInit => Store!AtomicInit
<1> SUFFICES ASSUME PublishInit PROVE Store!AtomicInit
  OBVIOUS
<1>1. PublishInv
  BY PublishInvInit
<1>2. \A p \in Path : View[p] \in {Missing, Imported}
  <2> SUFFICES ASSUME NEW p \in Path PROVE View[p] \in {Missing, Imported}
    OBVIOUS
  <2>1. entry[p] \in {p, Missing} /\ p \notin Writer
    BY PublishAssumption DEF PublishInit, PublishAssumption
  <2> QED BY <1>1, <2>1, ViewOf
<1>3. Aims = [w \in Writer |-> Missing]
  BY DEF PublishInit, Busy, Aims
<1> QED BY <1>2, <1>3 DEF Store!AtomicInit, View, Aims

LEMMA WriteMaps ==
  ASSUME PublishInv, PublishInv', NEW w \in Writer, Write(w)
  PROVE  [Store!AtomicNext]_(Store!abstractVars)
<1>1. ASSUME NEW p \in Path, NEW n \in 0..MaxRecords, StartWrite(w, p, n)
      PROVE  Store!Begin(w, p)
  <2>1. UNCHANGED View
    BY <1>1, SameView DEF StartWrite
  <2>2. Aims[w] = Missing /\ Aims' = [Aims EXCEPT ![w] = p]
    BY <1>1 DEF StartWrite, Goes, Aims, Busy, PublishInv, PublishTypes
  <2> QED BY <2>1, <2>2 DEF Store!Begin, View, Aims
<1>2. ASSUME WriteRecord(w) \/ WriteFooter(w) \/ CloseCandidate(w)
      PROVE  UNCHANGED Store!abstractVars
  <2>1. UNCHANGED View
    BY <1>2, SameView DEF WriteRecord, WriteFooter, CloseCandidate
  <2>2. UNCHANGED Aims
    BY <1>2 DEF WriteRecord, WriteFooter, CloseCandidate, Goes, Aims, Busy, PublishInv, PublishTypes
  <2> QED BY <2>1, <2>2 DEF Store!abstractVars, View, Aims
<1>3. ASSUME Publish(w) PROVE Store!Commit(w)
  <2>1. /\ Busy(w) /\ Aims[w] = target[w] /\ target[w] \in Path /\ target[w] # Missing
        /\ entry' = [entry EXCEPT ![target[w]] = w]
    BY <1>3, PublishAssumption
       DEF Publish, Goes, Busy, Aims, PublishInv, OfWriter, PublishAssumption
  <2>2. Aims' = [Aims EXCEPT ![w] = Missing]
    BY <1>3 DEF Publish, Goes, Aims, Busy, PublishInv, PublishTypes
  <2>3. \A p \in Path : View'[p] = IF p = target[w] THEN w ELSE View[p]
    <3> SUFFICES ASSUME NEW p \in Path
                 PROVE  View'[p] = IF p = target[w] THEN w ELSE View[p]
      OBVIOUS
    <3>1. /\ View'[p] = IF entry'[p] = Missing THEN Missing
                        ELSE IF entry'[p] \in Writer THEN entry'[p] ELSE Imported
          /\ View[p] = IF entry[p] = Missing THEN Missing
                       ELSE IF entry[p] \in Writer THEN entry[p] ELSE Imported
      BY DEF PublishInv, Found, View, Content
    <3>2. entry'[p] = (IF p = target[w] THEN w ELSE entry[p]) /\ w # Missing
      BY <2>1, PublishAssumption DEF PublishInv, PublishTypes, PublishAssumption
    <3> QED BY <3>1, <3>2
  <2>4. View' = [View EXCEPT ![target[w]] = w]
    BY <2>1, <2>3 DEF View
  <2> QED BY <2>1, <2>2, <2>4 DEF Store!Commit, View, Aims
<1>4. ASSUME FailWrite(w) PROVE Store!Abort({w})
  <2>1. UNCHANGED View
    BY <1>4, SameView DEF FailWrite
  <2>2. Aims' = [v \in Writer |-> IF v \in {w} THEN Missing ELSE Aims[v]]
    BY <1>4 DEF FailWrite, Aims, Busy, PublishInv, PublishTypes
  <2> QED BY <2>1, <2>2 DEF Store!Abort, View, Aims
<1> QED BY <1>1, <1>2, <1>3, <1>4 DEF Write, Store!AtomicNext

LEMMA StepMaps ==
  PublishInv /\ PublishInv' /\ [PublishNext]_publishVars
    => [Store!AtomicNext]_(Store!abstractVars)
<1> SUFFICES ASSUME PublishInv, PublishInv', [PublishNext]_publishVars
             PROVE  [Store!AtomicNext]_(Store!abstractVars)
  OBVIOUS
<1>1. CASE StopWriters
  <2>1. UNCHANGED View
    BY <1>1, SameView DEF StopWriters
  <2>2. Aims' = [v \in Writer |-> IF v \in Writer THEN Missing ELSE Aims[v]]
    BY <1>1 DEF StopWriters, Aims, Busy
  <2>3. Store!Abort(Writer)
    BY <2>1, <2>2 DEF Store!Abort, View, Aims
  <2> QED BY <2>3 DEF Store!AtomicNext
<1>2. CASE UNCHANGED publishVars
  <2>1. UNCHANGED View /\ UNCHANGED Aims
    BY <1>2 DEF publishVars, View, Aims, Content, WholeRecords, Busy
  <2> QED BY <2>1 DEF Store!abstractVars, View, Aims
<1> QED BY <1>1, <1>2, WriteMaps DEF PublishNext

\* Publication through a candidate implements the atomic store: every step of a
\* writer, its failures and a crash change what readers find not at all, or from
\* one whole store to another.
THEOREM StoresArePublishedWhole == PublishSpec => PublishedWhole
<1> QED BY InitMaps, StepMaps, PublishInvInit, PublishInvStep, PTL
        DEF PublishSpec, PublishedWhole, Store!AtomicSpec

-----------------------------------------------------------------------------
(* Readers beside the writers.                                             *)

ScanState == [at : {"idle", "open", "scanned", "append", "entries", "ended"},
              path : Path \cup {Missing}, file : File \cup {Missing}, size : Nat,
              index : File \cup {NoIndex}, out : File \cup {Missing}, pos : Nat]
ScanTypes == scan \in [Scanner -> ScanState]

\* A footer, or a part of one, is in the file whose index it is.
OwnFooters ==
  \A f, g \in File : \A i \in 1..Len(files[f]) :
    files[f][i] \in {Entries(g), Trailer(g)} => g = f

\* The records of a file that is found.
Kept(f) == IF f \in Writer THEN total[f] ELSE 1

\* While a scan has a file open its path keeps naming it; the sizes it goes by are not
\* short of the records; and it appends the index of the file it appends to.
OfScan(s) ==
  /\ HasOpen(s) => /\ scan[s].path \in Path /\ entry[scan[s].path] = scan[s].file
                   /\ scan[s].file \in File /\ scan[s].size >= Kept(scan[s].file)
  /\ scan[s].at \in {"idle", "open"} => scan[s].index = NoIndex
  /\ scan[s].at \in {"scanned", "append", "entries"} => scan[s].index = scan[s].file
  /\ Appending(s) => scan[s].out = scan[s].file /\ scan[s].pos >= Kept(scan[s].file)
  /\ scan[s].at = "ended" => scan[s].index \in {NoIndex, scan[s].file}

ReadInv == PublishInv /\ ScanTypes /\ OwnFooters /\ \A s \in Scanner : OfScan(s)

\* Records, the two parts of footers and holes are told apart.
LEMMA BlocksDiffer ==
  ASSUME NEW f \in File, NEW g \in File
  PROVE  /\ Entries(f) # Trailer(g) /\ Record # Entries(f) /\ Record # Trailer(f)
         /\ Hole # Entries(f) /\ Hole # Trailer(f) /\ Hole # Record
         /\ Entries(f) = Entries(g) => f = g
         /\ Trailer(f) = Trailer(g) => f = g
         /\ Trailer(f)[2] = f
         /\ {Record, Hole, Entries(f), Trailer(f)} \subseteq Block
<1>1. /\ Hole # Entries(f) /\ Hole # Trailer(f) /\ Hole # Record
      /\ {Record, Hole, Entries(f), Trailer(f)} \subseteq Block
  <2> HIDE DEF Record, Entries, Trailer
  <2> QED BY ParsedAssumption DEF ParsedAssumption, Block
<1>2. /\ Entries(f)[1] = "entries" /\ Trailer(g)[1] = "trailer" /\ Trailer(f)[1] = "trailer"
      /\ Record[1] = "record"
      /\ Entries(f)[2] = f /\ Entries(g)[2] = g /\ Trailer(f)[2] = f /\ Trailer(g)[2] = g
  BY DEF Entries, Trailer, Record
<1>3. Entries(f) # Trailer(g) /\ Record # Entries(f) /\ Record # Trailer(f)
  <2> HIDE DEF Record, Entries, Trailer
  <2>1. "entries" # "trailer" /\ "record" # "entries" /\ "record" # "trailer"
    OBVIOUS
  <2> QED BY <1>2, <2>1
<1> QED BY <1>1, <1>2, <1>3

\* A file that is found has records, and nobody writes it as a candidate.
LEMMA FoundKept ==
  ASSUME PublishInv, NEW f \in File, Found(f)
  PROVE  /\ Kept(f) \in Nat /\ Kept(f) > 0 /\ Len(files[f]) >= Kept(f)
         /\ \A i \in 1..Kept(f) : files[f][i] = Record
         /\ f \in Writer => stage[f] = "ended"
         /\ files[f] \in Seq(Block) /\ Len(files[f]) \in Nat
<1>1. files[f] \in Seq(Block) /\ Len(files[f]) \in Nat
  BY DEF PublishInv, PublishTypes
<1>2. f \in Writer => total[f] \in Nat
  BY DEF PublishInv, PublishTypes
<1> QED BY <1>1, <1>2 DEF Found, WholeRecords, Kept

\* What fseek and fwrite, and resize_file, make of a file.
LEMMA PutGives ==
  ASSUME PublishInv, NEW f \in File, NEW i \in Nat, i > 0, NEW b \in Block, Put(f, i, b)
  PROVE  \E bs \in Seq(Block) :
           /\ files' = [files EXCEPT ![f] = bs]
           /\ Len(bs) = IF i > Len(files[f]) THEN i ELSE Len(files[f])
           /\ \A j \in 1..Len(bs) : bs[j] = IF j = i THEN b ELSE BlockAt(f, j)
<1> DEFINE n == IF i > Len(files[f]) THEN i ELSE Len(files[f])
           bs == [j \in 1..n |-> IF j = i THEN b ELSE BlockAt(f, j)]
<1>1. files \in [File -> Seq(Block)] /\ files[f] \in Seq(Block) /\ Len(files[f]) \in Nat
  BY DEF PublishInv, PublishTypes
<1>2. n \in Nat
  BY <1>1
<1>3. Hole \in Block
  BY BlocksDiffer
<1>4. \A j \in 1..n : BlockAt(f, j) \in Block
  BY <1>1, <1>2, <1>3 DEF BlockAt
<1>5. bs \in Seq(Block) /\ Len(bs) = n
  <2> HIDE DEF n
  <2>1. bs \in [1..n -> Block]
    BY <1>4
  <2> HIDE DEF bs
  <2> QED BY <2>1, <1>2
<1>6. files' = [files EXCEPT ![f] = bs]
  BY <1>1 DEF Put
<1>7. \A j \in 1..n : bs[j] = IF j = i THEN b ELSE BlockAt(f, j)
  OBVIOUS
<1> HIDE DEF bs
<1> QED BY <1>5, <1>6, <1>7

LEMMA ResizeGives ==
  ASSUME PublishInv, NEW f \in File, NEW n \in Nat, Resize(f, n)
  PROVE  \E bs \in Seq(Block) :
           /\ files' = [files EXCEPT ![f] = bs] /\ Len(bs) = n
           /\ \A j \in 1..n : bs[j] = BlockAt(f, j)
<1> DEFINE bs == [j \in 1..n |-> BlockAt(f, j)]
<1>1. files \in [File -> Seq(Block)] /\ files[f] \in Seq(Block) /\ Len(files[f]) \in Nat
  BY DEF PublishInv, PublishTypes
<1>2. Hole \in Block
  BY BlocksDiffer
<1>3. \A j \in 1..n : BlockAt(f, j) \in Block
  BY <1>1, <1>2 DEF BlockAt
<1>4. bs \in Seq(Block) /\ Len(bs) = n
  <2>1. bs \in [1..n -> Block]
    BY <1>3
  <2> HIDE DEF bs
  <2> QED BY <2>1
<1>5. files' = [files EXCEPT ![f] = bs]
  BY <1>1 DEF Resize
<1>6. \A j \in 1..n : bs[j] = BlockAt(f, j)
  OBVIOUS
<1> HIDE DEF bs
<1> QED BY <1>4, <1>5, <1>6

\* A file that is found may be extended, or cut short of its records: it keeps them, and
\* what is put into it is of its own footer.
LEMMA FileChanged ==
  ASSUME PublishInv, OwnFooters, NEW f \in File, Found(f), NEW bs \in Seq(Block),
         files' = [files EXCEPT ![f] = bs], Len(bs) >= Kept(f),
         \A i \in 1..Kept(f) : bs[i] = Record,
         \A i \in 1..Len(bs) : bs[i] \in {BlockAt(f, i), Entries(f), Trailer(f)},
         UNCHANGED <<entry, stage, target, total>>
  PROVE  PublishInv' /\ OwnFooters'
<1>1. files \in [File -> Seq(Block)] /\ files' \in [File -> Seq(Block)]
  BY DEF PublishInv, PublishTypes
<1>2. PublishTypes'
  BY <1>1 DEF PublishInv, PublishTypes
<1>3. ASSUME NEW g \in File, g # f PROVE files'[g] = files[g]
  BY <1>1, <1>3
<1>4. files'[f] = bs /\ (f \in Writer => stage[f] = "ended")
  BY <1>1, FoundKept
<1>5. ASSUME NEW w \in Writer PROVE OfWriter(w)'
  <2>1. w \in File /\ OfWriter(w)
    BY DEF PublishInv, File
  <2>2. CASE w = f
    <3>1. stage'[w] = "ended"
      BY <1>4, <2>2
    <3> QED BY <3>1 DEF OfWriter, Busy
  <2>3. CASE w # f
    BY <2>1, <2>3, <1>3 DEF OfWriter, Busy, WholeRecords
  <2> QED BY <2>2, <2>3
<1>6. Found(f)'
  <2>1. CASE f \in Writer
    <3>1. Kept(f) = total[f] /\ Kept(f) > 0 /\ stage[f] = "ended"
      BY <2>1, FoundKept DEF Kept
    <3> QED BY <3>1, <2>1, <1>4 DEF Found, WholeRecords
  <2>2. CASE f \notin Writer
    <3>1. Kept(f) = 1
      BY <2>2 DEF Kept
    <3> QED BY <3>1, <2>2, <1>4 DEF Found, WholeRecords
  <2> QED BY <2>1, <2>2
<1>7. ASSUME NEW p \in Path, entry[p] # Missing PROVE Found(entry[p])'
  <2>1. entry[p] \in File /\ Found(entry[p]) /\ entry' = entry
    BY <1>7 DEF PublishInv, PublishTypes
  <2>2. CASE entry[p] = f
    BY <2>1, <2>2, <1>6 DEF Found, WholeRecords
  <2>3. CASE entry[p] # f
    BY <2>1, <2>3, <1>3 DEF Found, WholeRecords
  <2> QED BY <2>2, <2>3
<1>8. PublishInv'
  <2>1. entry' = entry
    OBVIOUS
  <2> QED BY <2>1, <1>2, <1>5, <1>7 DEF PublishInv
<1>9. ASSUME NEW g \in File, NEW h \in File, NEW i \in 1..Len(files'[g]),
             files'[g][i] \in {Entries(h), Trailer(h)}
      PROVE  h = g
  <2>1. CASE g # f
    BY <2>1, <1>3, <1>9 DEF OwnFooters
  <2>2. CASE g = f
    <3>1. bs[i] \in {BlockAt(f, i), Entries(f), Trailer(f)}
      BY <2>2, <1>4
    <3>2. bs[i] \in {Entries(h), Trailer(h)}
      BY <2>2, <1>4, <1>9
    <3>3. CASE bs[i] \in {Entries(f), Trailer(f)}
      BY <3>2, <3>3, <2>2, BlocksDiffer
    <3>4. CASE bs[i] = BlockAt(f, i)
      <4>1. i <= Len(files[f])
        BY <3>2, <3>4, BlocksDiffer DEF BlockAt
      <4>2. i \in 1..Len(files[f]) /\ files[f][i] = bs[i]
        <5>1. Len(files[f]) \in Nat /\ Len(bs) \in Nat /\ i \in 1..Len(bs)
          BY <1>1, <1>4, <2>2
        <5> QED BY <5>1, <4>1, <3>4 DEF BlockAt
      <4> QED BY <4>2, <3>2, <2>2 DEF OwnFooters
    <3> QED BY <3>1, <3>3, <3>4
  <2> QED BY <2>1, <2>2
<1>10. OwnFooters'
  BY <1>9 DEF OwnFooters
<1> QED BY <1>8, <1>10

\* The index of a footer found in a file is that of the file.
LEMMA FooterIsOwn ==
  ASSUME PublishInv, OwnFooters, NEW f \in File, NEW n \in Nat
  PROVE  FooterIndex(f, n) \in {NoIndex, f}
<1> SUFFICES ASSUME NEW g \in File, n > 2, BlockAt(f, n) = Trailer(g),
                    BlockAt(f, n - 1) = Entries(g)
             PROVE  BlockAt(f, n)[2] = f
  BY DEF FooterIndex
<1>1. Len(files[f]) \in Nat
  BY DEF PublishInv, PublishTypes
<1>2. n \in 1..Len(files[f]) /\ files[f][n] = Trailer(g)
  BY <1>1, BlocksDiffer DEF BlockAt
<1>3. g = f
  BY <1>2 DEF OwnFooters
<1> QED BY <1>3, BlocksDiffer

\* A scan's step concerns no other scan.
LEMMA ScanChanged ==
  ASSUME ScanTypes, \A t \in Scanner : OfScan(t), NEW s \in Scanner, NEW r \in ScanState,
         scan' = [scan EXCEPT ![s] = r], UNCHANGED <<entry, total>>, OfScan(s)'
  PROVE  ScanTypes' /\ \A t \in Scanner : OfScan(t)'
<1>1. ScanTypes'
  BY DEF ScanTypes
<1>2. ASSUME NEW t \in Scanner, t # s PROVE OfScan(t)'
  <2>1. scan'[t] = scan[t] /\ OfScan(t)
    BY <1>2 DEF ScanTypes
  <2> QED BY <2>1 DEF OfScan, HasOpen, Appending, Kept
<1> QED BY <1>1, <1>2

\* The step of a scan that writes nothing.
LEMMA QuietScan ==
  ASSUME ReadInv, NEW s \in Scanner, NEW r \in ScanState, scan' = [scan EXCEPT ![s] = r],
         UNCHANGED publishVars, OfScan(s)'
  PROVE  ReadInv'
<1>1. PublishInv'
  BY PublishInvStep DEF ReadInv
<1>2. OwnFooters'
  BY DEF ReadInv, OwnFooters, publishVars
<1>3. ScanTypes' /\ \A t \in Scanner : OfScan(t)'
  BY ScanChanged DEF ReadInv, publishVars
<1> QED BY <1>1, <1>2, <1>3 DEF ReadInv

\* A scan that ends: with the index of its file, or none.
LEMMA EndKeeps ==
  ASSUME ReadInv, NEW s \in Scanner, NEW i \in {NoIndex, scan[s].file},
         HasOpen(s), Ends(s, i)
  PROVE  /\ [scan[s] EXCEPT !.at = "ended", !.index = i] \in ScanState
         /\ scan' = [scan EXCEPT ![s] = [scan[s] EXCEPT !.at = "ended", !.index = i]]
         /\ OfScan(s)'
<1>1. scan[s] \in ScanState /\ scan[s].file \in File
  BY DEF ReadInv, ScanTypes, OfScan
<1>2. scan' = [scan EXCEPT ![s] = [scan[s] EXCEPT !.at = "ended", !.index = i]]
  BY DEF Ends
<1>3. [scan[s] EXCEPT !.at = "ended", !.index = i] \in ScanState
  BY <1>1 DEF ScanState
<1>4. scan'[s].at = "ended" /\ scan'[s].index = i /\ scan'[s].file = scan[s].file
  BY <1>1, <1>2 DEF ReadInv, ScanTypes, ScanState
<1>5. OfScan(s)'
  BY <1>4 DEF OfScan, HasOpen, Appending
<1> QED BY <1>2, <1>3, <1>5

\* What a scan knows of the file it has open.
LEMMA OpenFile ==
  ASSUME ReadInv, NEW s \in Scanner, HasOpen(s)
  PROVE  /\ scan[s] \in ScanState /\ scan[s].path \in Path /\ scan[s].file \in File
         /\ entry[scan[s].path] = scan[s].file /\ scan[s].file # Missing
         /\ Found(scan[s].file)
         /\ scan[s].size \in Nat /\ scan[s].size >= Kept(scan[s].file)
<1>1. /\ scan[s] \in ScanState /\ scan[s].path \in Path /\ scan[s].file \in File
      /\ entry[scan[s].path] = scan[s].file /\ scan[s].size >= Kept(scan[s].file)
  BY DEF ReadInv, ScanTypes, OfScan
<1>2. scan[s].file # Missing
  BY <1>1, PublishAssumption DEF PublishAssumption, File
<1>3. scan[s].size \in Nat
  BY <1>1 DEF ScanState
<1> QED BY <1>1, <1>2, <1>3 DEF ReadInv, PublishInv

LEMMA OpenStoreKeeps ==
  ASSUME ReadInv, NEW s \in Scanner, NEW p \in Path, OpenStore(s, p)
  PROVE  ReadInv'
<1> DEFINE r == [scan[s] EXCEPT !.at = "open", !.path = p, !.file = entry[p],
                                !.size = Len(files[entry[p]])]
<1>1. /\ entry[p] \in File /\ Found(entry[p]) /\ entry[p] # Missing /\ scan[s] \in ScanState
      /\ scan[s].index = NoIndex
  BY DEF OpenStore, ReadInv, PublishInv, PublishTypes, ScanTypes, OfScan
<1>2. Len(files[entry[p]]) \in Nat /\ Len(files[entry[p]]) >= Kept(entry[p])
  BY <1>1, FoundKept DEF ReadInv
<1>3. r \in ScanState
  BY <1>1, <1>2 DEF ScanState
<1>4. scan' = [scan EXCEPT ![s] = r] /\ UNCHANGED publishVars
  BY DEF OpenStore
<1>5. /\ scan'[s].at = "open" /\ scan'[s].path = p /\ scan'[s].file = entry[p]
      /\ scan'[s].size = Len(files[entry[p]]) /\ scan'[s].index = NoIndex
  BY <1>1, <1>4 DEF ReadInv, ScanTypes, ScanState
<1>6. OfScan(s)'
  BY <1>1, <1>2, <1>4, <1>5 DEF OfScan, HasOpen, Appending, publishVars, Kept
<1> HIDE DEF r
<1> QED BY <1>3, <1>4, <1>6, QuietScan

LEMMA ReadFooterKeeps ==
  ASSUME ReadInv, NEW s \in Scanner, ReadFooter(s)
  PROVE  ReadInv'
<1>1. HasOpen(s) /\ UNCHANGED publishVars
  BY DEF ReadFooter, HasOpen
<1>2. FooterIndex(scan[s].file, scan[s].size) \in {NoIndex, scan[s].file}
  BY <1>1, OpenFile, FooterIsOwn DEF ReadInv
<1>3. Ends(s, FooterIndex(scan[s].file, scan[s].size))
  BY DEF ReadFooter
<1> QED BY <1>1, <1>2, <1>3, EndKeeps, QuietScan

LEMMA ScanRecordsKeeps ==
  ASSUME ReadInv, NEW s \in Scanner, ScanRecords(s)
  PROVE  ReadInv'
<1>1. HasOpen(s) /\ UNCHANGED publishVars
  BY DEF ScanRecords, HasOpen
<1>2. CASE Ends(s, NoIndex)
  BY <1>1, <1>2, EndKeeps, QuietScan
<1>3. CASE scan' = [scan EXCEPT ![s].at = "scanned", ![s].index = scan[s].file]
  <2> DEFINE r == [scan[s] EXCEPT !.at = "scanned", !.index = scan[s].file]
  <2>1. scan[s] \in ScanState /\ scan[s].file \in File /\ OfScan(s)
    BY <1>1, OpenFile DEF ReadInv
  <2>2. r \in ScanState
    BY <2>1 DEF ScanState
  <2>3. scan' = [scan EXCEPT ![s] = r]
    BY <1>3
  <2>4. /\ scan'[s].at = "scanned" /\ scan'[s].index = scan[s].file
        /\ scan'[s].file = scan[s].file /\ scan'[s].path = scan[s].path
        /\ scan'[s].size = scan[s].size
    BY <2>1, <2>3 DEF ReadInv, ScanTypes, ScanState
  <2>5. OfScan(s)'
    BY <2>1, <2>4, <1>1 DEF OfScan, HasOpen, Appending, Kept, publishVars
  <2> HIDE DEF r
  <2> QED BY <1>1, <2>2, <2>3, <2>5, QuietScan
<1> QED BY <1>2, <1>3 DEF ScanRecords

LEMMA GiveUpKeeps ==
  ASSUME ReadInv, NEW s \in Scanner, CancelScan(s) \/ SkipFooter(s)
  PROVE  ReadInv'
<1>1. HasOpen(s) /\ UNCHANGED publishVars
  BY DEF CancelScan, SkipFooter, HasOpen
<1>2. CASE CancelScan(s)
  BY <1>1, <1>2, EndKeeps, QuietScan DEF CancelScan
<1>3. CASE SkipFooter(s)
  <2>1. scan[s].index = scan[s].file /\ Ends(s, scan[s].index)
    BY <1>3 DEF SkipFooter, ReadInv, OfScan
  <2> QED BY <1>1, <2>1, EndKeeps, QuietScan
<1> QED BY <1>2, <1>3

LEMMA OpenAppendKeeps ==
  ASSUME ReadInv, NEW s \in Scanner, OpenAppend(s)
  PROVE  ReadInv'
<1> DEFINE r == [scan[s] EXCEPT !.at = "append", !.out = entry[scan[s].path],
                                !.pos = Len(files[entry[scan[s].path]])]
<1>1. HasOpen(s) /\ scan[s].at = "scanned" /\ UNCHANGED publishVars
  BY DEF OpenAppend, HasOpen
<1>2. /\ scan[s] \in ScanState /\ entry[scan[s].path] = scan[s].file /\ OfScan(s)
      /\ scan[s].file \in File
  BY <1>1, OpenFile DEF ReadInv
<1>3. Len(files[scan[s].file]) \in Nat /\ Len(files[scan[s].file]) >= Kept(scan[s].file)
  BY <1>1, OpenFile, FoundKept DEF ReadInv
<1>4. r \in ScanState
  BY <1>2, <1>3 DEF ScanState
<1>5. scan' = [scan EXCEPT ![s] = r]
  BY DEF OpenAppend
<1>6. /\ scan'[s].at = "append" /\ scan'[s].index = scan[s].index
      /\ scan'[s].file = scan[s].file /\ scan'[s].path = scan[s].path
      /\ scan'[s].size = scan[s].size /\ scan'[s].out = scan[s].file
      /\ scan'[s].pos = Len(files[scan[s].file])
  BY <1>2, <1>5 DEF ReadInv, ScanTypes, ScanState
<1>7. OfScan(s)'
  BY <1>1, <1>2, <1>3, <1>6 DEF OfScan, HasOpen, Appending, Kept, publishVars
<1> HIDE DEF r
<1> QED BY <1>1, <1>4, <1>5, <1>7, QuietScan

\* Part of a footer is put after what its scan found in the file.
LEMMA PutKeeps ==
  ASSUME ReadInv, NEW s \in Scanner, Appending(s), NEW i \in Nat, i > scan[s].pos,
         NEW b \in {Entries(scan[s].index), Trailer(scan[s].index)},
         Put(scan[s].out, i, b), UNCHANGED <<entry, stage, target, total>>
  PROVE  PublishInv' /\ OwnFooters'
<1> DEFINE f == scan[s].file
<1>1. HasOpen(s) /\ OfScan(s) /\ scan[s] \in ScanState
  BY DEF Appending, HasOpen, ReadInv, ScanTypes
<1>2. scan[s].out = f /\ scan[s].index = f /\ f \in File /\ Found(f) /\ scan[s].pos >= Kept(f)
  BY <1>1, OpenFile DEF OfScan, Appending
<1>3. PublishInv /\ OwnFooters /\ scan[s].pos \in Nat
  BY <1>1 DEF ReadInv, ScanState
<1> HIDE DEF f
<1>4. /\ Kept(f) \in Nat /\ Kept(f) > 0 /\ Len(files[f]) >= Kept(f) /\ Len(files[f]) \in Nat
      /\ \A j \in 1..Kept(f) : files[f][j] = Record
  BY <1>2, <1>3, FoundKept
<1>5. b \in Block /\ b \in {Entries(f), Trailer(f)} /\ i > 0 /\ i > Kept(f)
  BY <1>2, <1>3, <1>4, BlocksDiffer
<1>6. PICK bs \in Seq(Block) :
        /\ files' = [files EXCEPT ![f] = bs]
        /\ Len(bs) = IF i > Len(files[f]) THEN i ELSE Len(files[f])
        /\ \A j \in 1..Len(bs) : bs[j] = IF j = i THEN b ELSE BlockAt(f, j)
  BY <1>2, <1>3, <1>5, PutGives
<1>7. Len(bs) \in Nat /\ Len(bs) >= Kept(f)
  BY <1>4, <1>6
<1>8. \A j \in 1..Kept(f) : bs[j] = Record
  <2> SUFFICES ASSUME NEW j \in 1..Kept(f) PROVE bs[j] = Record
    OBVIOUS
  <2>1. j \in 1..Len(bs) /\ j # i /\ j <= Len(files[f])
    BY <1>4, <1>5, <1>7
  <2> QED BY <2>1, <1>4, <1>6 DEF BlockAt
<1>9. \A j \in 1..Len(bs) : bs[j] \in {BlockAt(f, j), Entries(f), Trailer(f)}
  BY <1>5, <1>6
<1> QED BY <1>2, <1>3, <1>6, <1>7, <1>8, <1>9, FileChanged

LEMMA AppendKeeps ==
  ASSUME ReadInv, NEW s \in Scanner, AppendEntries(s) \/ AppendTrailer(s)
  PROVE  ReadInv'
<1>1. Appending(s) /\ HasOpen(s) /\ UNCHANGED <<entry, stage, target, total>>
  BY DEF AppendEntries, AppendTrailer, Appending, HasOpen
<1>2. scan[s] \in ScanState /\ scan[s].pos \in Nat /\ OfScan(s)
  BY <1>1, OpenFile DEF ScanState, ReadInv
<1>3. PublishInv' /\ OwnFooters'
  <2>1. CASE AppendEntries(s)
    BY <2>1, <1>1, <1>2, PutKeeps DEF AppendEntries
  <2>2. CASE AppendTrailer(s)
    BY <2>2, <1>1, <1>2, PutKeeps DEF AppendTrailer
  <2> QED BY <2>1, <2>2
<1>4. ScanTypes' /\ \A t \in Scanner : OfScan(t)'
  <2>1. CASE AppendEntries(s)
    <3> DEFINE r == [scan[s] EXCEPT !.at = "entries"]
    <3>1. r \in ScanState
      BY <1>2 DEF ScanState
    <3>2. scan' = [scan EXCEPT ![s] = r]
      BY <2>1 DEF AppendEntries, Moves
    <3>3. /\ scan'[s].at = "entries" /\ scan'[s].index = scan[s].index
          /\ scan'[s].file = scan[s].file /\ scan'[s].path = scan[s].path
          /\ scan'[s].size = scan[s].size /\ scan'[s].out = scan[s].out
          /\ scan'[s].pos = scan[s].pos
      BY <1>2, <3>2 DEF ReadInv, ScanTypes, ScanState
    <3>4. OfScan(s)'
      BY <1>1, <1>2, <3>3 DEF OfScan, HasOpen, Appending, Kept
    <3> HIDE DEF r
    <3> QED BY <1>1, <3>1, <3>2, <3>4, ScanChanged DEF ReadInv
  <2>2. CASE AppendTrailer(s)
    <3>1. Ends(s, scan[s].index) /\ scan[s].index = scan[s].file
      BY <2>2, <1>1, <1>2 DEF AppendTrailer, OfScan, Appending
    <3> QED BY <1>1, <3>1, EndKeeps, ScanChanged DEF ReadInv
  <2> QED BY <2>1, <2>2, <1>1
<1> QED BY <1>3, <1>4 DEF ReadInv

LEMMA FailAppendKeeps ==
  ASSUME ReadInv, NEW s \in Scanner, FailAppend(s)
  PROVE  ReadInv'
<1> DEFINE f == scan[s].file
           n == scan[s].size
<1>1. /\ Appending(s) /\ HasOpen(s) /\ Ends(s, scan[s].index)
      /\ UNCHANGED <<entry, stage, target, total>>
  BY DEF FailAppend, Appending, HasOpen
<1>2. /\ f \in File /\ Found(f) /\ n \in Nat /\ n >= Kept(f) /\ scan[s].index = f
      /\ Resize(f, n)
  BY <1>1, OpenFile DEF FailAppend, ReadInv, OfScan, Appending
<1>3. PublishInv /\ OwnFooters
  BY DEF ReadInv
<1>4. PublishInv' /\ OwnFooters'
  <2> HIDE DEF f, n
  <2>1. /\ Kept(f) \in Nat /\ Kept(f) > 0 /\ Len(files[f]) >= Kept(f) /\ Len(files[f]) \in Nat
        /\ \A j \in 1..Kept(f) : files[f][j] = Record
    BY <1>2, <1>3, FoundKept
  <2>2. PICK bs \in Seq(Block) :
          /\ files' = [files EXCEPT ![f] = bs] /\ Len(bs) = n
          /\ \A j \in 1..n : bs[j] = BlockAt(f, j)
    BY <1>2, <1>3, ResizeGives
  <2>3. \A j \in 1..Kept(f) : bs[j] = Record
    <3> SUFFICES ASSUME NEW j \in 1..Kept(f) PROVE bs[j] = Record
      OBVIOUS
    <3>1. j \in 1..n /\ j <= Len(files[f])
      BY <1>2, <2>1
    <3> QED BY <3>1, <2>1, <2>2 DEF BlockAt
  <2>4. \A j \in 1..Len(bs) : bs[j] \in {BlockAt(f, j), Entries(f), Trailer(f)}
    BY <2>2
  <2> QED BY <1>1, <1>2, <1>3, <2>2, <2>3, <2>4, FileChanged
<1>5. ScanTypes' /\ \A t \in Scanner : OfScan(t)'
  BY <1>1, <1>2, EndKeeps, ScanChanged DEF ReadInv
<1> QED BY <1>4, <1>5 DEF ReadInv

LEMMA ScanKeeps == ASSUME ReadInv, NEW s \in Scanner, Scan(s) PROVE ReadInv'
BY OpenStoreKeeps, ReadFooterKeeps, ScanRecordsKeeps, GiveUpKeeps, OpenAppendKeeps,
   AppendKeeps, FailAppendKeeps DEF Scan

\* A writer's step leaves the files that are open, and their paths, alone: they are no
\* candidates, and what is open is not replaced.
LEMMA WriteLeavesOpen ==
  ASSUME ReplaceOpen = FALSE, ReadInv, NEW w \in Writer, WriteStep(w),
         NEW s \in Scanner, HasOpen(s)
  PROVE  /\ entry'[scan[s].path] = scan[s].file
         /\ scan[s].file # w
         /\ files'[scan[s].file] = files[scan[s].file]
         /\ Kept(scan[s].file)' = Kept(scan[s].file)
<1> DEFINE f == scan[s].file
           p == scan[s].path
<1>1. p \in Path /\ f \in File /\ entry[p] = f /\ Found(f)
  BY OpenFile
<1>2. PublishInv
  BY DEF ReadInv
<1>3. Write(w) /\ UNCHANGED <<scan, plan>>
  BY DEF WriteStep, readVars
<1>4. stage[w] # "ended"
  BY <1>3 DEF Write, StartWrite, WriteRecord, WriteFooter, CloseCandidate, Publish, FailWrite,
              Goes, Busy
<1>5. f # w
  BY <1>1, <1>2, <1>4, FoundKept
<1>6. entry'[p] = f
  <2>1. CASE UNCHANGED entry
    BY <2>1, <1>1
  <2>2. CASE entry' # entry
    <3>1. Replaceable(target[w]) /\ Publish(w)
      BY <2>2, <1>3
         DEF WriteStep, Write, StartWrite, WriteRecord, WriteFooter, CloseCandidate, FailWrite
    <3>2. entry[target[w]] # f
      BY <3>1, <1>1 DEF Replaceable
    <3>3. p # target[w]
      BY <3>2, <1>1
    <3> QED BY <3>1, <3>3, <1>1, <1>2 DEF Publish, PublishInv, PublishTypes
  <2> QED BY <2>1, <2>2
<1>7. files'[f] = files[f]
  BY <1>1, <1>2, <1>3, <1>5
     DEF Write, StartWrite, WriteRecord, WriteFooter, CloseCandidate, Publish, FailWrite,
         Writes, PublishInv, PublishTypes
<1>8. Kept(f)' = Kept(f)
  <2>1. f \in Writer => total'[f] = total[f]
    BY <1>2, <1>3, <1>5
       DEF Write, StartWrite, WriteRecord, WriteFooter, CloseCandidate, Publish, FailWrite,
           PublishInv, PublishTypes
  <2>2. scan'[s].file = f
    BY <1>3
  <2> QED BY <2>1, <2>2, <1>3 DEF Kept
<1> QED BY <1>5, <1>6, <1>7, <1>8

\* What a writer writes into its file is of its own footer.
LEMMA WriterOwnFooters ==
  ASSUME PublishInv, OwnFooters, NEW w \in Writer, Write(w)
  PROVE  OwnFooters'
<1>1. w \in File /\ files[w] \in Seq(Block) /\ files \in [File -> Seq(Block)]
  BY DEF PublishInv, PublishTypes, File
<1>2. PICK bs \in Seq(Block) :
        /\ files' = [files EXCEPT ![w] = @ \o bs]
        /\ \A i \in 1..Len(bs) : bs[i] \in {Record, Entries(w), Trailer(w)}
  <2>1. CASE WriteRecord(w)
    <3> DEFINE bs == <<Record>>
    <3>1. Record \in Block
      BY <1>1, BlocksDiffer
    <3>2. bs \in Seq(Block) /\ \A i \in 1..Len(bs) : bs[i] = Record
      <4> HIDE DEF Record, Block
      <4> QED BY <3>1
    <3>3. files' = [files EXCEPT ![w] = @ \o bs]
      BY <2>1 DEF WriteRecord, Writes
    <3> HIDE DEF bs
    <3> QED BY <3>2, <3>3
  <2>2. CASE WriteFooter(w)
    <3> DEFINE bs == Footer(w)
    <3>1. bs \in Seq(Block) /\ Len(bs) = 2
      BY <1>1, FooterBlocks
    <3>2. bs[1] = Entries(w) /\ bs[2] = Trailer(w)
      BY DEF Footer
    <3>3. files' = [files EXCEPT ![w] = @ \o bs]
      BY <2>2 DEF WriteFooter, Writes
    <3>4. \A i \in 1..2 : i = 1 \/ i = 2
      OBVIOUS
    <3> HIDE DEF bs
    <3> QED BY <3>1, <3>2, <3>3, <3>4
  <2>3. CASE UNCHANGED files
    <3>1. <<>> \in Seq(Block) /\ files' = [files EXCEPT ![w] = @ \o <<>>]
      BY <2>3, NothingAppended
    <3>2. 1..Len(<<>>) = {}
      OBVIOUS
    <3> QED BY <3>1, <3>2
  <2> QED BY <2>1, <2>2, <2>3
          DEF Write, StartWrite, CloseCandidate, Publish, FailWrite
<1>3. SUFFICES ASSUME NEW f \in File, NEW g \in File, NEW i \in 1..Len(files'[f]),
                      files'[f][i] \in {Entries(g), Trailer(g)}
               PROVE  g = f
  BY DEF OwnFooters
<1>4. CASE f # w
  BY <1>1, <1>2, <1>3, <1>4 DEF OwnFooters
<1>5. CASE f = w
  <2>1. /\ files'[w] = files[w] \o bs
        /\ Len(files[w] \o bs) = Len(files[w]) + Len(bs)
        /\ \A j \in 1..Len(files[w]) : (files[w] \o bs)[j] = files[w][j]
        /\ \A j \in 1..Len(bs) : (files[w] \o bs)[Len(files[w]) + j] = bs[j]
        /\ Len(files[w]) \in Nat /\ Len(bs) \in Nat
    BY <1>1, <1>2, LongerFile
  <2>2. CASE i <= Len(files[w])
    <3>1. i \in 1..Len(files[w])
      BY <2>1, <2>2, <1>5
    <3> QED BY <3>1, <2>1, <1>1, <1>3, <1>5 DEF OwnFooters
  <2>3. CASE i > Len(files[w])
    <3>1. i - Len(files[w]) \in 1..Len(bs) /\ Len(files[w]) + (i - Len(files[w])) = i
      BY <2>1, <2>3, <1>5
    <3>2. files'[w][i] \in {Record, Entries(w), Trailer(w)}
      BY <3>1, <2>1, <1>2
    <3> QED BY <3>2, <1>3, <1>5, <1>1, BlocksDiffer
  <2>4. i \in Nat
    BY <1>3
  <2> QED BY <2>1, <2>2, <2>3, <2>4
<1> QED BY <1>4, <1>5

LEMMA WriteStepKeeps ==
  ASSUME ReplaceOpen = FALSE, ReadInv, NEW w \in Writer, WriteStep(w)
  PROVE  ReadInv'
<1>1. Write(w) /\ UNCHANGED scan
  BY DEF WriteStep, readVars
<1>2. PublishInv' /\ OwnFooters'
  BY <1>1, PublishInvStep, WriterOwnFooters DEF PublishNext, ReadInv
<1>3. ScanTypes'
  BY <1>1 DEF ReadInv, ScanTypes
<1>4. ASSUME NEW s \in Scanner PROVE OfScan(s)'
  <2>1. OfScan(s)
    BY DEF ReadInv
  <2>2. CASE HasOpen(s)
    <3>1. /\ entry'[scan[s].path] = scan[s].file
          /\ Kept(scan[s].file)' = Kept(scan[s].file)
      BY <2>2, WriteLeavesOpen
    <3> QED BY <3>1, <2>1, <2>2, <1>1 DEF OfScan, HasOpen, Appending
  <2>3. CASE ~ HasOpen(s)
    BY <2>1, <2>3, <1>1 DEF OfScan, HasOpen, Appending
  <2> QED BY <2>2, <2>3
<1> QED BY <1>2, <1>3, <1>4 DEF ReadInv

LEMMA CrashKeeps == ASSUME ReadInv, Crash PROVE ReadInv'
<1>1. StopWriters /\ UNCHANGED <<entry, files, total>>
  BY DEF Crash, StopWriters
<1>2. PublishInv' /\ OwnFooters'
  BY <1>1, StopKeeps DEF ReadInv, OwnFooters
<1>3. ASSUME NEW s \in Scanner
      PROVE  scan'[s] \in ScanState /\ OfScan(s)'
  <2>1. /\ scan[s] \in ScanState /\ OfScan(s)
        /\ scan'[s] = IF HasOpen(s) THEN [scan[s] EXCEPT !.at = "ended"] ELSE scan[s]
    BY DEF ReadInv, ScanTypes, Crash
  <2>2. CASE HasOpen(s)
    <3>1. scan'[s] \in ScanState
      BY <2>1, <2>2 DEF ScanState
    <3>2. /\ scan'[s].at = "ended" /\ scan'[s].index = scan[s].index
          /\ scan'[s].file = scan[s].file
      BY <2>1, <2>2 DEF ScanState
    <3>3. scan[s].index \in {NoIndex, scan[s].file}
      BY <2>1, <2>2 DEF OfScan, HasOpen
    <3> QED BY <3>1, <3>2, <3>3 DEF OfScan, HasOpen, Appending
  <2>3. CASE ~ HasOpen(s)
    BY <2>1, <2>3, <1>1 DEF OfScan, HasOpen, Appending
  <2> QED BY <2>2, <2>3
<1>4. ScanTypes'
  BY <1>3 DEF Crash, ScanTypes
<1> QED BY <1>2, <1>3, <1>4 DEF ReadInv

LEMMA ReadInvInit == ParsedInit => ReadInv
<1> SUFFICES ASSUME ParsedInit PROVE ReadInv
  OBVIOUS
<1>1. PublishInv
  BY PublishInvInit DEF ParsedInit
<1>2. NoScan \in ScanState
  BY DEF NoScan, ScanState
<1>3. ScanTypes
  BY <1>2 DEF ParsedInit, ScanTypes
<1>4. OwnFooters
  <2> SUFFICES ASSUME NEW f \in File, NEW g \in File, NEW i \in 1..Len(files[f]),
                      files[f][i] \in {Entries(g), Trailer(g)}
               PROVE  g = f
    BY DEF OwnFooters
  <2>1. PICK legacy \in SUBSET Path :
          files = [h \in File |-> IF h \in Writer THEN <<>> ELSE OldStore(h, legacy)]
    BY DEF ParsedInit, PublishInit
  <2>2. CASE f \in Writer
    BY <2>1, <2>2
  <2>3. CASE f \notin Writer
    <3>1. files[f] = Records(1) \o (IF f \in legacy THEN <<>> ELSE <<Entries(f), Trailer(f)>>)
      BY <2>1, <2>3 DEF OldStore, Footer
    <3>2. Records(1) = <<Record>>
      BY DEF Records
    <3>3. files[f][i] \in {Record, Entries(f), Trailer(f)}
      <4> HIDE DEF Record, Entries, Trailer
      <4>1. CASE f \in legacy
        <5>1. files[f] = <<Record>>
          BY <3>1, <3>2, <4>1
        <5> QED BY <5>1
      <4>2. CASE f \notin legacy
        <5>1. files[f] = <<Record>> \o <<Entries(f), Trailer(f)>>
          BY <3>1, <3>2, <4>2
        <5>2. {Record, Entries(f), Trailer(f)} \subseteq Block
          BY BlocksDiffer
        <5>3. <<Record>> \in Seq(Block) /\ <<Entries(f), Trailer(f)>> \in Seq(Block)
          <6> HIDE DEF Block
          <6> QED BY <5>2
        <5>4. /\ Len(files[f]) = 3 /\ files[f][1] = Record
              /\ files[f][2] = Entries(f) /\ files[f][3] = Trailer(f)
          BY <5>1, <5>3
        <5>5. i = 1 \/ i = 2 \/ i = 3
          BY <5>4
        <5> QED BY <5>4, <5>5
      <4> QED BY <4>1, <4>2
    <3> QED BY <3>3, BlocksDiffer
  <2> QED BY <2>2, <2>3
<1>5. \A s \in Scanner : OfScan(s)
  BY DEF ParsedInit, NoScan, OfScan, HasOpen, Appending
<1> QED BY <1>1, <1>3, <1>4, <1>5 DEF ReadInv

LEMMA ReadInvStep ==
  ASSUME ReplaceOpen = FALSE
  PROVE  ReadInv /\ [ParsedNext]_allVars => ReadInv'
<1> SUFFICES ASSUME ReadInv, [ParsedNext]_allVars PROVE ReadInv'
  OBVIOUS
<1>1. CASE UNCHANGED allVars
  <2>1. PublishInv'
    BY <1>1, PublishInvStep DEF allVars, ReadInv
  <2> QED BY <2>1, <1>1 DEF allVars, readVars, publishVars, ReadInv, ScanTypes, OwnFooters,
                            OfScan, HasOpen, Appending, Kept
<1> QED BY <1>1, ScanKeeps, WriteStepKeeps, CrashKeeps DEF ParsedNext

\* Scans are stutters of the abstract store: footers come after the records of a file.
LEMMA ReadMaps ==
  ReadInv /\ ReadInv' /\ [ParsedNext]_allVars => [Store!AtomicNext]_(Store!abstractVars)
<1> SUFFICES ASSUME ReadInv, ReadInv', [ParsedNext]_allVars
             PROVE  [Store!AtomicNext]_(Store!abstractVars)
  OBVIOUS
<1>1. PublishInv /\ PublishInv'
  BY DEF ReadInv
<1>2. ASSUME NEW s \in Scanner, Scan(s) PROVE UNCHANGED Store!abstractVars
  <2>1. UNCHANGED <<entry, stage, target>>
    BY <1>2 DEF Scan, OpenStore, ReadFooter, ScanRecords, CancelScan, SkipFooter, OpenAppend,
                AppendEntries, AppendTrailer, FailAppend, publishVars
  <2>2. UNCHANGED View
    BY <1>1, <2>1, SameView
  <2>3. UNCHANGED Aims
    BY <2>1 DEF Aims, Busy
  <2> QED BY <2>2, <2>3 DEF Store!abstractVars, View, Aims
<1>3. ASSUME NEW w \in Writer, WriteStep(w) PROVE [Store!AtomicNext]_(Store!abstractVars)
  BY <1>1, <1>3, WriteMaps DEF WriteStep
<1>4. CASE Crash
  BY <1>1, <1>4, StepMaps DEF Crash, PublishNext
<1>5. CASE UNCHANGED allVars
  BY <1>1, <1>5, StepMaps DEF allVars
<1> QED BY <1>2, <1>3, <1>4, <1>5 DEF ParsedNext

\* Publication with readers beside it: neither a footer that is appended to a store in
\* place, nor the rollback of one that failed, at any time and by any number of readers,
\* changes what a path shows, where an open file cannot be replaced.
THEOREM ReadStoresStayWhole == ReplaceOpen = FALSE => (ParsedSpec => PublishedWhole)
<1> SUFFICES ASSUME ReplaceOpen = FALSE PROVE ParsedSpec => PublishedWhole
  OBVIOUS
<1>1. ParsedInit => ReadInv /\ Store!AtomicInit
  BY ReadInvInit, InitMaps DEF ParsedInit
<1>2. ReadInv /\ [ParsedNext]_allVars => ReadInv'
  BY ReadInvStep
<1> QED BY <1>1, <1>2, ReadMaps, PTL DEF ParsedSpec, PublishedWhole, Store!AtomicSpec

\* buildIndex returns the index of the store it opened, or none: whatever other readers
\* append and roll back, whoever publishes meanwhile, and wherever the application ends.
THEOREM IndexesAreOfTheStore == ReplaceOpen = FALSE => (ParsedSpec => []IndexIsOfTheStore)
<1> SUFFICES ASSUME ReplaceOpen = FALSE PROVE ParsedSpec => []IndexIsOfTheStore
  OBVIOUS
<1>1. ReadInv /\ [ParsedNext]_allVars => ReadInv'
  BY ReadInvStep
<1>2. ReadInv => IndexIsOfTheStore
  BY DEF ReadInv, OfScan, IndexIsOfTheStore
<1> QED BY <1>1, <1>2, ReadInvInit, PTL DEF ParsedSpec

-----------------------------------------------------------------------------
(* Footers do no harm.                                                     *)

\* The footer is at the end of the file.
Footed(f) ==
  LET n == Len(files[f]) IN n > 2 /\ files[f][n] = Trailer(f) /\ files[f][n - 1] = Entries(f)

\* No record comes after those the writer of the file had to write.
RecordsEnd ==
  \A f \in File : \A i \in 1..Len(files[f]) : files[f][i] = Record => i <= Kept(f)

\* A scan that got past the records knows where they end.  Who appends to a file that is
\* not spoilt does so alone, and where the file ends.
OfAppend(s) ==
  LET f == scan[s].file
      n == Len(files[scan[s].file]) IN
  /\ scan[s].at \in {"scanned", "append", "entries"} => scan[s].size = Kept(f)
  /\ Appending(s) /\ f \notin spoilt =>
       /\ \A t \in Scanner : Appending(t) /\ scan[t].file = f => t = s
       /\ scan[s].at = "append" => n = scan[s].pos
       /\ scan[s].at = "entries" => n = scan[s].pos + 1 /\ files[f][n] = Entries(f)

\* What is found has its footer, or none, or gets it.
Indexed(f) ==
  \/ Footed(f)
  \/ AllRecords(f, Len(files[f]))
  \/ \E s \in Scanner : scan[s].at = "entries" /\ scan[s].file = f

FooterInv ==
  /\ RecordsEnd
  /\ \A s \in Scanner : OfAppend(s)
  /\ \A w \in Writer : stage[w] \in {"indexed", "closed"} => Footed(w)
  /\ \A p \in Path : entry[p] # Missing /\ entry[p] \notin spoilt => Indexed(entry[p])

LEMMA FootedIndex ==
  ASSUME PublishInv, NEW f \in File, Footed(f)
  PROVE  FooterIndex(f, Len(files[f])) = f
<1>1. Len(files[f]) \in Nat /\ Len(files[f]) > 2
  BY DEF PublishInv, PublishTypes, Footed
<1>2. BlockAt(f, Len(files[f])) = Trailer(f) /\ BlockAt(f, Len(files[f]) - 1) = Entries(f)
  BY <1>1 DEF Footed, BlockAt
<1> QED BY <1>1, <1>2, BlocksDiffer DEF FooterIndex

LEMMA NoFooterIndex ==
  ASSUME NEW f \in File, NEW n \in Nat, AllRecords(f, n)
  PROVE  FooterIndex(f, n) = NoIndex
<1>1. BlockAt(f, n) = Record
  BY DEF AllRecords
<1> QED BY <1>1, BlocksDiffer DEF FooterIndex

LEMMA NoIndexIsNoFile == \A f \in File : f # NoIndex /\ f # Missing
BY ParsedAssumption, PublishAssumption DEF ParsedAssumption, PublishAssumption, File

\* A step of a scan that leaves the files alone.
LEMMA QuietFooters ==
  ASSUME FooterInv, ReadInv, NEW s \in Scanner, NEW r \in ScanState,
         scan' = [scan EXCEPT ![s] = r], UNCHANGED publishVars, spoilt \subseteq spoilt',
         scan[s].at # "entries", OfAppend(s)'
  PROVE  FooterInv'
<1>1. ASSUME NEW t \in Scanner, t # s PROVE scan'[t] = scan[t]
  BY <1>1 DEF ReadInv, ScanTypes
<1>2. entry' = entry /\ files' = files /\ total' = total /\ stage' = stage
  BY DEF publishVars
<1>3. ASSUME NEW t \in Scanner, t # s PROVE OfAppend(t)'
  <2>1. scan'[t] = scan[t] /\ OfAppend(t)
    BY <1>1, <1>3 DEF FooterInv
  <2>2. ASSUME Appending(t)', scan'[t].file \notin spoilt',
               NEW u \in Scanner, Appending(u)', scan'[u].file = scan'[t].file
        PROVE  u = t
    <3>1. CASE u = s
      BY <3>1, <2>2 DEF OfAppend
    <3>2. CASE u # s
      BY <3>2, <2>1, <2>2, <1>1 DEF OfAppend, Appending
    <3> QED BY <3>1, <3>2
  <2> QED BY <2>1, <2>2, <1>2 DEF OfAppend, Appending, Kept
<1>4. RecordsEnd'
  BY <1>2 DEF FooterInv, RecordsEnd, Kept
<1>5. \A w \in Writer : stage'[w] \in {"indexed", "closed"} => Footed(w)'
  BY <1>2 DEF FooterInv, Footed
<1>6. ASSUME NEW p \in Path, entry[p] # Missing, entry[p] \notin spoilt'
      PROVE  Indexed(entry[p])'
  <2>1. Indexed(entry[p])
    BY <1>6 DEF FooterInv
  <2>2. ASSUME NEW t \in Scanner, scan[t].at = "entries" PROVE scan'[t] = scan[t]
    BY <2>2, <1>1
  <2> QED BY <2>1, <2>2, <1>2 DEF Indexed, Footed, AllRecords, BlockAt
<1>7. \A t \in Scanner : OfAppend(t)'
  BY <1>3
<1>8. \A p \in Path : entry'[p] # Missing /\ entry'[p] \notin spoilt' => Indexed(entry[p])'
  BY <1>2, <1>6
<1> QED BY <1>4, <1>5, <1>7, <1>8 DEF FooterInv

LEMMA EndFooters ==
  ASSUME ReadInv, NEW s \in Scanner, NEW i \in {NoIndex, scan[s].file}, Ends(s, i)
  PROVE  OfAppend(s)'
<1>1. scan'[s].at = "ended"
  BY DEF Ends, ReadInv, ScanTypes, ScanState
<1> QED BY <1>1 DEF OfAppend, Appending

LEMMA OpenStoreFooters ==
  ASSUME FooterInv, ReadInv, NEW s \in Scanner, NEW p \in Path, OpenStore(s, p)
  PROVE  FooterInv'
<1> DEFINE r == [scan[s] EXCEPT !.at = "open", !.path = p, !.file = entry[p],
                                !.size = Len(files[entry[p]])]
<1>1. entry[p] \in File /\ entry[p] # Missing /\ scan[s] \in ScanState
  BY DEF OpenStore, ReadInv, PublishInv, PublishTypes, ScanTypes
<1>2. Len(files[entry[p]]) \in Nat
  BY <1>1 DEF ReadInv, PublishInv, PublishTypes
<1>3. r \in ScanState
  BY <1>1, <1>2 DEF ScanState
<1>4. /\ scan' = [scan EXCEPT ![s] = r] /\ UNCHANGED publishVars /\ spoilt' = spoilt
      /\ scan[s].at = "idle"
  BY DEF OpenStore
<1>5. scan'[s].at = "open"
  BY <1>1, <1>4 DEF ReadInv, ScanTypes, ScanState
<1>6. OfAppend(s)'
  BY <1>5 DEF OfAppend, Appending
<1> HIDE DEF r
<1> QED BY <1>3, <1>4, <1>6, QuietFooters

\* A scan that meets records only has met all of them.
LEMMA ScanRecordsFooters ==
  ASSUME FooterInv, ReadInv, NEW s \in Scanner, ScanRecords(s)
  PROVE  FooterInv'
<1>1. HasOpen(s) /\ scan[s].at = "open" /\ UNCHANGED publishVars /\ spoilt' = spoilt
  BY DEF ScanRecords, HasOpen, Ends
<1>2. CASE Ends(s, NoIndex)
  <2>1. PICK r \in ScanState : scan' = [scan EXCEPT ![s] = r]
    BY <1>1, <1>2, EndKeeps
  <2> QED BY <2>1, <1>1, <1>2, EndFooters, QuietFooters
<1>3. CASE /\ scan' = [scan EXCEPT ![s].at = "scanned", ![s].index = scan[s].file]
           /\ AllRecords(scan[s].file, scan[s].size)
  <2> DEFINE r == [scan[s] EXCEPT !.at = "scanned", !.index = scan[s].file]
             f == scan[s].file
             n == scan[s].size
  <2>1. scan[s] \in ScanState /\ f \in File /\ Found(f) /\ n \in Nat /\ n >= Kept(f)
    BY <1>1, OpenFile
  <2>2. r \in ScanState
    BY <2>1 DEF ScanState
  <2>3. scan' = [scan EXCEPT ![s] = r]
    BY <1>3
  <2>4. scan'[s].at = "scanned" /\ scan'[s].file = f /\ scan'[s].size = n
    BY <2>1, <2>3 DEF ReadInv, ScanTypes, ScanState
  <2>5. n = Kept(f)
    <3>1. n > 0 /\ BlockAt(f, n) = Record
      BY <2>1, <1>3 DEF AllRecords
    <3>2. Len(files[f]) \in Nat /\ Kept(f) \in Nat
      BY <2>1, FoundKept DEF ReadInv
    <3>3. n <= Len(files[f]) /\ files[f][n] = Record
      BY <3>1, <2>1, BlocksDiffer DEF BlockAt
    <3>4. n <= Kept(f)
      BY <3>1, <3>2, <3>3, <2>1 DEF FooterInv, RecordsEnd
    <3> QED BY <3>2, <3>4, <2>1
  <2>6. OfAppend(s)'
    <3>1. total' = total
      BY <1>1 DEF publishVars
    <3>2. Kept(f)' = Kept(f)
      BY <3>1, <2>4 DEF Kept
    <3> QED BY <3>2, <2>4, <2>5 DEF OfAppend, Appending
  <2> HIDE DEF r
  <2> QED BY <1>1, <2>2, <2>3, <2>6, QuietFooters
<1> QED BY <1>2, <1>3 DEF ScanRecords

\* A scan ends before it appends.
LEMMA EndsFooters ==
  ASSUME FooterInv, ReadInv, NEW s \in Scanner,
         ReadFooter(s) \/ CancelScan(s) \/ SkipFooter(s)
  PROVE  FooterInv'
<1>1. HasOpen(s) /\ scan[s].at # "entries" /\ UNCHANGED publishVars /\ spoilt' = spoilt
  BY DEF ReadFooter, CancelScan, SkipFooter, HasOpen, Ends
<1>2. PICK i \in {NoIndex, scan[s].file} : Ends(s, i)
  <2>1. CASE ReadFooter(s)
    <3>1. FooterIndex(scan[s].file, scan[s].size) \in {NoIndex, scan[s].file}
      BY <1>1, OpenFile, FooterIsOwn DEF ReadInv
    <3> QED BY <3>1, <2>1 DEF ReadFooter
  <2>2. CASE CancelScan(s)
    BY <2>2 DEF CancelScan
  <2>3. CASE SkipFooter(s)
    <3>1. scan[s].index = scan[s].file
      BY <2>3 DEF SkipFooter, ReadInv, OfScan
    <3> QED BY <3>1, <2>3 DEF SkipFooter
  <2> QED BY <2>1, <2>2, <2>3
<1>3. PICK r \in ScanState : scan' = [scan EXCEPT ![s] = r]
  BY <1>1, <1>2, EndKeeps
<1>4. OfAppend(s)'
  BY <1>2, EndFooters
<1> QED BY <1>1, <1>3, <1>4, QuietFooters

\* Where another scan appends the file is spoilt; elsewhere the footer goes to its end.
LEMMA OpenAppendFooters ==
  ASSUME FooterInv, ReadInv, NEW s \in Scanner, OpenAppend(s)
  PROVE  FooterInv'
<1> DEFINE f == scan[s].file
           r == [scan[s] EXCEPT !.at = "append", !.out = entry[scan[s].path],
                                !.pos = Len(files[entry[scan[s].path]])]
<1>1. HasOpen(s) /\ scan[s].at = "scanned" /\ UNCHANGED publishVars
  BY DEF OpenAppend, HasOpen
<1>2. scan[s] \in ScanState /\ entry[scan[s].path] = f /\ f \in File
  BY <1>1, OpenFile
<1>3. Len(files[f]) \in Nat
  BY <1>2 DEF ReadInv, PublishInv, PublishTypes
<1>4. r \in ScanState
  BY <1>2, <1>3 DEF ScanState
<1>5. scan' = [scan EXCEPT ![s] = r]
  BY DEF OpenAppend
<1>6. /\ scan'[s].at = "append" /\ scan'[s].file = f
      /\ scan'[s].size = scan[s].size /\ scan'[s].pos = Len(files[f])
  BY <1>2, <1>5 DEF ReadInv, ScanTypes, ScanState
<1>7. spoilt \subseteq spoilt'
  BY DEF OpenAppend
<1>8. ASSUME f \notin spoilt', NEW t \in Scanner, Appending(t)', scan'[t].file = f
      PROVE  t = s
  <2> SUFFICES ASSUME t # s PROVE FALSE
    OBVIOUS
  <2>1. scan'[t] = scan[t]
    BY <1>5 DEF ReadInv, ScanTypes
  <2>2. Appending(t) /\ scan[t].file = f
    BY <2>1, <1>8 DEF Appending
  <2>3. scan[t].out = f
    BY <2>2 DEF ReadInv, OfScan
  <2>4. f \in spoilt'
    BY <2>2, <2>3, <1>2 DEF OpenAppend
  <2> QED BY <2>4, <1>8
<1>9. OfAppend(s)'
  <2>1. files' = files /\ total' = total
    BY <1>1 DEF publishVars
  <2>2. Kept(f)' = Kept(f)
    BY <2>1, <1>6 DEF Kept
  <2>3. scan[s].size = Kept(f)
    BY <1>1 DEF FooterInv, OfAppend
  <2> QED BY <2>1, <2>2, <2>3, <1>6, <1>8 DEF OfAppend
<1> HIDE DEF r
<1> QED BY <1>1, <1>4, <1>5, <1>7, <1>9, QuietFooters

\* A scan changes the file it appends to, where it puts no records: the other files are as
\* they were, and a file that is not spoilt has no other scan that appends to it.
LEMMA FileFooters ==
  ASSUME FooterInv, ReadInv, NEW s \in Scanner, Appending(s),
         NEW r \in ScanState, scan' = [scan EXCEPT ![s] = r],
         NEW f \in File, f = scan[s].file, scan'[s].file = f,
         NEW bs \in Seq(Block), files' = [files EXCEPT ![f] = bs],
         \A i \in 1..Len(bs) : bs[i] = Record => bs[i] = BlockAt(f, i),
         UNCHANGED <<entry, stage, total, spoilt>>,
         OfAppend(s)', f \notin spoilt => Indexed(f)'
  PROVE  FooterInv'
<1>1. Found(f) /\ PublishInv /\ files'[f] = bs
  BY OpenFile DEF ReadInv, Appending, HasOpen, PublishInv, PublishTypes
<1>2. ASSUME NEW g \in File, g # f PROVE files'[g] = files[g]
  BY <1>2 DEF ReadInv, PublishInv, PublishTypes
<1>3. ASSUME NEW t \in Scanner, t # s PROVE scan'[t] = scan[t] /\ OfAppend(t)
  BY <1>3 DEF FooterInv, ReadInv, ScanTypes
<1>4. ASSUME NEW t \in Scanner, t # s PROVE OfAppend(t)'
  <2>1. Kept(scan[t].file)' = Kept(scan[t].file)
    BY <1>3, <1>4 DEF Kept
  <2>2. ASSUME Appending(t)', scan'[t].file \notin spoilt'
        PROVE  /\ scan[t].file \in File /\ files'[scan[t].file] = files[scan[t].file]
               /\ scan[t].file # f
    <3>1. Appending(t) /\ scan[t].file \notin spoilt
      BY <2>2, <1>3, <1>4 DEF Appending
    <3>2. scan[t].file \in File
      BY <3>1 DEF ReadInv, OfScan, Appending, HasOpen
    <3>3. scan[t].file # f
      BY <3>1, <1>3, <1>4 DEF OfAppend
    <3> QED BY <3>2, <3>3, <1>2
  <2>3. ASSUME Appending(t)', scan'[t].file \notin spoilt',
               NEW u \in Scanner, Appending(u)', scan'[u].file = scan'[t].file
        PROVE  u = t
    <3>1. CASE u = s
      BY <3>1, <2>2, <2>3, <1>3, <1>4
    <3>2. CASE u # s
      BY <3>2, <2>3, <1>3, <1>4 DEF OfAppend, Appending
    <3> QED BY <3>1, <3>2
  <2> QED BY <2>1, <2>2, <2>3, <1>3, <1>4 DEF OfAppend, Appending
<1>5. RecordsEnd'
  <2> SUFFICES ASSUME NEW g \in File, NEW i \in 1..Len(files'[g]), files'[g][i] = Record
               PROVE  i <= Kept(g)'
    BY DEF RecordsEnd
  <2>1. Kept(g)' = Kept(g)
    BY DEF Kept
  <2>2. CASE g # f
    BY <2>1, <2>2, <1>2 DEF FooterInv, RecordsEnd
  <2>3. CASE g = f
    <3>1. BlockAt(f, i) = Record
      BY <2>3, <1>1
    <3>2. i <= Len(files[f]) /\ files[f][i] = Record
      BY <3>1, BlocksDiffer DEF BlockAt
    <3>3. i \in 1..Len(files[f])
      <4>1. Len(bs) \in Nat /\ Len(files[f]) \in Nat /\ i \in 1..Len(bs)
        BY <2>3, <1>1 DEF PublishInv, PublishTypes
      <4> QED BY <4>1, <3>2
    <3> QED BY <3>2, <3>3, <2>1, <2>3 DEF FooterInv, RecordsEnd
  <2> QED BY <2>2, <2>3
<1>6. ASSUME NEW w \in Writer, stage'[w] \in {"indexed", "closed"} PROVE Footed(w)'
  <2>1. w \in File /\ stage' = stage
    BY DEF File
  <2>2. w # f
    BY <2>1, <1>1, <1>6, FoundKept
  <2>3. Footed(w) /\ files'[w] = files[w]
    BY <2>1, <2>2, <1>2, <1>6 DEF FooterInv
  <2> QED BY <2>3 DEF Footed
<1>7. ASSUME NEW p \in Path, entry[p] # Missing, entry[p] \notin spoilt PROVE Indexed(entry[p])'
  <2>1. entry' = entry /\ entry[p] \in File
    BY <1>7 DEF ReadInv, PublishInv, PublishTypes
  <2>2. CASE entry[p] = f
    BY <2>1, <2>2, <1>7 DEF Indexed, Footed, AllRecords, BlockAt
  <2>3. CASE entry[p] # f
    <3> DEFINE g == entry[p]
    <3>1. files'[g] = files[g] /\ Indexed(g)
      BY <2>1, <2>3, <1>2, <1>7 DEF FooterInv
    <3>2. ASSUME NEW t \in Scanner, scan[t].file = g PROVE scan'[t] = scan[t]
      BY <3>2, <2>3, <1>3
    <3> QED BY <3>1, <3>2, <2>1 DEF Indexed, Footed, AllRecords, BlockAt
  <2> QED BY <2>2, <2>3
<1>8. /\ \A t \in Scanner : OfAppend(t)'
      /\ \A p \in Path : entry'[p] # Missing /\ entry'[p] \notin spoilt' => Indexed(entry[p])'
  BY <1>4, <1>7
<1> QED BY <1>5, <1>6, <1>8 DEF FooterInv

\* What a scan that appends knows of its file, and of the end of one that is not spoilt.
LEMMA AppendKnows ==
  ASSUME FooterInv, ReadInv, NEW s \in Scanner, Appending(s)
  PROVE  /\ HasOpen(s) /\ scan[s] \in ScanState /\ scan[s].file \in File
         /\ entry[scan[s].path] = scan[s].file
         /\ scan[s].out = scan[s].file /\ scan[s].index = scan[s].file
         /\ scan[s].size = Kept(scan[s].file)
         /\ scan[s].pos \in Nat /\ scan[s].pos > 0
         /\ Found(scan[s].file) /\ Len(files[scan[s].file]) \in Nat
<1>1. HasOpen(s) /\ scan[s].at \in {"append", "entries"}
  BY DEF Appending, HasOpen
<1>2. /\ scan[s] \in ScanState /\ scan[s].file \in File /\ Found(scan[s].file)
      /\ entry[scan[s].path] = scan[s].file
  BY <1>1, OpenFile
<1>3. /\ scan[s].out = scan[s].file /\ scan[s].index = scan[s].file
      /\ scan[s].pos >= Kept(scan[s].file)
  BY <1>1 DEF ReadInv, OfScan
<1>4. /\ Kept(scan[s].file) \in Nat /\ Kept(scan[s].file) > 0
      /\ Len(files[scan[s].file]) \in Nat
  BY <1>2, FoundKept DEF ReadInv
<1>5. scan[s].pos \in Nat
  BY <1>2 DEF ScanState
<1>6. scan[s].size = Kept(scan[s].file)
  BY <1>1 DEF FooterInv, OfAppend
<1> QED BY <1>1, <1>2, <1>3, <1>4, <1>5, <1>6

LEMMA AppendEntriesFooters ==
  ASSUME FooterInv, ReadInv, NEW s \in Scanner, AppendEntries(s)
  PROVE  FooterInv'
<1> DEFINE r == [scan[s] EXCEPT !.at = "entries"]
<1> PICK f : f = scan[s].file
  OBVIOUS
<1> PICK k : k = scan[s].pos
  OBVIOUS
<1>1. /\ scan[s].at = "append" /\ Appending(s)
      /\ UNCHANGED <<entry, stage, total, spoilt>>
  BY DEF AppendEntries, Appending, Moves
<1>2. /\ scan[s] \in ScanState /\ f \in File /\ k \in Nat /\ k > 0 /\ Len(files[f]) \in Nat
      /\ scan[s].out = f /\ scan[s].index = f /\ scan[s].size = Kept(f)
  BY <1>1, AppendKnows
<1>3. r \in ScanState /\ scan' = [scan EXCEPT ![s] = r]
  BY <1>2 DEF ScanState, AppendEntries, Moves
<1>4. /\ scan'[s].at = "entries" /\ scan'[s].file = f /\ scan'[s].size = Kept(f)
      /\ scan'[s].pos = k
  BY <1>2, <1>3 DEF ReadInv, ScanTypes, ScanState
<1>5. PICK bs \in Seq(Block) :
        /\ files' = [files EXCEPT ![f] = bs]
        /\ Len(bs) = IF k + 1 > Len(files[f]) THEN k + 1 ELSE Len(files[f])
        /\ \A j \in 1..Len(bs) : bs[j] = IF j = k + 1 THEN Entries(f) ELSE BlockAt(f, j)
  <2>1. Put(f, k + 1, Entries(f)) /\ PublishInv /\ Entries(f) \in Block
    BY <1>2, BlocksDiffer DEF AppendEntries, ReadInv
  <2>2. PICK i \in Nat : i = k + 1 /\ i > 0
    BY <1>2
  <2> QED BY <2>1, <2>2, <1>2, PutGives
<1>6. files'[f] = bs
  BY <1>2, <1>5 DEF ReadInv, PublishInv, PublishTypes
<1>7. \A i \in 1..Len(bs) : bs[i] = Record => bs[i] = BlockAt(f, i)
  BY <1>2, <1>5, BlocksDiffer
<1>8. ASSUME f \notin spoilt
      PROVE  /\ Len(bs) = k + 1 /\ bs[k + 1] = Entries(f)
             /\ \A t \in Scanner : Appending(t)' /\ scan'[t].file = f => t = s
  <2>1. /\ Len(files[f]) = k
        /\ \A t \in Scanner : Appending(t) /\ scan[t].file = f => t = s
    BY <1>1, <1>8 DEF FooterInv, OfAppend
  <2>2. Len(bs) = k + 1 /\ k + 1 \in 1..Len(bs)
    BY <2>1, <1>2, <1>5
  <2>3. ASSUME NEW t \in Scanner, t # s PROVE scan'[t] = scan[t]
    BY <2>3, <1>3 DEF ReadInv, ScanTypes
  <2> QED BY <2>1, <2>2, <2>3, <1>5 DEF Appending
<1>9. OfAppend(s)'
  <2>1. Kept(f)' = Kept(f)
    BY <1>1 DEF Kept
  <2> QED BY <2>1, <1>1, <1>4, <1>6, <1>8 DEF OfAppend
<1>10. Indexed(f)'
  BY <1>4 DEF Indexed
<1> HIDE DEF r
<1> QED BY <1>1, <1>2, <1>3, <1>4, <1>5, <1>7, <1>9, <1>10, FileFooters

LEMMA AppendTrailerFooters ==
  ASSUME FooterInv, ReadInv, NEW s \in Scanner, AppendTrailer(s)
  PROVE  FooterInv'
<1> PICK f : f = scan[s].file
  OBVIOUS
<1> PICK k : k = scan[s].pos
  OBVIOUS
<1>1. /\ scan[s].at = "entries" /\ Appending(s)
      /\ UNCHANGED <<entry, stage, total, spoilt>> /\ Ends(s, scan[s].index)
  BY DEF AppendTrailer, Appending, Ends
<1>2. /\ scan[s] \in ScanState /\ f \in File /\ k \in Nat /\ k > 0 /\ Len(files[f]) \in Nat
      /\ scan[s].out = f /\ scan[s].index = scan[s].file /\ HasOpen(s)
  BY <1>1, AppendKnows
<1>3. PICK bs \in Seq(Block) :
        /\ files' = [files EXCEPT ![f] = bs]
        /\ Len(bs) = IF k + 2 > Len(files[f]) THEN k + 2 ELSE Len(files[f])
        /\ \A j \in 1..Len(bs) : bs[j] = IF j = k + 2 THEN Trailer(f) ELSE BlockAt(f, j)
  <2>1. Put(f, k + 2, Trailer(f)) /\ PublishInv /\ Trailer(f) \in Block
    BY <1>2, BlocksDiffer DEF AppendTrailer, ReadInv
  <2>2. PICK i \in Nat : i = k + 2 /\ i > 0
    BY <1>2
  <2>3. PICK b \in Block : b = Trailer(f)
    BY <2>1
  <2>4. f \in File /\ PublishInv /\ i > 0 /\ Put(f, i, b)
    BY <2>1, <2>2, <2>3, <1>2
  <2>5. PICK bs \in Seq(Block) :
          /\ files' = [files EXCEPT ![f] = bs]
          /\ Len(bs) = IF i > Len(files[f]) THEN i ELSE Len(files[f])
          /\ \A j \in 1..Len(bs) : bs[j] = IF j = i THEN b ELSE BlockAt(f, j)
    BY <2>4, PutGives
  <2> QED BY <2>2, <2>3, <2>5
<1>4. files'[f] = bs
  BY <1>2, <1>3 DEF ReadInv, PublishInv, PublishTypes
<1>5. \A i \in 1..Len(bs) : bs[i] = Record => bs[i] = BlockAt(f, i)
  BY <1>2, <1>3, BlocksDiffer
<1>6. ASSUME f \notin spoilt PROVE Footed(f)'
  <2>1. Len(files[f]) = k + 1 /\ files[f][k + 1] = Entries(f)
    BY <1>1, <1>6 DEF FooterInv, OfAppend
  <2>2. /\ Len(bs) = k + 2 /\ k + 2 > 2 /\ (k + 2) - 1 = k + 1
        /\ k + 1 \in 1..Len(bs) /\ k + 2 \in 1..Len(bs) /\ k + 1 # k + 2
        /\ k + 1 <= Len(files[f])
    BY <2>1, <1>2, <1>3
  <2>3. bs[k + 1] = BlockAt(f, k + 1) /\ bs[k + 2] = Trailer(f)
    BY <2>2, <1>3
  <2>4. bs[k + 1] = Entries(f)
    BY <2>1, <2>2, <2>3 DEF BlockAt
  <2> QED BY <2>2, <2>3, <2>4, <1>4 DEF Footed
<1>7. PICK r \in ScanState :
        scan' = [scan EXCEPT ![s] = r] /\ r.file = scan[s].file
  <2> DEFINE q == [scan[s] EXCEPT !.at = "ended", !.index = scan[s].index]
  <2>1. q \in ScanState /\ scan' = [scan EXCEPT ![s] = q]
    BY <1>1, <1>2, EndKeeps
  <2>2. q.file = scan[s].file
    BY <1>2 DEF ScanState
  <2> HIDE DEF q
  <2> QED BY <2>1, <2>2
<1>8. scan'[s].file = f
  BY <1>7 DEF ReadInv, ScanTypes
<1>9. OfAppend(s)'
  BY <1>1, <1>2, EndFooters
<1>10. f \notin spoilt => Indexed(f)'
  BY <1>6 DEF Indexed
<1> QED BY <1>1, <1>2, <1>3, <1>5, <1>7, <1>8, <1>9, <1>10, FileFooters

\* The rollback gives the store the size at which it was records only.
LEMMA FailAppendFooters ==
  ASSUME FooterInv, ReadInv, NEW s \in Scanner, FailAppend(s)
  PROVE  FooterInv'
<1> PICK f : f = scan[s].file
  OBVIOUS
<1> PICK n : n = scan[s].size
  OBVIOUS
<1>1. /\ Appending(s) /\ UNCHANGED <<entry, stage, total, spoilt>>
      /\ Ends(s, scan[s].index)
  BY DEF FailAppend, Ends
<1>2. /\ scan[s] \in ScanState /\ f \in File /\ n = Kept(f) /\ entry[scan[s].path] = f
      /\ scan[s].index = scan[s].file /\ HasOpen(s) /\ Found(f)
  BY <1>1, AppendKnows
<1>3. /\ n \in Nat /\ n > 0 /\ Len(files[f]) >= n /\ Len(files[f]) \in Nat
      /\ \A i \in 1..n : files[f][i] = Record
  BY <1>2, FoundKept DEF ReadInv
<1>4. PICK bs \in Seq(Block) :
        /\ files' = [files EXCEPT ![f] = bs] /\ Len(bs) = n
        /\ \A j \in 1..n : bs[j] = BlockAt(f, j)
  BY <1>2, <1>3, ResizeGives DEF FailAppend, ReadInv
<1>5. files'[f] = bs
  BY <1>2, <1>4 DEF ReadInv, PublishInv, PublishTypes
<1>6. \A j \in 1..n : bs[j] = Record
  BY <1>3, <1>4 DEF BlockAt
<1>7. AllRecords(f, Len(files[f]))'
  BY <1>3, <1>4, <1>5, <1>6 DEF AllRecords, BlockAt
<1>8. PICK r \in ScanState :
        scan' = [scan EXCEPT ![s] = r] /\ r.file = scan[s].file
  <2> DEFINE q == [scan[s] EXCEPT !.at = "ended", !.index = scan[s].index]
  <2>1. q \in ScanState /\ scan' = [scan EXCEPT ![s] = q]
    BY <1>1, <1>2, EndKeeps
  <2>2. q.file = scan[s].file
    BY <1>2 DEF ScanState
  <2> HIDE DEF q
  <2> QED BY <2>1, <2>2
<1>9. scan'[s].file = f
  BY <1>8 DEF ReadInv, ScanTypes
<1>10. OfAppend(s)'
  BY <1>1, <1>2, EndFooters
<1>11. Indexed(f)'
  BY <1>7 DEF Indexed
<1>12. \A i \in 1..Len(bs) : bs[i] = Record => bs[i] = BlockAt(f, i)
  BY <1>4
<1> QED BY <1>1, <1>2, <1>4, <1>8, <1>9, <1>10, <1>11, <1>12, FileFooters

\* A writer writes no more records than it has artifacts.
LEMMA WriteRecordsEnd ==
  ASSUME RecordsEnd, ReadInv, NEW w \in Writer, Write(w)
  PROVE  RecordsEnd'
<1>1. PublishInv /\ w \in File /\ files[w] \in Seq(Block) /\ Len(files[w]) \in Nat
  BY DEF ReadInv, PublishInv, PublishTypes, File
<1> SUFFICES ASSUME NEW f \in File, NEW i \in 1..Len(files'[f]), files'[f][i] = Record
             PROVE  i <= Kept(f)'
  BY DEF RecordsEnd
<1>2. CASE f # w
  <2>1. files'[f] = files[f]
    BY <1>1, <1>2
       DEF Write, StartWrite, WriteRecord, WriteFooter, CloseCandidate, Publish, FailWrite,
           Writes, PublishInv, PublishTypes
  <2>2. Kept(f)' = Kept(f)
    BY <1>1, <1>2
       DEF Write, StartWrite, WriteRecord, WriteFooter, CloseCandidate, Publish, FailWrite,
           PublishInv, PublishTypes, Kept
  <2> QED BY <2>1, <2>2 DEF RecordsEnd
<1>3. CASE f = w
  <2>1. CASE \E p \in Path, n \in 0..MaxRecords : StartWrite(w, p, n)
    <3>1. files'[w] = <<>>
      BY <2>1, <1>1 DEF StartWrite, Goes, PublishInv, OfWriter
    <3> QED BY <3>1, <1>3
  <2>2. CASE WriteRecord(w)
    <3> DEFINE b == <<Record>>
    <3>1. b \in Seq(Block) /\ Len(b) = 1
      <4>1. Record \in Block
        BY <1>1, BlocksDiffer
      <4> HIDE DEF Record, Block
      <4> QED BY <4>1
    <3>2. /\ files'[w] = files[w] \o b /\ Len(files[w]) < total[w] /\ total' = total
          /\ total[w] \in Nat
      BY <2>2, <1>1 DEF WriteRecord, Writes, PublishInv, PublishTypes
    <3> HIDE DEF b
    <3>3. Len(files'[w]) = Len(files[w]) + 1
      BY <3>1, <3>2, <1>1, LongerFile
    <3> QED BY <3>2, <3>3, <1>1, <1>3 DEF Kept
  <2>3. CASE WriteFooter(w)
    <3> PICK b \in Seq(Block) : b = Footer(w)
      BY <1>1, FooterBlocks
    <3>1. Len(b) = 2 /\ b[1] = Entries(w) /\ b[2] = Trailer(w)
      BY <1>1, FooterBlocks DEF Footer
    <3>2. files'[w] = files[w] \o b /\ total' = total
      BY <2>3, <1>1 DEF WriteFooter, Writes, PublishInv, PublishTypes
    <3>3. /\ Len(files'[w]) = Len(files[w]) + 2
          /\ \A j \in 1..Len(files[w]) : files'[w][j] = files[w][j]
          /\ \A j \in 1..2 : files'[w][Len(files[w]) + j] = b[j]
      <4>1. /\ Len(files'[w]) = Len(files[w]) + Len(b)
            /\ \A j \in 1..Len(files[w]) : files'[w][j] = files[w][j]
            /\ \A j \in 1..Len(b) : files'[w][Len(files[w]) + j] = b[j]
        BY <3>2, <1>1, LongerFile
      <4> QED BY <4>1, <3>1
    <3>4. CASE i <= Len(files[w])
      <4>1. i \in 1..Len(files[w]) /\ files[w][i] = Record
        BY <3>3, <3>4, <1>1, <1>3
      <4> QED BY <4>1, <3>2, <1>1, <1>3 DEF RecordsEnd, Kept
    <3>5. CASE i > Len(files[w])
      <4>1. PICK j \in 1..2 : i = Len(files[w]) + j
        <5>1. i - Len(files[w]) \in 1..2 /\ i = Len(files[w]) + (i - Len(files[w]))
          BY <3>3, <3>5, <1>1, <1>3
        <5> QED BY <5>1
      <4>2. files'[w][i] = b[j] /\ (j = 1 \/ j = 2)
        BY <4>1, <3>3
      <4> QED BY <4>2, <3>1, <1>1, <1>3, BlocksDiffer
    <3> QED BY <3>4, <3>5, <3>3, <1>1, <1>3
  <2>4. CASE CloseCandidate(w) \/ Publish(w) \/ FailWrite(w)
    <3>1. files' = files /\ total' = total
      BY <2>4 DEF CloseCandidate, Publish, FailWrite
    <3> QED BY <3>1 DEF RecordsEnd, Kept
  <2> QED BY <2>1, <2>2, <2>3, <2>4 DEF Write
<1> QED BY <1>2, <1>3

LEMMA WriteFooters ==
  ASSUME ReplaceOpen = FALSE, FooterInv, ReadInv, NEW w \in Writer, WriteStep(w)
  PROVE  FooterInv'
<1>1. Write(w) /\ scan' = scan /\ spoilt' = spoilt /\ PublishInv
  BY DEF WriteStep, readVars, ReadInv
<1>2. RecordsEnd'
  BY <1>1, WriteRecordsEnd DEF FooterInv
<1>3. ASSUME NEW s \in Scanner PROVE OfAppend(s)'
  <2>1. OfAppend(s)
    BY DEF FooterInv
  <2>2. CASE HasOpen(s)
    <3>1. /\ files'[scan[s].file] = files[scan[s].file]
          /\ Kept(scan[s].file)' = Kept(scan[s].file)
      BY <2>2, WriteLeavesOpen
    <3> QED BY <3>1, <2>1, <1>1 DEF OfAppend, Appending
  <2>3. CASE ~ HasOpen(s)
    BY <2>3, <1>1 DEF HasOpen, OfAppend, Appending
  <2> QED BY <2>2, <2>3
<1>4. ASSUME NEW f \in File, f # w PROVE files'[f] = files[f]
  BY <1>1, <1>4
     DEF Write, StartWrite, WriteRecord, WriteFooter, CloseCandidate, Publish, FailWrite,
         Writes, PublishInv, PublishTypes
<1>5. ASSUME stage'[w] \in {"indexed", "closed"} PROVE Footed(w)'
  <2>1. CASE WriteFooter(w)
    <3>1. /\ files[w] \in Seq(Block) /\ Len(files[w]) \in Nat /\ Len(files[w]) > 0
          /\ files'[w] = files[w] \o Footer(w)
      BY <2>1, <1>1 DEF WriteFooter, Writes, Indexable, PublishInv, PublishTypes, File
    <3>2. /\ Footer(w) \in Seq(Block) /\ Len(Footer(w)) = 2
          /\ Footer(w)[1] = Entries(w) /\ Footer(w)[2] = Trailer(w)
      BY FooterBlocks DEF Footer, File
    <3>3. /\ Len(files'[w]) = Len(files[w]) + 2
          /\ files'[w][Len(files[w]) + 1] = Entries(w)
          /\ files'[w][Len(files[w]) + 2] = Trailer(w)
      <4> PICK bs \in Seq(Block) : bs = Footer(w)
        BY <3>2
      <4>1. 1 \in 1..Len(bs) /\ 2 \in 1..Len(bs)
        BY <3>2
      <4>2. /\ Len(files'[w]) = Len(files[w]) + Len(bs)
            /\ \A i \in 1..Len(bs) : files'[w][Len(files[w]) + i] = bs[i]
        BY <3>1, LongerFile
      <4> QED BY <3>2, <4>1, <4>2
    <3> PICK n \in Nat : n = Len(files[w])
      BY <3>1
    <3>4. Len(files'[w]) = n + 2 /\ n + 2 > 2 /\ (n + 2) - 1 = n + 1
      BY <3>1, <3>3
    <3> QED BY <3>3, <3>4 DEF Footed
  <2>2. CASE CloseCandidate(w)
    <3>1. stage[w] = "indexed" /\ files' = files
      BY <2>2 DEF CloseCandidate, Goes
    <3> QED BY <3>1 DEF FooterInv, Footed
  <2>3. CASE ~ WriteFooter(w) /\ ~ CloseCandidate(w)
    <3>1. stage'[w] \in {"writing", "ended"}
      BY <2>3, <1>1 DEF Write, StartWrite, WriteRecord, Publish, FailWrite, Goes,
                        PublishInv, PublishTypes
    <3> QED BY <3>1, <1>5
  <2> QED BY <2>1, <2>2, <2>3
<1>6. ASSUME NEW v \in Writer, stage'[v] \in {"indexed", "closed"} PROVE Footed(v)'
  <2>1. CASE v # w
    <3>1. stage'[v] = stage[v] /\ v \in File
      BY <2>1, <1>1 DEF Write, StartWrite, WriteRecord, WriteFooter, CloseCandidate, Publish,
                        FailWrite, Goes, PublishInv, PublishTypes, File
    <3>2. Footed(v) /\ files'[v] = files[v]
      BY <3>1, <2>1, <1>4, <1>6 DEF FooterInv
    <3> QED BY <3>2 DEF Footed
  <2> QED BY <2>1, <1>5, <1>6
<1>7. ASSUME NEW p \in Path, entry'[p] # Missing, NEW f, f = entry'[p], f \notin spoilt
      PROVE  Indexed(f)'
  <2>1. CASE f = entry[p]
    <3>1. f \in File /\ Found(f) /\ Indexed(f)
      BY <2>1, <1>1, <1>7 DEF PublishInv, PublishTypes, FooterInv
    <3>2. stage[w] # "ended"
      BY <1>1 DEF Write, StartWrite, WriteRecord, WriteFooter, CloseCandidate, Publish,
                  FailWrite, Goes, Busy
    <3>3. f # w
      BY <3>1, <3>2, <1>1, FoundKept
    <3>4. files'[f] = files[f]
      BY <3>1, <3>3, <1>4
    <3> QED BY <3>1, <3>4, <1>1 DEF Indexed, Footed, AllRecords, BlockAt
  <2>2. CASE f # entry[p]
    <3>1. Publish(w)
      BY <2>2, <1>1, <1>7
         DEF Write, StartWrite, WriteRecord, WriteFooter, CloseCandidate, FailWrite
    <3>2. f = w /\ stage[w] = "closed" /\ files' = files
      BY <3>1, <2>2, <1>1, <1>7 DEF Publish, Goes, PublishInv, PublishTypes
    <3>3. Footed(w)
      BY <3>2 DEF FooterInv
    <3> QED BY <3>2, <3>3 DEF Indexed, Footed
  <2> QED BY <2>1, <2>2
<1>8. \A p \in Path : entry'[p] # Missing /\ entry'[p] \notin spoilt' => Indexed(entry[p])'
  BY <1>1, <1>7 DEF Indexed, Footed, AllRecords, BlockAt
<1> QED BY <1>2, <1>3, <1>6, <1>8 DEF FooterInv

\* The file in whose footer the application ended is spoilt; nobody wrote to the others.
LEMMA CrashFooters == ASSUME FooterInv, ReadInv, Crash PROVE FooterInv'
<1>1. /\ UNCHANGED <<entry, files, total>> /\ spoilt \subseteq spoilt'
      /\ stage' = [w \in Writer |-> IF Busy(w) THEN "ended" ELSE stage[w]]
  BY DEF Crash, StopWriters
<1>2. RecordsEnd'
  BY <1>1 DEF FooterInv, RecordsEnd, Kept
<1>3. ASSUME NEW s \in Scanner PROVE OfAppend(s)'
  <2>1. scan'[s].at \notin {"open", "scanned", "append", "entries"}
    BY DEF Crash, HasOpen, ReadInv, ScanTypes, ScanState
  <2> QED BY <2>1 DEF OfAppend, Appending
<1>4. ASSUME NEW w \in Writer, stage'[w] \in {"indexed", "closed"} PROVE Footed(w)'
  <2>1. stage[w] \in {"indexed", "closed"}
    BY <1>1, <1>4
  <2> QED BY <2>1, <1>1, <1>4 DEF FooterInv, Footed, Busy
<1>5. ASSUME NEW p \in Path, entry[p] # Missing, entry[p] \notin spoilt'
      PROVE  Indexed(entry[p])'
  <2>1. Indexed(entry[p]) /\ entry[p] \in File
    BY <1>1, <1>5 DEF FooterInv, ReadInv, PublishInv, PublishTypes
  <2>2. ASSUME NEW s \in Scanner, scan[s].at = "entries", scan[s].file = entry[p] PROVE FALSE
    <3>1. scan[s].out = entry[p]
      BY <2>2 DEF ReadInv, OfScan, Appending
    <3>2. entry[p] \in spoilt'
      BY <2>1, <2>2, <3>1 DEF Crash
    <3> QED BY <3>2, <1>5
  <2>3. Footed(entry[p]) \/ AllRecords(entry[p], Len(files[entry[p]]))
    BY <2>1, <2>2 DEF Indexed
  <2> QED BY <2>3, <1>1 DEF Indexed, Footed, AllRecords, BlockAt
<1>6. \A p \in Path : entry'[p] # Missing /\ entry'[p] \notin spoilt' => Indexed(entry[p])'
  BY <1>1, <1>5
<1> QED BY <1>2, <1>3, <1>4, <1>6 DEF FooterInv

LEMMA FooterInvInit == ParsedInit => FooterInv
<1> SUFFICES ASSUME ParsedInit PROVE FooterInv
  OBVIOUS
<1>1. \A s \in Scanner : scan[s].at = "idle"
  BY DEF ParsedInit, NoScan
<1>2. RecordsEnd
  <2> SUFFICES ASSUME NEW f \in File, NEW i \in 1..Len(files[f]), files[f][i] = Record
               PROVE  i <= Kept(f)
    BY DEF RecordsEnd
  <2>1. PICK legacy \in SUBSET Path :
          files = [h \in File |-> IF h \in Writer THEN <<>> ELSE OldStore(h, legacy)]
    BY DEF ParsedInit, PublishInit
  <2>2. f \notin Writer
    <3>1. f \in Writer => files[f] = <<>>
      BY <2>1
    <3> QED BY <3>1
  <2>3. Record \in Block /\ Entries(f) \in Block /\ Trailer(f) \in Block
    BY BlocksDiffer
  <2>4. files[f] = <<Record>> \o (IF f \in legacy THEN <<>> ELSE <<Entries(f), Trailer(f)>>)
    <3>1. Records(1) = <<Record>>
      BY DEF Records
    <3> QED BY <3>1, <2>1, <2>2 DEF OldStore, Footer
  <2>5. CASE f \in legacy
    <3>1. Len(files[f]) = 1
      <4>1. files[f] = <<Record>> \o <<>>
        BY <2>4, <2>5
      <4> HIDE DEF Record, Block
      <4> QED BY <4>1, <2>3
    <3> QED BY <3>1, <2>2 DEF Kept
  <2>6. CASE f \notin legacy
    <3>1. files[f] = <<Record>> \o <<Entries(f), Trailer(f)>>
      BY <2>4, <2>6
    <3>2. <<Record>> \in Seq(Block) /\ <<Entries(f), Trailer(f)>> \in Seq(Block)
      <4> HIDE DEF Block, Record, Entries, Trailer
      <4> QED BY <2>3
    <3>3. Len(files[f]) = 3 /\ files[f][2] = Entries(f) /\ files[f][3] = Trailer(f)
      BY <3>1, <3>2
    <3>4. i = 1 \/ i = 2 \/ i = 3
      BY <3>3
    <3>5. i = 1
      BY <3>3, <3>4, BlocksDiffer
    <3> QED BY <3>5, <2>2 DEF Kept
  <2> QED BY <2>5, <2>6
<1>3. \A s \in Scanner : OfAppend(s)
  BY <1>1 DEF OfAppend, Appending
<1>4. \A w \in Writer : stage[w] = "idle"
  BY DEF ParsedInit, PublishInit
<1>5. ASSUME NEW p \in Path, entry[p] # Missing PROVE Indexed(entry[p])
  <2>1. PICK legacy \in SUBSET Path :
          files = [h \in File |-> IF h \in Writer THEN <<>> ELSE OldStore(h, legacy)]
    BY DEF ParsedInit, PublishInit
  <2>2. entry[p] = p /\ p \in File /\ p \notin Writer
    BY <1>5, PublishAssumption DEF ParsedInit, PublishInit, File, PublishAssumption
  <2>3. files[p] = <<Record>> \o (IF p \in legacy THEN <<>> ELSE <<Entries(p), Trailer(p)>>)
    <3>1. Records(1) = <<Record>>
      BY DEF Records
    <3> QED BY <3>1, <2>1, <2>2 DEF OldStore, Footer
  <2>4. Record \in Block /\ Entries(p) \in Block /\ Trailer(p) \in Block
    BY <2>2, BlocksDiffer
  <2>5. CASE p \in legacy
    <3>1. Len(files[p]) = 1 /\ files[p][1] = Record
      <4>1. files[p] = <<Record>> \o <<>>
        BY <2>3, <2>5
      <4> HIDE DEF Record, Block
      <4> QED BY <4>1, <2>4
    <3>2. AllRecords(p, 1)
      <4>1. \A i \in 1..1 : i = 1
        OBVIOUS
      <4> QED BY <3>1, <4>1 DEF AllRecords, BlockAt
    <3> QED BY <3>1, <3>2, <2>2 DEF Indexed
  <2>6. CASE p \notin legacy
    <3>1. files[p] = <<Record>> \o <<Entries(p), Trailer(p)>>
      BY <2>3, <2>6
    <3>2. <<Record>> \in Seq(Block) /\ <<Entries(p), Trailer(p)>> \in Seq(Block)
      <4> HIDE DEF Block, Record, Entries, Trailer
      <4> QED BY <2>4
    <3>3. Len(files[p]) = 3 /\ files[p][2] = Entries(p) /\ files[p][3] = Trailer(p)
      BY <3>1, <3>2
    <3>4. Footed(p)
      BY <3>3 DEF Footed
    <3> QED BY <3>4, <2>2 DEF Indexed
  <2> QED BY <2>5, <2>6
<1> QED BY <1>2, <1>3, <1>4, <1>5 DEF FooterInv

LEMMA FooterInvStep ==
  ASSUME ReplaceOpen = FALSE
  PROVE  FooterInv /\ ReadInv /\ [ParsedNext]_allVars => FooterInv'
<1> SUFFICES ASSUME FooterInv, ReadInv, [ParsedNext]_allVars PROVE FooterInv'
  OBVIOUS
<1>1. ASSUME NEW s \in Scanner, Scan(s) PROVE FooterInv'
  <2>1. CASE AppendEntries(s) \/ AppendTrailer(s) \/ FailAppend(s)
    BY <2>1, AppendEntriesFooters, AppendTrailerFooters, FailAppendFooters
  <2> QED BY <1>1, <2>1, OpenStoreFooters, ScanRecordsFooters, EndsFooters, OpenAppendFooters
          DEF Scan
<1>2. CASE UNCHANGED allVars
  BY <1>2 DEF allVars, readVars, publishVars, FooterInv, RecordsEnd, OfAppend, Kept,
              Appending, Indexed, Footed, AllRecords, BlockAt
<1> QED BY <1>1, <1>2, WriteFooters, CrashFooters DEF ParsedNext

LEMMA FootersDoNoHarm ==
  ASSUME FooterInv, ReadInv
  PROVE  FooterHarmless
<1> SUFFICES ASSUME NEW p \in Path, entry[p] # Missing, entry[p] \notin spoilt,
                    \A s \in Scanner : Appending(s) => scan[s].out # entry[p]
             PROVE  IndexOf(entry[p]) = entry[p]
  BY DEF FooterHarmless
<1> PICK f : f = entry[p]
  OBVIOUS
<1>1. f \in File /\ PublishInv /\ Indexed(f) /\ Len(files[f]) \in Nat
  BY DEF ReadInv, PublishInv, PublishTypes, FooterInv
<1>2. CASE Footed(f)
  BY <1>1, <1>2, FootedIndex, NoIndexIsNoFile DEF IndexOf
<1>3. CASE AllRecords(f, Len(files[f]))
  BY <1>1, <1>3, NoFooterIndex DEF IndexOf
<1>4. ASSUME NEW s \in Scanner, scan[s].at = "entries", scan[s].file = f PROVE FALSE
  <2>1. Appending(s) /\ scan[s].out = f
    BY <1>4 DEF ReadInv, OfScan, Appending
  <2> QED BY <2>1
<1> QED BY <1>1, <1>2, <1>3, <1>4 DEF Indexed

\* A failed acceleration write does not damage a store: one that is in place, and to
\* which no footer is being appended, has an index, its own.  So it is under any number of
\* readers, writers, failures and crashes, for stores of this version and for older ones,
\* whose footers are appended in place.  The exception is FooterHarmless's own: an older
\* store to which two readers appended at a time, or in whose footer the application ended.
THEOREM FootersAreHarmless == ReplaceOpen = FALSE => (ParsedSpec => []FooterHarmless)
<1> SUFFICES ASSUME ReplaceOpen = FALSE PROVE ParsedSpec => []FooterHarmless
  OBVIOUS
<1>1. ReadInv /\ [ParsedNext]_allVars => ReadInv'
  BY ReadInvStep
<1>2. FooterInv /\ ReadInv /\ [ParsedNext]_allVars => FooterInv'
  BY FooterInvStep
<1>3. ParsedInit => FooterInv
  BY FooterInvInit
<1>4. FooterInv /\ ReadInv => FooterHarmless
  BY FootersDoNoHarm
<1> QED BY <1>1, <1>2, <1>3, <1>4, ReadInvInit, PTL DEF ParsedSpec
=============================================================================
