----------------------------- MODULE StorePublish -----------------------------
(***************************************************************************)
(* writeParsedCache and writeArtifactBufferToCache: a .dlpd store is       *)
(* written under a name of its own beside its destination and then takes   *)
(* the destination's place.  Import, bakes and graph runs write on pool    *)
(* threads, several at a time and perhaps to one path; a crash of the      *)
(* application stops them all and leaves their candidates behind.          *)
(*                                                                         *)
(* A file is what the directory entries name: a rename moves an entry, and *)
(* whoever has the file open keeps it.  It is the sequence of what was     *)
(* written after the header.  A file of an earlier session is called by    *)
(* the path that names it.                                                 *)
(***************************************************************************)
EXTENDS Naturals, Sequences

CONSTANTS
  Path,
  Writer,      \* one for each call of a write function; it names its file too
  Missing,     \* no entry
  Imported,    \* stands for what a store of an earlier session holds
  MaxRecords   \* bound: artifacts a source has

ASSUME PublishAssumption ==
  /\ MaxRecords \in Nat
  /\ Missing # Imported /\ {Missing, Imported} \cap Writer = {}
  /\ Path \cap Writer = {} /\ Missing \notin Path

VARIABLES
  entry,   \* the file a path names
  files,   \* the blocks of every file
  stage,   \* how far a writer is
  target,  \* the path it writes for
  total    \* the artifacts it has to write

publishVars == <<entry, files, stage, target, total>>

File  == Writer \cup Path
Stage == {"idle", "writing", "indexed", "closed", "ended"}

\* A record, and the index footer: an entry for each record of the file whose index
\* it is, then the trailer.
Record     == <<"record">>
Entries(f) == <<"entries", f>>
Trailer(f) == <<"trailer", f>>
Footer(f)  == <<Entries(f), Trailer(f)>>
Records(n) == [i \in 1..n |-> Record]

\* A store of an earlier session has one record and, if it is not too old, a footer.
OldStore(p, legacy) == Records(1) \o (IF p \in legacy THEN <<>> ELSE Footer(p))

PublishInit ==
  /\ \E present \in SUBSET Path :
       entry = [p \in Path |-> IF p \in present THEN p ELSE Missing]
  /\ \E legacy \in SUBSET Path :
       files = [f \in File |-> IF f \in Writer THEN <<>> ELSE OldStore(f, legacy)]
  /\ stage = [w \in Writer |-> "idle"]
  /\ target = [w \in Writer |-> Missing]
  /\ total = [w \in Writer |-> 0]

-----------------------------------------------------------------------------
Busy(w) == stage[w] \in {"writing", "indexed", "closed"}
Goes(w, from, to) == stage[w] = from /\ stage' = [stage EXCEPT ![w] = to]
Writes(w, blocks) == files' = [files EXCEPT ![w] = @ \o blocks]

\* The candidate is created and has its header.
StartWrite(w, p, n) ==
  /\ Goes(w, "idle", "writing")
  /\ target' = [target EXCEPT ![w] = p]
  /\ total' = [total EXCEPT ![w] = n]
  /\ UNCHANGED <<entry, files>>

WriteRecord(w) ==
  /\ Goes(w, "writing", "writing") /\ Len(files[w]) < total[w]
  /\ Writes(w, <<Record>>)
  /\ UNCHANGED <<entry, target, total>>

\* Every artifact is in, and there is one.
Indexable_Always(w) == TRUE
Indexable(w) == total[w] > 0 /\ Len(files[w]) = total[w]
WriteFooter(w) ==
  /\ Goes(w, "writing", "indexed") /\ Indexable(w)
  /\ Writes(w, Footer(w))
  /\ UNCHANGED <<entry, target, total>>

CloseCandidate(w) ==
  /\ Goes(w, "indexed", "closed")
  /\ UNCHANGED <<entry, files, target, total>>

\* replaceFileAtomically: the destination names the candidate's file.
Publish(w) ==
  /\ Goes(w, "closed", "ended")
  /\ entry' = [entry EXCEPT ![target[w]] = w]
  /\ UNCHANGED <<files, target, total>>

\* A step that fails, a source without artifacts among them, removes the candidate.
\* A replacement does where a reader has the destination open on Windows.
FailWrite(w) ==
  /\ Busy(w)
  /\ stage' = [stage EXCEPT ![w] = "ended"]
  /\ UNCHANGED <<entry, files, target, total>>

Write(w) ==
  \/ \E p \in Path, n \in 0..MaxRecords : StartWrite(w, p, n)
  \/ WriteRecord(w) \/ WriteFooter(w) \/ CloseCandidate(w) \/ Publish(w) \/ FailWrite(w)

\* The application is gone; what its writers wrote stays under names nobody reads.
StopWriters ==
  /\ stage' = [w \in Writer |-> IF Busy(w) THEN "ended" ELSE stage[w]]
  /\ UNCHANGED <<entry, files, target, total>>

PublishNext == (\E w \in Writer : Write(w)) \/ StopWriters
PublishSpec == PublishInit /\ [][PublishNext]_publishVars

-----------------------------------------------------------------------------
\* What a file is to a reader who wants its records.
WholeRecords(f, n) ==
  n > 0 /\ Len(files[f]) >= n /\ \A i \in 1..n : files[f][i] = Record
Content(f) ==
  IF f \in Writer THEN IF WholeRecords(f, total[f]) THEN f ELSE "torn"
  ELSE IF WholeRecords(f, 1) THEN Imported ELSE "torn"

Store == INSTANCE AtomicStore WITH
  published <- [p \in Path |-> IF entry[p] = Missing THEN Missing ELSE Content(entry[p])],
  aim <- [w \in Writer |-> IF Busy(w) THEN target[w] ELSE Missing]

\* "Do not publish a header-only cache": whatever fails and whenever the application
\* stops, readers find at the path of a store all records of one writer, or of the
\* store that was there.
PublishedWhole == Store!AtomicSpec
=============================================================================
