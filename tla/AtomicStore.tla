----------------------------- MODULE AtomicStore -----------------------------
(***************************************************************************)
(* What the publication of .dlpd stores promises its readers: the path of  *)
(* a store names nothing, or the whole of what one writer had to write.    *)
(* A writer that fails, or that a crash of the application stops, has      *)
(* changed nothing.                                                        *)
(***************************************************************************)
CONSTANTS
  Path,     \* where stores are
  Writer,   \* one for each time a store is written
  Missing,  \* there is no store
  Imported  \* a store of an earlier session

VARIABLES
  published,  \* what a reader finds at a path
  aim         \* the path a writer works for, Missing when it does not

abstractVars == <<published, aim>>

AtomicInit ==
  /\ published \in [Path -> {Missing, Imported}]
  /\ aim = [w \in Writer |-> Missing]

Begin(w, p) ==
  /\ aim[w] = Missing
  /\ aim' = [aim EXCEPT ![w] = p]
  /\ UNCHANGED published

Commit(w) ==
  /\ aim[w] # Missing
  /\ published' = [published EXCEPT ![aim[w]] = w]
  /\ aim' = [aim EXCEPT ![w] = Missing]

Abort(ws) ==
  /\ aim' = [w \in Writer |-> IF w \in ws THEN Missing ELSE aim[w]]
  /\ UNCHANGED published

AtomicNext ==
  \/ \E w \in Writer : (\E p \in Path : Begin(w, p)) \/ Commit(w)
  \/ \E ws \in SUBSET Writer : Abort(ws)

AtomicSpec == AtomicInit /\ [][AtomicNext]_abstractVars
=============================================================================
