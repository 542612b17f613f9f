----------------------------- MODULE ProjectEditor -----------------------------
(***************************************************************************)
(* The node graph and the contacts of one project: edited side by side,    *)
(* written to one manifest, and lost together when it is refused.          *)
(***************************************************************************)
EXTENDS GraphEditor, ContactUndo

CONSTANT Errands   \* bounds: pairs of budgets, of Plans and of Allowances

VARIABLE saved     \* contacts, bin and groups in the file

projectVars == <<vars, contactVars, saved>>

ProjectInit ==
  /\ Init /\ ContactInit
  /\ saved = NoItems
  /\ <<left, allowed>> \in Errands

\* A step on the graph that leaves the project clean has saved all of it, or there was
\* nothing to save.
GraphStep ==
  /\ GraphEdit
  /\ saved' = IF dirty' THEN saved ELSE items
  /\ UNCHANGED contactVars

\* Saving is left to the timer.  A command that finds nothing to do may still say that
\* it did something.
ContactStep ==
  /\ EditElsewhere /\ ContactNext
  /\ items' # items => dirty'
  /\ saved' = saved

Save == SaveProject /\ saved' = items /\ UNCHANGED contactVars

ReopenProject ==
  /\ Reopen
  /\ opened' = (FromJson(manifest) /\ EntitiesValid(saved))
  /\ LoadContacts(IF opened' THEN Loaded(saved) ELSE NoItems)
  /\ saved' = saved

ProjectNext == GraphStep \/ ContactStep \/ Save \/ ReopenProject
ProjectSpec == ProjectInit /\ [][ProjectNext]_projectVars
=============================================================================
