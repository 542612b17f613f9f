------------------------------ MODULE ContactUndo ------------------------------
(***************************************************************************)
(* The contacts of a project, its recycle bin and its contact groups, and  *)
(* the undo stack of the commands on them.  The stack holds ids that were  *)
(* taken when a command ran, and not every operation goes through it.      *)
(*                                                                         *)
(* A contact is its id, its label and its group; every other field is only *)
(* carried along.  A default label stands for the number in it, and every  *)
(* contact starts with one: pasting is left out.  Ids of groups are random *)
(* and here the next that was never used.                                  *)
(***************************************************************************)
EXTENDS Naturals, SequencesExt

CONSTANTS
  NoGroup,
  Allowances   \* bounds: budgets, each saying how often the operator does each thing

ContactDeed == {"pick", "recycle", "assign", "newgroup", "dropgroup", "undo", "redo",
                "restore", "purge", "empty", "tree"}

ASSUME ContactAssumption == NoGroup \notin Nat /\ Allowances \subseteq [ContactDeed -> Nat]

VARIABLES
  items,    \* contacts, bin, groups, and the next ids of contacts and groups
  stack,    \* the undo stack: macros, sequences of commands
  index,    \* how many of them are done
  allowed   \* what is left of the budget

contactVars == <<items, stack, index, allowed>>

NoItems == [contacts |-> {}, bin |-> {}, groups |-> {}, next |-> 1, fresh |-> 1]

ContactInit ==
  /\ items = NoItems /\ stack = <<>> /\ index = 0
  /\ allowed \in Allowances

-----------------------------------------------------------------------------
(* The methods of Project.                                                 *)

ById(cs, id) == {c \in cs : c.id = id}

\* A contact without a label is called after its id.
NoLabel == 0
LabelFor(p, label) == IF label = NoLabel THEN p.next ELSE label
AddContact(p, label) ==
  [p EXCEPT !.contacts = @ \cup {[id |-> p.next, label |-> LabelFor(p, label), group |-> NoGroup]},
            !.next = @ + 1]

UpdateContact(p, c)   == [p EXCEPT !.contacts = {IF e.id = c.id THEN c ELSE e : e \in @}]
RemoveContact(p, id)  == [p EXCEPT !.contacts = @ \ ById(@, id)]
RecycleContact(p, id) == [RemoveContact(p, id) EXCEPT !.bin = @ \cup ById(p.contacts, id)]
PurgeContact(p, id)   == [p EXCEPT !.bin = @ \ ById(@, id)]
RestoreContact(p, id) == [PurgeContact(p, id) EXCEPT !.contacts = @ \cup ById(p.bin, id)]
EmptyRecycleBin(p)    == [p EXCEPT !.bin = {}]

AddContactGroup(p) == [p EXCEPT !.groups = @ \cup {p.fresh}, !.fresh = @ + 1]
\* Contacts in the bin are taken out of the group too.
RemoveContactGroup(p, grp) ==
  LET left(cs) == {[c EXCEPT !.group = IF @ = grp THEN NoGroup ELSE @] : c \in cs}
  IN [p EXCEPT !.contacts = left(@), !.bin = left(@), !.groups = @ \ {grp}]
SetContactGroups(p, ids, grp) ==
  [p EXCEPT !.contacts = {IF c.id \in ids THEN [c EXCEPT !.group = grp] ELSE c : c \in @}]

-----------------------------------------------------------------------------
(* The commands.  An add gets a new id whenever it is redone, and so does a *)
(* group; only the command that made it learns the id.                     *)

AddCommand               == [kind |-> "add", id |-> 0, label |-> NoLabel]
RecycleCommand(id)       == [kind |-> "recycle", id |-> id]
EditCommand(c, grp)      == [kind |-> "edit", before |-> c, after |-> [c EXCEPT !.group = grp]]
AddGroupCommand          == [kind |-> "group", id |-> NoGroup]
RemoveGroupCommand(p, grp) ==
  [kind |-> "ungroup", id |-> grp, members |-> {c.id : c \in {x \in p.contacts : x.group = grp}}]

Result(p, cmd) == [items |-> p, cmds |-> <<cmd>>]

RedoOne(p, cmd) ==
  CASE cmd.kind = "add" -> Result(AddContact(p, cmd.label),
                                  [cmd EXCEPT !.id = p.next, !.label = LabelFor(p, @)])
    [] cmd.kind = "recycle" -> Result(RecycleContact(p, cmd.id), cmd)
    [] cmd.kind = "edit" -> Result(UpdateContact(p, cmd.after), cmd)
    [] cmd.kind = "group" -> Result(AddContactGroup(p), [cmd EXCEPT !.id = p.fresh])
    [] cmd.kind = "ungroup" -> Result(RemoveContactGroup(p, cmd.id), cmd)

UndoOne(p, cmd) ==
  CASE cmd.kind = "add" -> Result(RemoveContact(p, cmd.id), cmd)
    [] cmd.kind = "recycle" -> Result(RestoreContact(p, cmd.id), cmd)
    [] cmd.kind = "edit" -> Result(UpdateContact(p, cmd.before), cmd)
    [] cmd.kind = "group" -> Result(RemoveContactGroup(p, cmd.id), cmd)
    [] cmd.kind = "ungroup" -> Result(SetContactGroups(AddContactGroup(p), cmd.members, p.fresh),
                                      [cmd EXCEPT !.id = p.fresh])

\* A macro is redone from its first command to its last and undone backwards.
RedoMacro(p, macro) ==
  FoldLeft(LAMBDA r, cmd : LET one == RedoOne(r.items, cmd)
                           IN [one EXCEPT !.cmds = r.cmds \o @],
           [items |-> p, cmds |-> <<>>], macro)
UndoMacro(p, macro) ==
  FoldRight(LAMBDA cmd, r : LET one == UndoOne(r.items, cmd)
                            IN [one EXCEPT !.cmds = @ \o r.cmds],
            macro, [items |-> p, cmds |-> <<>>])

-----------------------------------------------------------------------------
(* What the operator does.                                                 *)

Allowed(d) == allowed[d] > 0 /\ allowed' = [allowed EXCEPT ![d] = @ - 1]

\* QUndoStack::push runs the command, and what was undone can no longer be redone.
Push(d, macro) ==
  /\ Allowed(d)
  /\ items' = RedoMacro(items, macro).items
  /\ stack' = Append(SubSeq(stack, 1, index), RedoMacro(items, macro).cmds)
  /\ index' = index + 1

Pick == Push("pick", <<AddCommand>>)
Recycle(c) == Push("recycle", <<RecycleCommand(c.id)>>)
\* Those of a selection that change their group, in one macro.
Assign(cs, grp) ==
  LET moved == {c \in cs : c.group # grp}
  IN moved # {} /\ Push("assign", SetToSeq({EditCommand(c, grp) : c \in moved}))
\* The new group is given to some contacts, perhaps none, in the same macro.
NewGroup(cs) ==
  Push("newgroup", <<AddGroupCommand>> \o SetToSeq({EditCommand(c, items.fresh) : c \in cs}))
DropGroup(grp) == Push("dropgroup", <<RemoveGroupCommand(items, grp)>>)

Undo ==
  /\ index > 0 /\ Allowed("undo")
  /\ items' = UndoMacro(items, stack[index]).items
  /\ stack' = [stack EXCEPT ![index] = UndoMacro(items, @).cmds]
  /\ index' = index - 1
Redo ==
  /\ index < Len(stack) /\ Allowed("redo")
  /\ items' = RedoMacro(items, stack[index + 1]).items
  /\ stack' = [stack EXCEPT ![index + 1] = RedoMacro(items, @).cmds]
  /\ index' = index + 1

\* The bin's commands and those of the layer tree change the project alone.
Directly(d, p) == Allowed(d) /\ items' = p /\ UNCHANGED <<stack, index>>

Restore(c) == Directly("restore", RestoreContact(items, c.id))
Purge(c)   == Directly("purge", PurgeContact(items, c.id))
EmptyBin   == items.bin # {} /\ Directly("empty", EmptyRecycleBin(items))
TreeAssign(c, grp) == c.group # grp /\ Directly("tree", SetContactGroups(items, {c.id}, grp))
TreeNewGroup == Directly("tree", AddContactGroup(items))
TreeDropGroup(grp) == Directly("tree", RemoveContactGroup(items, grp))

ContactNext ==
  \/ Pick \/ Undo \/ Redo
  \/ \E c \in items.contacts : Recycle(c)
  \/ \E c \in items.contacts, grp \in items.groups \cup {NoGroup} : TreeAssign(c, grp)
  \/ \E cs \in SUBSET items.contacts :
       NewGroup(cs) \/ \E grp \in items.groups \cup {NoGroup} : Assign(cs, grp)
  \/ \E grp \in items.groups : DropGroup(grp) \/ TreeDropGroup(grp)
  \/ \E c \in items.bin : Restore(c) \/ Purge(c)
  \/ EmptyBin
  \/ TreeNewGroup

-----------------------------------------------------------------------------
(* What restoreEntitiesFromJson accepts, and what it makes of it.          *)

EntitiesValid(p) ==
  /\ \A c, d \in p.contacts \cup p.bin : c.id = d.id => c = d
  /\ \A c \in p.contacts, d \in p.bin : c.id # d.id

NextAfter(cs) == IF cs = {} THEN 1 ELSE 1 + CHOOSE n \in {c.id : c \in cs} : \A c \in cs : c.id <= n
Loaded_ActiveOnly(p) == [p EXCEPT !.next = NextAfter(p.contacts), !.fresh = items.fresh]
Loaded(p) == [p EXCEPT !.next = NextAfter(p.contacts \cup p.bin), !.fresh = items.fresh]

\* The stack of a project that is closed is cleared.
LoadContacts(p) ==
  /\ items' = p
  /\ stack' = <<>> /\ index' = 0
  /\ UNCHANGED allowed

-----------------------------------------------------------------------------
(* "All distinct, no reuse" (tests/test_contacts.cpp): no two contacts, the *)
(* recycled ones included, have an id or a default label in common,        *)
(* whatever is undone, redone, deleted for good, restored and opened again. *)
Distinct(p) ==
  /\ EntitiesValid(p)
  /\ \A c, d \in p.contacts \cup p.bin : c.label = d.label => c = d
ContactsDistinct == Distinct(items)
=============================================================================
