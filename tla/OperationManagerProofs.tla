------------------------ MODULE OperationManagerProofs ------------------------
(***************************************************************************)
(* What the OperationManager keeps whoever its clients are, for any number *)
(* of operations, keys and lanes and for every cap: the lanes are exact,   *)
(* the newest operation of a key is the one its table names, and every     *)
(* operation is accounted for.                                             *)
(*                                                                         *)
(* A slot is counted by running, held by an operation in launched and      *)
(* given to the head of a queue, so the counter is right only as long as   *)
(* no operation is in two places: LaneInv adds that a queued operation is  *)
(* not on the pool, is queued once, and waits in the lane it asked for.    *)
(***************************************************************************)
EXTENDS OperationManager, FiniteSetTheorems, TLAPS

laneVars == <<nextId, op, running, waiting, launched>>

InLane(l) == {o \in launched : op[o].lane = l}

LaneTypes ==
  /\ nextId \in Nat \ {0}
  /\ DOMAIN op = OpId
  /\ running \in [Lane -> Nat]
  /\ waiting \in [Lane -> Seq(OpId)]
  /\ launched \subseteq OpId
  /\ \A o \in launched : o < nextId

\* What waits in a lane was asked for it, is not on the pool and waits once.
QueuesApart ==
  \A l \in Lane :
    /\ \A i \in 1..Len(waiting[l]) : /\ waiting[l][i] \in OpId \ launched
                                     /\ waiting[l][i] < nextId
                                     /\ op[waiting[l][i]].lane = l
    /\ \A i, j \in 1..Len(waiting[l]) : waiting[l][i] = waiting[l][j] => i = j

LaneInv == LaneTypes /\ QueuesApart /\ LanesExact

-----------------------------------------------------------------------------
\* The lane's operations on the pool can be counted.
LEMMA InLaneFinite ==
  ASSUME launched \subseteq OpId, NEW l
  PROVE  IsFiniteSet(InLane(l))
<1>1. IsFiniteSet(OpId)
  BY OperationAssumption, FS_Interval, SMT DEF OpId, OperationAssumption
<1>2. InLane(l) \subseteq OpId
  BY DEF InLane
<1> QED BY <1>1, <1>2, FS_Subset

\* A lane's numbers.
LEMMA LaneNumbers ==
  ASSUME LaneTypes, LanesExact, NEW l \in Lane
  PROVE  /\ running[l] \in Nat /\ Cap[l] \in Nat /\ running[l] <= Cap[l]
         /\ running[l] = Cardinality(InLane(l)) /\ IsFiniteSet(InLane(l))
<1>1. running[l] \in Nat /\ Cap[l] \in Nat
  BY OperationAssumption DEF LaneTypes, OperationAssumption
<1>2. running[l] = Cardinality(InLane(l)) /\ running[l] <= Cap[l]
  BY DEF LanesExact, InLane
<1>3. IsFiniteSet(InLane(l))
  BY InLaneFinite DEF LaneTypes
<1> QED BY <1>1, <1>2, <1>3

\* The head and the tail of a nonempty queue.
LEMMA QueueTail ==
  ASSUME NEW q \in Seq(OpId), q # <<>>
  PROVE  /\ Head(q) = q[1] /\ Head(q) \in OpId
         /\ Tail(q) \in Seq(OpId)
         /\ Len(q) \in Nat \ {0} /\ Len(Tail(q)) = Len(q) - 1
         /\ \A i \in 1..Len(Tail(q)) : i + 1 \in 1..Len(q) /\ Tail(q)[i] = q[i + 1]
OBVIOUS

\* No lane is in use at the start.
LEMMA LaneInvInit == ManagerInit => LaneInv
<1> SUFFICES ASSUME ManagerInit PROVE LaneInv
  OBVIOUS
<1> USE DEF ManagerInit
<1>1. LaneTypes
  BY DEF LaneTypes
<1>2. QueuesApart
  BY DEF QueuesApart
<1>3. ASSUME NEW l \in Lane PROVE running[l] = Cardinality(InLane(l)) /\ running[l] <= Cap[l]
  <2>1. InLane(l) = {}
    BY DEF InLane
  <2> QED BY <2>1, FS_EmptySet, OperationAssumption DEF OperationAssumption
<1> QED BY <1>1, <1>2, <1>3 DEF LaneInv, LanesExact, InLane

\* A step that leaves the lanes alone keeps the invariant.
LEMMA LaneInvStutter == LaneInv /\ UNCHANGED laneVars => LaneInv'
<1> SUFFICES ASSUME LaneInv, UNCHANGED laneVars PROVE LaneInv'
  OBVIOUS
<1> USE DEF LaneInv, laneVars
<1>1. LaneTypes'
  BY DEF LaneTypes
<1>2. QueuesApart'
  BY DEF QueuesApart
<1>3. LanesExact'
  BY DEF LanesExact
<1> QED BY <1>1, <1>2, <1>3

-----------------------------------------------------------------------------
\* run queues the operation or takes a slot that is free.
LEMMA RunKeeps == LaneInv /\ RunNext => LaneInv'
<1> SUFFICES ASSUME LaneInv, RunNext PROVE LaneInv'
  OBVIOUS
<1> DEFINE r == Top.request
<1> USE DEF LaneInv
<1>1. /\ nextId \in OpId /\ nextId \notin launched
      /\ nextId' = nextId + 1
      /\ op' = [op EXCEPT ![nextId] = r] /\ op'[nextId] = r
      /\ \A o \in OpId : o < nextId => op'[o] = op[o]
  BY OperationAssumption DEF RunNext, LaneTypes, OpId, OperationAssumption
<1>2. \A l \in Lane : \A i \in 1..Len(waiting[l]) :
        /\ waiting[l][i] \in OpId \ launched /\ waiting[l][i] # nextId
        /\ waiting[l][i] < nextId' /\ op'[waiting[l][i]].lane = l
  <2> SUFFICES ASSUME NEW l \in Lane, NEW i \in 1..Len(waiting[l])
               PROVE  /\ waiting[l][i] \in OpId \ launched /\ waiting[l][i] # nextId
                      /\ waiting[l][i] < nextId' /\ op'[waiting[l][i]].lane = l
    OBVIOUS
  <2>1. /\ waiting[l][i] \in OpId \ launched /\ waiting[l][i] < nextId
        /\ op[waiting[l][i]].lane = l
    BY DEF QueuesApart
  <2>2. waiting[l][i] \in Nat /\ nextId \in Nat
    BY <2>1 DEF OpId, LaneTypes
  <2> QED BY <1>1, <2>1, <2>2
<1>3. CASE Waits(r)
  <2>1. /\ waiting' = [waiting EXCEPT ![r.lane] = Append(@, nextId)]
        /\ running' = running /\ launched' = launched /\ r.lane \in Lane
    BY <1>3 DEF RunNext, Waits
  <2>2. LaneTypes'
    BY <1>1, <2>1 DEF LaneTypes
  <2>3. QueuesApart'
    <3> SUFFICES ASSUME NEW l \in Lane
                 PROVE  /\ \A i \in 1..Len(waiting'[l]) :
                             /\ waiting'[l][i] \in OpId \ launched'
                             /\ waiting'[l][i] < nextId'
                             /\ op'[waiting'[l][i]].lane = l
                        /\ \A i, j \in 1..Len(waiting'[l]) :
                             waiting'[l][i] = waiting'[l][j] => i = j
      BY DEF QueuesApart
    <3>1. CASE l = r.lane
      <4> DEFINE q == waiting[l]
      <4>1. q \in Seq(OpId) /\ waiting'[l] = Append(q, nextId)
        BY <2>1, <3>1 DEF LaneTypes
      <4>2. /\ Len(waiting'[l]) = Len(q) + 1 /\ Len(q) \in Nat
            /\ waiting'[l][Len(q) + 1] = nextId
            /\ \A i \in 1..Len(q) : waiting'[l][i] = q[i]
        BY <1>1, <4>1
      <4>3. \A i \in 1..Len(waiting'[l]) : i \in 1..Len(q) \/ i = Len(q) + 1
        BY <4>2
      <4>4. \A i \in 1..Len(waiting'[l]) :
              /\ waiting'[l][i] \in OpId \ launched'
              /\ waiting'[l][i] < nextId'
              /\ op'[waiting'[l][i]].lane = l
        BY <1>1, <1>2, <2>1, <3>1, <4>2, <4>3 DEF LaneTypes
      <4>5. /\ \A i, j \in 1..Len(q) : q[i] = q[j] => i = j
            /\ \A i \in 1..Len(q) : q[i] # nextId
        BY <1>2 DEF QueuesApart
      <4> QED BY <4>2, <4>3, <4>4, <4>5
    <3>2. CASE l # r.lane
      <4>1. waiting'[l] = waiting[l]
        BY <2>1, <3>2 DEF LaneTypes
      <4>2. \A i, j \in 1..Len(waiting[l]) : waiting[l][i] = waiting[l][j] => i = j
        BY DEF QueuesApart
      <4>3. \A i \in 1..Len(waiting'[l]) : /\ waiting'[l][i] \in OpId \ launched'
                                           /\ waiting'[l][i] < nextId'
                                           /\ op'[waiting'[l][i]].lane = l
        BY <1>2, <2>1, <4>1
      <4> HIDE DEF LaneInv
      <4> QED BY <4>1, <4>2, <4>3
    <3> QED BY <3>1, <3>2
  <2>4. \A l \in Lane : InLane(l)' = InLane(l)
    BY <1>1, <2>1 DEF InLane, LaneTypes
  <2> QED BY <2>1, <2>2, <2>3, <2>4 DEF LanesExact, InLane
<1>4. CASE ~Waits(r)
  <2>1. /\ waiting' = waiting /\ launched' = launched \cup {nextId}
        /\ running' = IF r.lane \in Lane THEN [running EXCEPT ![r.lane] = @ + 1] ELSE running
    BY <1>4 DEF RunNext
  <2>2. LaneTypes'
    BY <1>1, <2>1 DEF LaneTypes
  <2>3. QueuesApart'
    BY <1>2, <2>1 DEF QueuesApart
  <2>4. ASSUME NEW l \in Lane
        PROVE  running'[l] = Cardinality(InLane(l)') /\ running'[l] <= Cap[l]
    <3>1. CASE l = r.lane
      <4>1. InLane(l)' = InLane(l) \cup {nextId} /\ nextId \notin InLane(l)
        BY <1>1, <2>1, <3>1 DEF InLane, LaneTypes
      <4>2. Cardinality(InLane(l)') = Cardinality(InLane(l)) + 1
        BY <4>1, LaneNumbers, FS_AddElement
      <4>3. running'[l] = running[l] + 1 /\ running[l] < Cap[l]
        BY <1>4, <2>1, <3>1, LaneNumbers DEF Waits, LaneTypes
      <4> QED BY <4>2, <4>3, LaneNumbers
    <3>2. CASE l # r.lane
      <4>1. InLane(l)' = InLane(l)
        BY <1>1, <2>1, <3>2 DEF InLane, LaneTypes
      <4> QED BY <2>1, <3>2, <4>1 DEF LanesExact, InLane, LaneTypes
    <3> QED BY <3>1, <3>2
  <2> QED BY <2>2, <2>3, <2>4 DEF LanesExact, InLane
<1> QED BY <1>3, <1>4

\* finishOp gives back the slot of the operation that leaves the pool; the guard
\* against a negative counter never bites.
LEMMA FinishKeeps == ASSUME LaneInv, NEW o \in OpId, Finish(o) PROVE LaneInv'
<1> USE DEF LaneInv
<1> DEFINE l0 == op[o].lane
<1>1. /\ o \in launched /\ launched' = launched \ {o}
      /\ nextId' = nextId /\ op' = op /\ waiting' = waiting
      /\ running' = IF l0 \in Lane /\ running[l0] > 0
                    THEN [running EXCEPT ![l0] = @ - 1] ELSE running
  BY DEF Finish
<1>2. LaneTypes'
  BY <1>1 DEF LaneTypes
<1>3. QueuesApart'
  BY <1>1 DEF QueuesApart
<1>4. ASSUME NEW l \in Lane
      PROVE  running'[l] = Cardinality(InLane(l)') /\ running'[l] <= Cap[l]
  <2>1. CASE l = l0
    <3>1. o \in InLane(l) /\ InLane(l)' = InLane(l) \ {o}
      BY <1>1, <2>1 DEF InLane
    <3>2. /\ Cardinality(InLane(l)') = Cardinality(InLane(l)) - 1
          /\ Cardinality(InLane(l)') \in Nat
      <4>1. IsFiniteSet(InLane(l)')
        BY <3>1, LaneNumbers, FS_RemoveElement
      <4> QED BY <3>1, <4>1, LaneNumbers, FS_RemoveElement, FS_CardinalityType
    <3>3. running[l] > 0
      BY <3>2, LaneNumbers
    <3>4. running'[l] = running[l] - 1
      BY <1>1, <2>1, <3>3 DEF LaneTypes
    <3> QED BY <3>2, <3>4, LaneNumbers
  <2>2. CASE l # l0
    <3>1. InLane(l)' = InLane(l)
      BY <1>1, <2>2 DEF InLane
    <3> QED BY <1>1, <2>2, <3>1 DEF LanesExact, InLane, LaneTypes
  <2> QED BY <2>1, <2>2
<1> QED BY <1>2, <1>3, <1>4 DEF LanesExact, InLane

\* A queue that loses its head keeps the rest apart.
LEMMA TailApart ==
  ASSUME LaneTypes, QueuesApart, NEW l \in Lane, waiting[l] # <<>>
  PROVE  /\ \A i \in 1..Len(Tail(waiting[l])) :
              /\ Tail(waiting[l])[i] \in OpId \ (launched \cup {Head(waiting[l])})
              /\ Tail(waiting[l])[i] < nextId
              /\ op[Tail(waiting[l])[i]].lane = l
         /\ \A i, j \in 1..Len(Tail(waiting[l])) :
              Tail(waiting[l])[i] = Tail(waiting[l])[j] => i = j
<1>1. waiting[l] \in Seq(OpId)
  BY DEF LaneTypes
<1>2. 1 \in 1..Len(waiting[l])
  BY <1>1, QueueTail
<1> QED BY <1>1, <1>2, QueueTail DEF QueuesApart

\* pumpLane drops the head of a queue.
LEMMA DropKeeps == ASSUME LaneInv, NEW l \in Lane, PumpDrop(l) PROVE LaneInv'
<1> USE DEF LaneInv
<1>1. /\ waiting[l] # <<>> /\ waiting' = [waiting EXCEPT ![l] = Tail(@)]
      /\ UNCHANGED <<nextId, op, running, launched>>
  BY DEF PumpDrop, CanPump
<1>2. LaneTypes'
  BY <1>1, QueueTail DEF LaneTypes
<1>3. QueuesApart'
  BY <1>1, TailApart DEF QueuesApart, LaneTypes
<1>4. LanesExact'
  BY <1>1 DEF LanesExact
<1> QED BY <1>2, <1>3, <1>4

\* pumpLane starts the head of a queue: the slot is free and nobody else's.
LEMMA StartKeeps == ASSUME LaneInv, NEW l \in Lane, PumpStart(l) PROVE LaneInv'
<1> USE DEF LaneInv
<1> DEFINE o == Head(waiting[l])
<1>1. /\ waiting[l] # <<>> /\ waiting' = [waiting EXCEPT ![l] = Tail(@)]
      /\ running[l] < Cap[l] /\ running' = [running EXCEPT ![l] = @ + 1]
      /\ launched' = launched \cup {o} /\ UNCHANGED <<nextId, op>>
  BY DEF PumpStart, CanPump
<1>2. o \in OpId \ launched /\ o < nextId /\ op[o].lane = l
  BY <1>1, QueueTail DEF LaneTypes, QueuesApart
<1>3. LaneTypes'
  BY <1>1, <1>2, QueueTail DEF LaneTypes
<1>4. QueuesApart'
  <2> SUFFICES ASSUME NEW k \in Lane
               PROVE  /\ \A i \in 1..Len(waiting'[k]) :
                           /\ waiting'[k][i] \in OpId \ launched'
                           /\ waiting'[k][i] < nextId'
                           /\ op'[waiting'[k][i]].lane = k
                      /\ \A i, j \in 1..Len(waiting'[k]) :
                           waiting'[k][i] = waiting'[k][j] => i = j
    BY DEF QueuesApart
  <2>1. CASE k = l
    BY <1>1, <2>1, TailApart DEF LaneTypes
  <2>2. CASE k # l
    BY <1>1, <1>2, <2>2 DEF LaneTypes, QueuesApart
  <2> QED BY <2>1, <2>2
<1>5. ASSUME NEW k \in Lane
      PROVE  running'[k] = Cardinality(InLane(k)') /\ running'[k] <= Cap[k]
  <2>1. CASE k = l
    <3>1. InLane(k)' = InLane(k) \cup {o} /\ o \notin InLane(k)
      BY <1>1, <1>2, <2>1 DEF InLane
    <3>2. Cardinality(InLane(k)') = Cardinality(InLane(k)) + 1
      BY <3>1, LaneNumbers, FS_AddElement
    <3>3. running'[k] = running[k] + 1 /\ running[k] < Cap[k]
      BY <1>1, <2>1 DEF LaneTypes
    <3> QED BY <3>2, <3>3, LaneNumbers
  <2>2. CASE k # l
    <3>1. InLane(k)' = InLane(k)
      BY <1>1, <1>2, <2>2 DEF InLane
    <3> QED BY <1>1, <2>2, <3>1 DEF LanesExact, InLane, LaneTypes
  <2> QED BY <2>1, <2>2
<1> QED BY <1>3, <1>4, <1>5 DEF LanesExact, InLane

\* cancelAll empties a queue and leaves the counter to the operations that run.
LEMMA ClearKeeps == LaneInv /\ SweepClear => LaneInv'
<1> SUFFICES ASSUME LaneInv, SweepClear PROVE LaneInv'
  OBVIOUS
<1>1. /\ waiting' = [waiting EXCEPT ![Top.lane] = <<>>]
      /\ UNCHANGED <<nextId, op, running, launched>>
  BY DEF SweepClear
<1>2. \A l \in Lane : waiting'[l] = waiting[l] \/ waiting'[l] = <<>>
  BY <1>1 DEF LaneInv, LaneTypes
<1>3. <<>> \in Seq(OpId) /\ Len(<<>>) = 0
  OBVIOUS
<1>4. LaneTypes'
  BY <1>1, <1>3 DEF LaneInv, LaneTypes
<1>5. QueuesApart'
  BY <1>1, <1>2, <1>3 DEF LaneInv, QueuesApart
<1>6. LanesExact'
  BY <1>1 DEF LaneInv, LanesExact
<1> QED BY <1>4, <1>5, <1>6 DEF LaneInv

\* One step of the manager.
LEMMA ManagerKeeps == LaneInv /\ ManagerStep => LaneInv'
<1> SUFFICES ASSUME LaneInv, ManagerStep PROVE LaneInv'
  OBVIOUS
<1>1. CASE RunNext         BY <1>1, RunKeeps
<1>2. CASE SettleCancelled BY <1>2, LaneInvStutter DEF SettleCancelled, laneVars
<1>3. ASSUME NEW l \in Lane, PumpDrop(l) PROVE LaneInv'
  BY <1>3, DropKeeps
<1>4. ASSUME NEW l \in Lane, PumpStart(l) PROVE LaneInv'
  BY <1>4, StartKeeps
<1>5. CASE PumpDone        BY <1>5, LaneInvStutter DEF PumpDone, laneVars
<1>6. CASE CancelAll       BY <1>6, LaneInvStutter DEF CancelAll, laneVars
<1>7. CASE SweepNext       BY <1>7, LaneInvStutter DEF SweepNext, laneVars
<1>8. CASE SweepClear      BY <1>8, ClearKeeps
<1> QED BY <1>1, <1>2, <1>3, <1>4, <1>5, <1>6, <1>7, <1>8 DEF ManagerStep

-----------------------------------------------------------------------------
(* The books of keys.                                                      *)

\* No operation of the same key was asked for after one of S, unless it is cancelled.
Newest(S) ==
  \A o \in S \ cancelled : op[o].key \in Key =>
    \A p \in Asked : op[p].key = op[o].key => p <= o

\* m_keyed names registered operations, under their keys, and every one that no
\* cancel has reached.
KeyBooks ==
  /\ entries \subseteq Asked
  /\ keyed \in [Key -> OpId \cup {NoOp}]
  /\ \A k \in Key : keyed[k] # NoOp => keyed[k] \in entries /\ op[keyed[k]].key = k
  /\ \A o \in entries \ cancelled : op[o].key \in Key => keyed[op[o].key] = o
  /\ Newest(entries)

\* No operation is registered at the start.
LEMMA KeyInit == ManagerInit => KeyBooks
BY DEF ManagerInit, KeyBooks, Newest

\* A step that leaves the books alone, or only cancels more operations.
LEMMA KeyCancel ==
  ASSUME KeyBooks, UNCHANGED <<nextId, op, entries, keyed>>, cancelled \subseteq cancelled'
  PROVE  KeyBooks'
BY DEF KeyBooks, Newest, Asked

\* run cancels the operation its request supersedes and registers the new one,
\* whose id is above all others.
LEMMA KeyRun == LaneTypes /\ KeyBooks /\ RunNext => KeyBooks'
<1> SUFFICES ASSUME LaneTypes, KeyBooks, RunNext PROVE KeyBooks'
  OBVIOUS
<1> DEFINE r == Top.request
<1>1. /\ nextId \in OpId /\ nextId' = nextId + 1
      /\ op' = [op EXCEPT ![nextId] = r]
      /\ entries' = entries \cup {nextId} /\ cancelled' = cancelled \cup Superseded(r)
      /\ keyed' = IF r.key \in Key THEN [keyed EXCEPT ![r.key] = nextId] ELSE keyed
  BY OperationAssumption DEF RunNext, LaneTypes, OpId, OperationAssumption
<1>2. /\ Asked' = Asked \cup {nextId} /\ nextId \notin Asked
      /\ \A p \in Asked : p \in OpId /\ p < nextId /\ p # nextId
  BY <1>1 DEF Asked, OpId
<1>3. op'[nextId] = r /\ \A p \in Asked : op'[p] = op[p]
  BY <1>1, <1>2 DEF LaneTypes
<1>4. /\ entries' \subseteq Asked'
      /\ keyed' \in [Key -> OpId \cup {NoOp}]
  BY <1>1, <1>2 DEF KeyBooks
<1>5. ASSUME NEW k \in Key, keyed'[k] # NoOp
      PROVE  keyed'[k] \in entries' /\ op'[keyed'[k]].key = k
  <2>1. CASE k = r.key
    BY <1>1, <1>3, <2>1 DEF KeyBooks
  <2>2. CASE k # r.key
    <3>1. keyed'[k] = keyed[k]
      BY <1>1, <2>2 DEF KeyBooks
    <3> QED BY <1>1, <1>3, <1>5, <3>1 DEF KeyBooks
  <2> QED BY <2>1, <2>2
<1>6. ASSUME NEW o \in entries' \ cancelled', op'[o].key \in Key
      PROVE  /\ keyed'[op'[o].key] = o
             /\ \A p \in Asked' : op'[p].key = op'[o].key => p <= o
  <2>1. CASE o = nextId
    <3>1. keyed'[op'[o].key] = o
      BY <1>1, <1>3, <1>6, <2>1 DEF KeyBooks
    <3>2. \A p \in Asked' : p <= nextId
      BY <1>1, <1>2 DEF OpId
    <3> QED BY <2>1, <3>1, <3>2
  <2>2. CASE o # nextId
    <3>1. o \in entries \ cancelled /\ o \in Asked /\ op'[o] = op[o]
      BY <1>1, <1>3, <2>2 DEF KeyBooks
    <3>2. keyed[op[o].key] = o /\ \A p \in Asked : op[p].key = op[o].key => p <= o
      BY <1>6, <3>1 DEF KeyBooks, Newest
    <3>3. r.key # op[o].key
      BY <1>1, <1>6, <3>1, <3>2 DEF Superseded
    <3>4. keyed'[op[o].key] = o
      BY <1>1, <1>6, <3>1, <3>2, <3>3 DEF KeyBooks
    <3> QED BY <1>2, <1>3, <3>1, <3>2, <3>3, <3>4
  <2> QED BY <2>1, <2>2
<1> QED BY <1>4, <1>5, <1>6 DEF KeyBooks, Newest

\* An operation leaves the books, and m_keyed only if it is the one named there.
LEMMA KeyEnd ==
  ASSUME KeyBooks, NEW o, entries' = entries \ {o}, keyed' = KeyedWithout(o),
         UNCHANGED <<nextId, op, cancelled>>
  PROVE  KeyBooks'
<1>1. \A k \in Key : keyed'[k] = IF keyed[k] = o THEN NoOp ELSE keyed[k]
  BY DEF KeyedWithout
<1>2. keyed' \in [Key -> OpId \cup {NoOp}]
  BY DEF KeyBooks, KeyedWithout
<1>3. Asked' = Asked /\ entries' \subseteq Asked
  BY DEF KeyBooks, Asked
<1>4. \A k \in Key : keyed'[k] # NoOp => keyed'[k] \in entries' /\ op[keyed'[k]].key = k
  BY <1>1 DEF KeyBooks
<1>5. \A p \in entries' \ cancelled : op[p].key \in Key => keyed'[op[p].key] = p
  BY <1>1 DEF KeyBooks
<1>6. Newest(entries)
  BY DEF KeyBooks
<1>7. Newest(entries)'
  BY <1>3, <1>6 DEF Newest
<1> QED BY <1>2, <1>3, <1>4, <1>5, <1>7 DEF KeyBooks

\* The books of keys hold whatever the clients do between the manager's steps.
LEMMA KeyManager == LaneTypes /\ KeyBooks /\ ManagerStep => KeyBooks'
<1> SUFFICES ASSUME LaneTypes, KeyBooks, ManagerStep PROVE KeyBooks'
  OBVIOUS
<1>1. CASE RunNext         BY <1>1, KeyRun
<1>2. CASE SettleCancelled BY <1>2, KeyCancel DEF SettleCancelled
<1>3. ASSUME NEW l \in Lane, PumpDrop(l) PROVE KeyBooks'
  BY <1>3, KeyEnd DEF PumpDrop
<1>4. ASSUME NEW l \in Lane, PumpStart(l) PROVE KeyBooks'
  BY <1>4, KeyCancel DEF PumpStart
<1>5. CASE PumpDone        BY <1>5, KeyCancel DEF PumpDone
<1>6. CASE CancelAll       BY <1>6, KeyCancel DEF CancelAll
<1>7. CASE SweepNext       BY <1>7, KeyEnd DEF SweepNext
<1>8. CASE SweepClear      BY <1>8, KeyCancel DEF SweepClear
<1> QED BY <1>1, <1>2, <1>3, <1>4, <1>5, <1>6, <1>7, <1>8 DEF ManagerStep

\* So does a finished handler.
LEMMA KeyFinish == ASSUME KeyBooks, NEW o \in OpId, Finish(o) PROVE KeyBooks'
BY KeyEnd DEF Finish

-----------------------------------------------------------------------------
(* The ledger of operations.                                               *)

InQueue(o, q) == \E i \in 1..Len(q) : q[i] = o

\* On a stack c: the operations that have left the books and wait for their
\* on_finally, those about to deliver, and the turns of a sweep of lane l.
OwedIn(c)      == {o \in OpId : \E i \in DOMAIN c : c[i].call \in {"settle", "finally"} /\ c[i].op = o}
SettlingIn(c)  == {o \in OpId : \E i \in DOMAIN c : c[i].call = "settle" /\ c[i].op = o}
SweepingIn(c, l) == {i \in DOMAIN c : c[i].call = "sweep" /\ c[i].lane = l}

Owed     == OwedIn(calls)
Settling == SettlingIn(calls)
\* Operations that wait in a lane and that no sweep has passed.
Still    == {o \in OpId : \E l \in Lane : /\ InQueue(o, waiting[l])
                                         /\ \A i \in SweepingIn(calls, l) : InQueue(o, calls[i].todo)}

\* Every operation asked for is registered, owed its on_finally, or has had it,
\* once; and those registered are on the pool or wait.
Ledger ==
  /\ Owed \subseteq Asked \ entries
  /\ entries = launched \cup Still
  /\ finals = [o \in OpId |-> IF o \in Asked \ (Owed \cup entries) THEN 1 ELSE 0]

\* What still waits is not on the pool, and was asked for.
LEMMA StillApart ==
  ASSUME LaneInv
  PROVE  Still \cap launched = {} /\ Still \subseteq Asked /\ launched \subseteq Asked
<1>1. ASSUME NEW o \in Still PROVE o \notin launched /\ o \in Asked
  <2>1. PICK l \in Lane : InQueue(o, waiting[l])
    BY DEF Still
  <2>2. PICK i \in 1..Len(waiting[l]) : waiting[l][i] = o
    BY <2>1 DEF InQueue
  <2> QED BY <2>2 DEF LaneInv, QueuesApart, Asked
<1> QED BY <1>1 DEF LaneInv, LaneTypes, Asked

\* Without a sweep under way an operation waits if it is in a queue.
LEMMA StillQueued ==
  ASSUME \A l \in Lane : SweepingIn(calls, l) = {}
  PROVE  Still = {o \in OpId : \E l \in Lane : InQueue(o, waiting[l])}
BY DEF Still

\* The tail of a queue without repetitions holds all but its head.
LEMMA TailQueue ==
  ASSUME NEW q \in Seq(OpId), q # <<>>, \A i, j \in 1..Len(q) : q[i] = q[j] => i = j
  PROVE  /\ Head(q) \in OpId /\ InQueue(Head(q), q) /\ Tail(q) \in Seq(OpId)
         /\ \A x : InQueue(x, Tail(q)) <=> InQueue(x, q) /\ x # Head(q)
         /\ \A i, j \in 1..Len(Tail(q)) : Tail(q)[i] = Tail(q)[j] => i = j
<1>1. /\ Head(q) \in OpId /\ InQueue(Head(q), q) /\ Tail(q) \in Seq(OpId)
  BY QueueTail DEF InQueue
<1>2. ASSUME NEW x, InQueue(x, Tail(q)) PROVE InQueue(x, q) /\ x # Head(q)
  <2>1. PICK i \in 1..Len(Tail(q)) : Tail(q)[i] = x
    BY <1>2 DEF InQueue
  <2>2. i + 1 \in 1..Len(q) /\ q[i + 1] = x /\ 1 \in 1..Len(q) /\ i + 1 # 1 /\ Head(q) = q[1]
    BY <2>1, QueueTail
  <2> QED BY <2>2 DEF InQueue
<1>3. ASSUME NEW x, InQueue(x, q), x # Head(q) PROVE InQueue(x, Tail(q))
  <2>1. PICK i \in 1..Len(q) : q[i] = x
    BY <1>3 DEF InQueue
  <2>2. i # 1 /\ i - 1 \in 1..Len(Tail(q)) /\ Tail(q)[i - 1] = x
    BY <1>3, <2>1, QueueTail
  <2> QED BY <2>2 DEF InQueue
<1>4. ASSUME NEW i \in 1..Len(Tail(q)), NEW j \in 1..Len(Tail(q)), Tail(q)[i] = Tail(q)[j]
      PROVE  i = j
  BY <1>4, QueueTail
<1> QED BY <1>1, <1>2, <1>3, <1>4

\* A step that leaves the ledger alone.
LEMMA LedgerStays ==
  ASSUME Ledger, UNCHANGED <<nextId, entries, finals, launched>>, Owed' = Owed, Still' = Still
  PROVE  Ledger'
BY DEF Ledger, Asked

\* run opens an account.
LEMMA LedgerRun ==
  ASSUME LaneTypes, Ledger, RunNext, Owed' = Owed,
         Still' = IF Waits(Top.request) THEN Still \cup {nextId} ELSE Still
  PROVE  Ledger'
<1>1. /\ nextId \in OpId /\ nextId' = nextId + 1 /\ entries' = entries \cup {nextId}
      /\ finals' = finals
      /\ launched' = IF Waits(Top.request) THEN launched ELSE launched \cup {nextId}
  BY OperationAssumption DEF RunNext, LaneTypes, OpId, OperationAssumption
<1>2. /\ Asked' = Asked \cup {nextId} /\ nextId \notin Asked
  BY <1>1 DEF Asked, OpId
<1>3. entries' = launched' \cup Still'
  BY <1>1 DEF Ledger
<1> QED BY <1>1, <1>2, <1>3 DEF Ledger

\* An operation on the pool finishes.
LEMMA LedgerFinish ==
  ASSUME LaneInv, Ledger, NEW o \in OpId, Finish(o), Owed' = Owed \cup {o}, Still' = Still
  PROVE  Ledger'
BY StillApart DEF Ledger, Finish, Asked

\* One that waits is dropped.
LEMMA LedgerDrop ==
  ASSUME LaneInv, Ledger, NEW o \in Still, entries' = entries \ {o},
         UNCHANGED <<nextId, launched, finals>>, Owed' = Owed \cup {o}, Still' = Still \ {o}
  PROVE  Ledger'
BY StillApart DEF Ledger, Asked

\* One that waits is started.
LEMMA LedgerStart ==
  ASSUME Ledger, NEW o \in Still, launched' = launched \cup {o},
         UNCHANGED <<nextId, entries, finals>>, Owed' = Owed, Still' = Still \ {o}
  PROVE  Ledger'
BY DEF Ledger, Asked

\* on_finally closes the account.
LEMMA LedgerFinal ==
  ASSUME Ledger, NEW o \in Owed, finals' = [finals EXCEPT ![o] = @ + 1],
         UNCHANGED <<nextId, entries, launched>>, Owed' = Owed \ {o}, Still' = Still
  PROVE  Ledger'
BY DEF Ledger, Asked

-----------------------------------------------------------------------------
(* What the books say at rest.                                             *)

\* The places of an operation in the queues.
LEMMA PlacesOf ==
  ASSUME LaneTypes, NEW o
  PROVE  \A l, i : <<l, i>> \in Places(o) <=> l \in Lane /\ i \in 1..Len(waiting[l]) /\ waiting[l][i] = o
<1>1. \A l \in Lane : DOMAIN waiting[l] = 1..Len(waiting[l])
  BY DEF LaneTypes
<1> QED BY <1>1 DEF Places

\* There is at most one.
LEMMA OnePlace ==
  ASSUME LaneInv, NEW o, Places(o) # {}
  PROVE  Cardinality(Places(o)) = 1
<1>1. PICK p \in Places(o) : TRUE
  OBVIOUS
<1>2. PICK l \in Lane : \E i \in 1..Len(waiting[l]) : p = <<l, i>> /\ waiting[l][i] = o
  BY <1>1 DEF Places, LaneInv, LaneTypes
<1>3. PICK i \in 1..Len(waiting[l]) : p = <<l, i>> /\ waiting[l][i] = o
  BY <1>2
<1>4. ASSUME NEW q \in Places(o) PROVE q = p
  <2>1. PICK k \in Lane : \E j \in 1..Len(waiting[k]) : q = <<k, j>> /\ waiting[k][j] = o
    BY <1>4 DEF Places, LaneInv, LaneTypes
  <2>2. PICK j \in 1..Len(waiting[k]) : q = <<k, j>> /\ waiting[k][j] = o
    BY <2>1
  <2>3. k = l
    BY <1>3, <2>2 DEF LaneInv, QueuesApart
  <2>4. j = i
    BY <1>3, <2>2, <2>3 DEF LaneInv, QueuesApart
  <2> QED BY <1>3, <2>2, <2>3, <2>4
<1>5. Places(o) = {p}
  BY <1>1, <1>4
<1> QED BY <1>5, FS_Singleton

\* With the stack empty nothing is owed and nothing is being swept.
LEMMA NothingOwed ==
  ASSUME AtRest, LaneTypes
  PROVE  Owed = {} /\ Settling = {} /\ Still = {o \in OpId : Places(o) # {}}
<1>1. DOMAIN calls = {}
  BY DEF AtRest
<1>2. Owed = {} /\ Settling = {} /\ \A l \in Lane : SweepingIn(calls, l) = {}
  BY <1>1 DEF Owed, Settling, OwedIn, SettlingIn, SweepingIn
<1>3. ASSUME NEW o \in OpId
      PROVE  Places(o) # {} <=> \E l \in Lane : InQueue(o, waiting[l])
  <2>1. ASSUME Places(o) # {} PROVE \E l \in Lane : InQueue(o, waiting[l])
    BY <2>1 DEF Places, InQueue, LaneTypes
  <2>2. ASSUME NEW l \in Lane, InQueue(o, waiting[l]) PROVE Places(o) # {}
    BY <2>2, PlacesOf DEF InQueue
  <2> QED BY <2>1, <2>2
<1> QED BY <1>2, <1>3, StillQueued

\* The ledger balances: an operation asked for is in one place, or was finalised.
LEMMA LedgerBalances == ASSUME LaneInv, Ledger PROVE OneOutcome
<1> SUFFICES ASSUME AtRest, NEW o \in Asked
             PROVE  Cardinality(Places(o)) + Cardinality(launched \cap {o}) + finals[o] = 1
  BY DEF OneOutcome
<1>1. /\ o \in OpId /\ Owed = {} /\ Still = {p \in OpId : Places(p) # {}}
      /\ entries = launched \cup Still
      /\ finals[o] = IF o \in entries THEN 0 ELSE 1
      /\ Still \cap launched = {}
  BY NothingOwed, StillApart DEF Ledger, Asked, LaneInv
<1>2. Cardinality(Places(o)) = IF o \in Still THEN 1 ELSE 0
  BY <1>1, OnePlace, FS_EmptySet
<1>3. Cardinality(launched \cap {o}) = IF o \in launched THEN 1 ELSE 0
  <2>1. launched \cap {o} = IF o \in launched THEN {o} ELSE {}
    OBVIOUS
  <2> QED BY <2>1, FS_EmptySet, FS_Singleton
<1> QED BY <1>1, <1>2, <1>3

\* The books of the manager are those of the ledger.
LEMMA BooksBalance == ASSUME LaneInv, KeyBooks, Ledger PROVE BooksExact
<1> SUFFICES ASSUME AtRest
             PROVE  /\ entries = Pending
                    /\ \A k \in Key : keyed[k] # NoOp => keyed[k] \in Pending
                    /\ \A o \in Pending \ cancelled : op[o].key \in Key => keyed[op[o].key] = o
  BY DEF BooksExact
<1>1. entries = Pending
  BY NothingOwed DEF Ledger, Pending, LaneInv
<1> QED BY <1>1 DEF KeyBooks

\* What settles is the newest of its key.
LEMMA SettlesNewest == ASSUME Newest(Settling), LaneTypes, In("settle") => Top.op \in Settling
                       PROVE  LatestWins
BY DEF Newest, LatestWins, Discarded
===============================================================================
