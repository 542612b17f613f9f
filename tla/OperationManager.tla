-------------------------- MODULE OperationManager --------------------------
(***************************************************************************)
(* app/tasks/OperationManager: background operations with a supersession   *)
(* key and a concurrency lane.  All of it runs on the main thread; calls   *)
(* is that thread's stack, innermost first.  The manager's loops call its  *)
(* clients back (on_finally), and a client may call run from there, so     *)
(* each turn of a loop is a step.  A module that EXTENDS this one supplies *)
(* the clients: what on_done and on_finally do, and who calls run; theirs  *)
(* are the frames they push beside the ones below.                         *)
(*                                                                         *)
(* An operator whose name has an underscore is a plausible bug in the      *)
(* operator after it; no specification uses it.                            *)
(***************************************************************************)
EXTENDS Integers, Sequences, FiniteSets

CONSTANTS
  Key,      \* supersession keys
  NoKey,    \* the empty key: supersedes nothing
  Lane,     \* lanes
  NoLane,   \* the empty lane: no cap
  Cap,      \* Lane::cap, which every caller sets to one value per lane
  MaxOps    \* bound on m_next_id

ASSUME OperationAssumption ==
  /\ NoKey \notin Key
  /\ NoLane \notin Lane
  /\ Cap \in [Lane -> Nat \ {0}]
  /\ MaxOps \in Nat

VARIABLES
  nextId,     \* m_next_id
  op,         \* what each operation was asked to do: the captures of its closures
  entries,    \* the keys of m_entries
  keyed,      \* m_keyed
  cancelled,  \* operations whose token is cancelled
  running,    \* Lane::running
  waiting,    \* Lane::queue
  launched,   \* operations on the pool, until their finished handler runs
  finals,     \* history: how often on_finally ran for each operation
  calls       \* the main thread's stack

managerVars == <<nextId, op, entries, keyed, cancelled, running, waiting,
                 launched, finals, calls>>

NoOp == 0
OpId == 1..MaxOps
Unasked == [key |-> NoKey, lane |-> NoLane]

\* The calls a step may find on top of the stack.
RunCall(r)             == [call |-> "run", request |-> r]    \* about to call run
PumpCall(l)            == [call |-> "pump", lane |-> l]      \* the loop of pumpLane
SettleCall(o)          == [call |-> "settle", op |-> o]      \* a finished handler, past finishOp
FinallyCall(o)         == [call |-> "finally", op |-> o]     \* about to call on_finally
CancelAllCall          == [call |-> "cancelAll"]             \* about to call cancelAll
SweepCall(l, todo, ls) == [call |-> "sweep", lane |-> l, todo |-> todo, lanes |-> ls]
                                                             \* cancelAll's loops over lane and queue
Top       == Head(calls)
In(name)  == calls # <<>> /\ Top.call = name
Push(cs)  == calls' = cs \o calls
Become(cs) == calls' = cs \o Tail(calls)
Return    == calls' = Tail(calls)

ManagerInit ==
  /\ nextId = 1
  /\ op = [o \in OpId |-> Unasked]
  /\ entries = {}
  /\ keyed = [k \in Key |-> NoOp]
  /\ cancelled = {}
  /\ running = [l \in Lane |-> 0]
  /\ waiting = [l \in Lane |-> <<>>]
  /\ launched = {}
  /\ finals = [o \in OpId |-> 0]
  /\ calls = <<>>

-----------------------------------------------------------------------------
(* run and the cancels.                                                    *)

Superseded_None(r) == {}
Superseded(r) == IF r.key \in Key THEN {keyed[r.key]} \cap entries ELSE {}

\* A lane at its cap makes the operation wait.
Waits_OffByOne(r) == r.lane \in Lane /\ running[r.lane] > Cap[r.lane]
Waits(r) == r.lane \in Lane /\ running[r.lane] >= Cap[r.lane]

RunNext ==
  LET r == Top.request IN
  /\ In("run")
  /\ nextId <= MaxOps
  /\ nextId' = nextId + 1
  /\ op' = [op EXCEPT ![nextId] = r]
  /\ entries' = entries \cup {nextId}
  /\ cancelled' = cancelled \cup Superseded(r)
  /\ keyed' = IF r.key \in Key THEN [keyed EXCEPT ![r.key] = nextId] ELSE keyed
  /\ IF Waits(r)
     THEN /\ waiting' = [waiting EXCEPT ![r.lane] = Append(@, nextId)]
          /\ UNCHANGED <<running, launched>>
     ELSE /\ launched' = launched \cup {nextId}
          /\ running' = IF r.lane \in Lane THEN [running EXCEPT ![r.lane] = @ + 1]
                                           ELSE running
          /\ UNCHANGED waiting
  /\ Return
  /\ UNCHANGED finals

\* The operations cancelByKey and cancelByPrefix reach.
Current(keys) == {keyed[k] : k \in keys} \cap entries

Cancel(C) ==
  /\ cancelled' = cancelled \cup C
  /\ UNCHANGED <<nextId, op, entries, keyed, running, waiting, launched, finals>>

-----------------------------------------------------------------------------
(* The finished handler of an operation's watcher.                         *)

\* m_keyed without an operation that is done.
KeyedWithout_Any(o) == [k \in Key |-> IF op[o].key = k THEN NoOp ELSE keyed[k]]
KeyedWithout(o) == [k \in Key |-> IF keyed[k] = o THEN NoOp ELSE keyed[k]]

\* finishOp frees the slot and pumps the lane before the outcome is looked at.
Finish(o) ==
  LET l == op[o].lane IN
  /\ o \in launched
  /\ launched' = launched \ {o}
  /\ entries' = entries \ {o}
  /\ keyed' = KeyedWithout(o)
  /\ running' = IF l \in Lane /\ running[l] > 0
                THEN [running EXCEPT ![l] = @ - 1] ELSE running
  /\ Push(IF l \in Lane THEN <<PumpCall(l), SettleCall(o)>> ELSE <<SettleCall(o)>>)
  /\ UNCHANGED <<nextId, op, cancelled, waiting, finals>>

\* A cancelled operation's result is not looked at.
Discarded_Never(o) == FALSE
Discarded(o) == o \in cancelled

SettleCancelled_Silent ==
  /\ In("settle")
  /\ Discarded(Top.op)
  /\ Return
  /\ UNCHANGED <<nextId, op, entries, keyed, cancelled, running, waiting, launched, finals>>
SettleCancelled ==
  /\ In("settle")
  /\ Discarded(Top.op)
  /\ Become(<<FinallyCall(Top.op)>>)
  /\ UNCHANGED <<nextId, op, entries, keyed, cancelled, running, waiting, launched, finals>>

-----------------------------------------------------------------------------
(* pumpLane.                                                               *)

\* The loop goes on: a slot is free and an operation waits.
CanPump(l) == calls # <<>> /\ Top = PumpCall(l) /\ running[l] < Cap[l] /\ waiting[l] # <<>>

\* The head of the queue was superseded or cancelled while it waited.
PumpDrop_Stops(l) ==
  LET o == Head(waiting[l]) IN
  /\ CanPump(l)
  /\ o \in cancelled
  /\ waiting' = [waiting EXCEPT ![l] = Tail(@)]
  /\ entries' = entries \ {o}
  /\ keyed' = KeyedWithout(o)
  /\ Become(<<FinallyCall(o)>>)
  /\ UNCHANGED <<nextId, op, cancelled, running, launched, finals>>
PumpDrop(l) ==
  LET o == Head(waiting[l]) IN
  /\ CanPump(l)
  /\ o \in cancelled
  /\ waiting' = [waiting EXCEPT ![l] = Tail(@)]
  /\ entries' = entries \ {o}
  /\ keyed' = KeyedWithout(o)
  /\ Push(<<FinallyCall(o)>>)
  /\ UNCHANGED <<nextId, op, cancelled, running, launched, finals>>

PumpStart(l) ==
  LET o == Head(waiting[l]) IN
  /\ CanPump(l)
  /\ o \notin cancelled
  /\ waiting' = [waiting EXCEPT ![l] = Tail(@)]
  /\ running' = [running EXCEPT ![l] = @ + 1]
  /\ launched' = launched \cup {o}
  /\ UNCHANGED <<nextId, op, entries, keyed, cancelled, finals, calls>>

PumpDone ==
  /\ In("pump")
  /\ ~CanPump(Top.lane)
  /\ Return
  /\ UNCHANGED <<nextId, op, entries, keyed, cancelled, running, waiting, launched, finals>>

-----------------------------------------------------------------------------
(* cancelAll.                                                              *)

\* The lanes in an order of the map's choosing; a lane with nothing queued is
\* of no account.
NextSweep(ls) ==
  IF ls = {} THEN Return
  ELSE \E l \in ls : Become(<<SweepCall(l, waiting[l], ls \ {l})>>)

\* Every token is cancelled, then the queues are swept.
CancelAll ==
  /\ In("cancelAll")
  /\ cancelled' = cancelled \cup entries
  /\ NextSweep({l \in Lane : waiting[l] # <<>>})
  /\ UNCHANGED <<nextId, op, entries, keyed, running, waiting, launched, finals>>

\* An operation that never started is dropped.  The loop walks the queue as it
\* was on entry: its end is fixed before on_finally may append to the queue.
SweepNext ==
  LET o == Head(Top.todo) IN
  /\ In("sweep")
  /\ Top.todo # <<>>
  /\ entries' = entries \ {o}
  /\ keyed' = KeyedWithout(o)
  /\ Become(<<FinallyCall(o), SweepCall(Top.lane, Tail(Top.todo), Top.lanes)>>)
  /\ UNCHANGED <<nextId, op, cancelled, running, waiting, launched, finals>>

\* Then the queue is cleared, whatever it holds by now.
SweepClear ==
  /\ In("sweep")
  /\ Top.todo = <<>>
  /\ waiting' = [waiting EXCEPT ![Top.lane] = <<>>]
  /\ NextSweep(Top.lanes)
  /\ UNCHANGED <<nextId, op, entries, keyed, cancelled, running, launched, finals>>

\* on_finally has been called for the operation on top.
Finalised == finals' = [finals EXCEPT ![Top.op] = @ + 1]

ManagerStep ==
  \/ RunNext \/ SettleCancelled
  \/ \E l \in Lane : PumpDrop(l) \/ PumpStart(l)
  \/ PumpDone
  \/ CancelAll \/ SweepNext \/ SweepClear

-----------------------------------------------------------------------------
AtRest == calls = <<>>
Asked  == {o \in OpId : o < nextId}
Places(o) == UNION {{l} \X {i \in DOMAIN waiting[l] : waiting[l][i] = o} : l \in Lane}
Pending == launched \cup {o \in OpId : Places(o) # {}}

\* The cap of a lane holds, and its counter is the number of its operations on
\* the pool, through cancelAll as well: zeroing it there would let new
\* operations past the cap while cancelled ones drain.
LanesExact ==
  \A l \in Lane : /\ running[l] = Cardinality({o \in launched : op[o].lane = l})
                  /\ running[l] <= Cap[l]

\* "on_finally runs on EVERY outcome": an operation waits, is on the pool, or
\* has been finalised, just once.
OneOutcome ==
  AtRest => \A o \in Asked :
    Cardinality(Places(o)) + Cardinality(launched \cap {o}) + finals[o] = 1

\* m_entries holds the pending operations, and m_keyed leads to the one a newer
\* operation or a cancelByKey must reach: through drops, sweeps and operations
\* that end after their successor was registered.
BooksExact ==
  AtRest =>
    /\ entries = Pending
    /\ \A k \in Key : keyed[k] # NoOp => keyed[k] \in Pending
    /\ \A o \in Pending \ cancelled : op[o].key \in Key => keyed[op[o].key] = o

\* on_done is never called for an operation that a newer one has superseded.
LatestWins ==
  (In("settle") /\ ~Discarded(Top.op) /\ op[Top.op].key \in Key) =>
    \A o \in Asked : op[o].key = op[Top.op].key => o <= Top.op
=============================================================================
