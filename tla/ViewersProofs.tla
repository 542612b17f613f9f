---------------------------- MODULE ViewersProofs ----------------------------
(***************************************************************************)
(* What the two viewer windows show, and what becomes of their operations, *)
(* for every set of lines, bands and parameters, every cap and every       *)
(* budget.                                                                 *)
(*                                                                         *)
(* RowsTrue and TracesTrue speak of a window at rest; a step can break     *)
(* them only through what is still to come.  Coming(k) is that: the        *)
(* request on top of the stack, or else every live operation of the key,   *)
(* registered or about to deliver.  WindowInv says what each of them would *)
(* bring, and what the window shows if none is left.  It is kept because   *)
(*   - run, with the cancels of the windows, leaves one live operation of  *)
(*     a key at most (KeyBooks), so a request replaces all that was to     *)
(*     come under its key (RunComing);                                     *)
(*   - an operation that delivers is the newest of its key and has left    *)
(*     the books, so it was the only one to come (SettleLive);             *)
(*   - drops, sweeps and discarded outcomes touch nothing that is live.    *)
(* While both windows are about to be cleared (Clearing) nothing is said   *)
(* of them: clearLayer cancels whatever is to come.  The stacks the main   *)
(* thread can have are enumerated (StackInv), and the manager's ledger is  *)
(* carried along (BookInv).                                                *)
(***************************************************************************)
EXTENDS Viewers, OperationManagerProofs, SequenceTheorems

-----------------------------------------------------------------------------
(* Types.                                                                  *)

Place   == [line : Line, band : Band, row : Row]
State   == {"Idle", "Loading", "Processing", "Ready", "Failed"}

\* What the windows may ask for.
Request ==
  [kind : {"load"}, key : {Pipeline}, lane : {"heavy"}, params : Param, raw : Place]
    \cup [kind : {"rows"}, key : {Pipeline}, lane : {"heavy", NoLane}, params : Param, raw : Place]
    \cup [kind : {"traces"}, key : {TraceLoad}, lane : {"heavy"}, line : Line]
    \cup [kind : {"proc"}, key : {TraceProc}, lane : {NoLane}, line : Line, params : Param]

WaterfallType ==
  [layer : Line \cup {NoLine}, band : Band, first : Row, params : Param,
   raw : Place \cup {NoPlace}, rows : Param, state : State, repipe : BOOLEAN,
   scroll : Row \cup {NoRow}]
SubBottomType ==
  [layer : Line \cup {NoLine}, params : Param, raw : Line \cup {NoLine},
   traces : [line : Line, params : Param] \cup {NoTraces},
   state : State, proc : BOOLEAN, gone : BOOLEAN]

ViewerTypes == wf \in WaterfallType /\ sb \in SubBottomType /\ overtaken \in BOOLEAN

RequestTypes == \A o \in Asked : op[o] \in Request

-----------------------------------------------------------------------------
(* The main thread's stack.                                                *)

\* The windows' own frames, and a request on top of them.
Idle(c)    == c \in {<<>>, <<NavCall>>, <<NoTraceCall>>, <<NavCall, NoTraceCall>>}
Asks(c, r) == c \in {<<RunCall(r)>>, <<RunCall(r), NavCall>>, <<RunCall(r), NoTraceCall>>,
                     <<RunCall(r), NavCall, NoTraceCall>>}

\* No operation is in the hands of the manager's handlers.
Calm(c) == Idle(c) \/ \E r \in Request : Asks(c, r)

\* The finished handler of an operation.
Handling(c) ==
  \E o \in OpId :
    \/ c \in {<<FinallyCall(o)>>, <<SettleCall(o)>>, <<PumpCall("heavy"), SettleCall(o)>>}
    \/ \E p \in OpId \ {o} : c = <<FinallyCall(p), PumpCall("heavy"), SettleCall(o)>>

\* What a sweep has still to do waits in its lane, once.
ToSweep(t) ==
  /\ \A i \in 1..Len(t) : InQueue(t[i], waiting["heavy"])
  /\ \A i, j \in 1..Len(t) : t[i] = t[j] => i = j

\* Both windows are about to be cleared.
ToClear(c)  == c \in {<<ClearCall>>, <<CancelAllCall, ClearCall>>}
Sweeping ==
  \E t \in Seq(OpId) :
    /\ ToSweep(t)
    /\ \/ calls = <<SweepCall("heavy", t, {}), ClearCall>>
       \/ \E o \in OpId : /\ ~InQueue(o, t)
                          /\ calls = <<FinallyCall(o), SweepCall("heavy", t, {}), ClearCall>>
Clearing == ToClear(calls) \/ Sweeping

StackInv == Calm(calls) \/ Handling(calls) \/ Clearing

\* What the manager will deliver under a key, unless it is cancelled or fails; and
\* what there is to come, once a request on top of the stack has superseded it.
Live(k)   == {op[o] : o \in {o \in (entries \cup Settling) \ cancelled : op[o].key = k}}
Coming(k) == IF In("run") /\ Top.request.key = k THEN {Top.request} ELSE Live(k)

RowsInv ==
  /\ \A r \in Coming(Pipeline) :
       /\ r.kind = "load" => r.raw.line = wf.layer /\ r.raw.band = wf.band
       /\ r.kind = "rows" => /\ ~Empty(wf)
                             /\ r.params = wf.params \/ wf.repipe
                             /\ overtaken \/ r.raw = Asking
  /\ Coming(Pipeline) = {} /\ wf.state = "Ready" /\ ~wf.repipe => wf.rows = wf.params
  /\ (\A r \in Coming(Pipeline) : r.kind # "load") /\ ~Empty(wf) => overtaken \/ wf.raw = Asking
  /\ wf.state = "Ready" => ~Empty(wf)
  /\ ~Empty(wf) \/ wf.scroll # NoRow => wf.layer \in Line

TraceInv ==
  /\ \A r \in Coming(TraceLoad) : r.line = sb.layer
  /\ \A r \in Coming(TraceProc) : r.line = sb.raw /\ (r.params = sb.params \/ sb.proc)
  /\ sb.raw \in {NoLine, sb.layer}
  /\ sb.raw = NoLine => sb.traces = NoTraces
  /\ sb.traces # NoTraces /\ ~sb.proc /\ Coming(TraceProc) = {} =>
       sb.traces = [line |-> sb.layer, params |-> sb.params]

WindowInv == Clearing \/ (RowsInv /\ TraceInv)

\* The manager's books under this client.
BookInv ==
  LaneInv /\ KeyBooks /\ Ledger /\ Newest(Settling) /\ RequestTypes /\ StackInv

\* A token belongs to an operation that was asked for.
TokensAsked == cancelled \subseteq Asked

ViewInv == BookInv /\ TokensAsked /\ ViewerTypes /\ WindowInv

-----------------------------------------------------------------------------
(* Stacks.                                                                 *)

\* Tuples put together.
LEMMA Joined ==
  ASSUME NEW a, NEW b, NEW c
  PROVE  <<a>> \o <<b>> = <<a, b>> /\ <<a, b>> \o <<c>> = <<a, b, c>> /\ <<a>> \o <<b, c>> = <<a, b, c>>
<1> DEFINE S == {a, b, c}
<1>1. /\ <<a>> \in Seq(S) /\ <<b>> \in Seq(S) /\ <<c>> \in Seq(S)
      /\ <<a, b>> \in Seq(S) /\ <<b, c>> \in Seq(S) /\ <<a, b, c>> \in Seq(S)
  OBVIOUS
<1>2. <<a>> \o <<b>> = <<a, b>>
  <2>1. <<a>> \o <<b>> \in Seq(S) /\ Len(<<a>> \o <<b>>) = 2
        /\ (<<a>> \o <<b>>)[1] = a /\ (<<a>> \o <<b>>)[2] = b
    BY <1>1
  <2>2. \A i \in 1..2 : (<<a>> \o <<b>>)[i] = <<a, b>>[i]
    BY <2>1
  <2> QED BY <1>1, <2>1, <2>2, SeqEqual
<1>3. <<a, b>> \o <<c>> = <<a, b, c>>
  <2>1. <<a, b>> \o <<c>> \in Seq(S) /\ Len(<<a, b>> \o <<c>>) = 3
        /\ (<<a, b>> \o <<c>>)[1] = a /\ (<<a, b>> \o <<c>>)[2] = b
        /\ (<<a, b>> \o <<c>>)[3] = c
    BY <1>1
  <2>2. \A i \in 1..3 : (<<a, b>> \o <<c>>)[i] = <<a, b, c>>[i]
    BY <2>1
  <2> QED BY <1>1, <2>1, <2>2, SeqEqual
<1>4. <<a>> \o <<b, c>> = <<a, b, c>>
  <2>1. <<a>> \o <<b, c>> \in Seq(S) /\ Len(<<a>> \o <<b, c>>) = 3
        /\ (<<a>> \o <<b, c>>)[1] = a /\ (<<a>> \o <<b, c>>)[2] = b
        /\ (<<a>> \o <<b, c>>)[3] = c
    BY <1>1
  <2>2. \A i \in 1..3 : (<<a>> \o <<b, c>>)[i] = <<a, b, c>>[i]
    BY <2>1
  <2> QED BY <1>1, <2>1, <2>2, SeqEqual
<1> QED BY <1>2, <1>3, <1>4

\* A calm stack, and one that is to clear the windows, owes nothing.
LEMMA QuietOwes ==
  ASSUME NEW c, Calm(c) \/ ToClear(c)
  PROVE  OwedIn(c) = {} /\ SettlingIn(c) = {} /\ \A l : SweepingIn(c, l) = {}
<1>1. \A i \in DOMAIN c : c[i].call \in {"run", "nav", "noTraces", "clear", "cancelAll"}
  <2>1. CASE \E r \in Request :
               c \in {<<RunCall(r)>>, <<RunCall(r), NavCall>>, <<RunCall(r), NoTraceCall>>,
                     <<RunCall(r), NavCall, NoTraceCall>>}
    BY <2>1 DEF RunCall, NavCall, NoTraceCall
  <2>2. CASE c \in {<<>>, <<NavCall>>, <<NoTraceCall>>, <<NavCall, NoTraceCall>>}
    BY <2>2 DEF NavCall, NoTraceCall
  <2>3. CASE ToClear(c)
    BY <2>3 DEF ToClear, ClearCall, CancelAllCall
  <2> QED BY <2>1, <2>2, <2>3 DEF Calm, Idle, Asks
<1> QED BY <1>1 DEF OwedIn, SettlingIn, SweepingIn

\* What the stacks of a finished handler owe.
LEMMA HandlerOwes ==
  ASSUME NEW o \in OpId, NEW p \in OpId, NEW c
  PROVE  /\ c = <<FinallyCall(o)>> => OwedIn(c) = {o} /\ SettlingIn(c) = {}
         /\ c \in {<<SettleCall(o)>>, <<PumpCall("heavy"), SettleCall(o)>>} =>
              OwedIn(c) = {o} /\ SettlingIn(c) = {o}
         /\ c = <<FinallyCall(p), PumpCall("heavy"), SettleCall(o)>> =>
              OwedIn(c) = {o, p} /\ SettlingIn(c) = {o}
BY DEF OwedIn, SettlingIn, FinallyCall, SettleCall, PumpCall

\* They sweep nothing.
LEMMA HandlerSweeps ==
  ASSUME NEW c, Handling(c)
  PROVE  \A l : SweepingIn(c, l) = {}
<1>1. \A i \in DOMAIN c : c[i].call # "sweep"
  BY DEF Handling, FinallyCall, SettleCall, PumpCall
<1> QED BY <1>1 DEF SweepingIn

\* What a sweep owes, and has still to do.
LEMMA SweepOwes ==
  ASSUME NEW t, NEW c, c = <<SweepCall("heavy", t, {}), ClearCall>>
  PROVE  /\ OwedIn(c) = {} /\ SettlingIn(c) = {}
         /\ SweepingIn(c, "heavy") = {1} /\ c[1].todo = t
BY DEF OwedIn, SettlingIn, SweepingIn, FinallyCall, SweepCall, ClearCall

\* The same while it calls an on_finally.
LEMMA SweepFinallyOwes ==
  ASSUME NEW o \in OpId, NEW t, NEW c, c = <<FinallyCall(o), SweepCall("heavy", t, {}), ClearCall>>
  PROVE  /\ OwedIn(c) = {o} /\ SettlingIn(c) = {}
         /\ SweepingIn(c, "heavy") = {2} /\ c[2].todo = t
BY DEF OwedIn, SettlingIn, SweepingIn, FinallyCall, SweepCall, ClearCall

\* The one lane.
LEMMA HeavyLane == Lane = {"heavy"} /\ "heavy" \in Lane
BY ViewersAssumption DEF ViewersAssumption

\* The call on top tells the whole stack.
LEMMA StackOf ==
  ASSUME StackInv
  PROVE  /\ In("run") => \E r \in Request :
              calls \in {<<RunCall(r)>>, <<RunCall(r), NavCall>>, <<RunCall(r), NoTraceCall>>,
                         <<RunCall(r), NavCall, NoTraceCall>>}
         /\ In("nav") => calls \in {<<NavCall>>, <<NavCall, NoTraceCall>>}
         /\ In("noTraces") => calls = <<NoTraceCall>>
         /\ In("clear") => calls = <<ClearCall>>
         /\ In("cancelAll") => calls = <<CancelAllCall, ClearCall>>
         /\ In("settle") => \E o \in OpId : calls = <<SettleCall(o)>>
         /\ In("pump") => \E o \in OpId : calls = <<PumpCall("heavy"), SettleCall(o)>>
         /\ In("sweep") => \E t \in Seq(OpId) :
              ToSweep(t) /\ calls = <<SweepCall("heavy", t, {}), ClearCall>>
         /\ In("finally") =>
              \/ \E o \in OpId : calls = <<FinallyCall(o)>>
              \/ \E o \in OpId, p \in OpId :
                   p # o /\ calls = <<FinallyCall(p), PumpCall("heavy"), SettleCall(o)>>
              \/ \E o \in OpId, t \in Seq(OpId) :
                   /\ ToSweep(t) /\ ~InQueue(o, t)
                   /\ calls = <<FinallyCall(o), SweepCall("heavy", t, {}), ClearCall>>
<1> USE DEF In, Top
<1>1. CASE Calm(calls)
  <2>1. CASE \E r \in Request :
               calls \in {<<RunCall(r)>>, <<RunCall(r), NavCall>>, <<RunCall(r), NoTraceCall>>,
                          <<RunCall(r), NavCall, NoTraceCall>>}
    <3>1. calls # <<>> /\ Head(calls).call = "run"
      BY <2>1 DEF RunCall
    <3> QED BY <2>1, <3>1
  <2>2. CASE calls = <<>>
    BY <2>2
  <2>3. CASE calls \in {<<NavCall>>, <<NavCall, NoTraceCall>>}
    <3>1. Head(calls).call = "nav"
      BY <2>3 DEF NavCall
    <3> QED BY <2>3, <3>1
  <2>4. CASE calls = <<NoTraceCall>>
    <3>1. Head(calls).call = "noTraces"
      BY <2>4 DEF NoTraceCall
    <3> QED BY <2>4, <3>1
  <2> QED BY <1>1, <2>1, <2>2, <2>3, <2>4 DEF Calm, Idle, Asks
<1>2. CASE Handling(calls)
  <2>1. PICK o \in OpId :
          \/ calls \in {<<FinallyCall(o)>>, <<SettleCall(o)>>, <<PumpCall("heavy"), SettleCall(o)>>}
          \/ \E p \in OpId \ {o} : calls = <<FinallyCall(p), PumpCall("heavy"), SettleCall(o)>>
    BY <1>2 DEF Handling
  <2>2. CASE calls = <<FinallyCall(o)>>
    <3>1. Head(calls).call = "finally"
      BY <2>2 DEF FinallyCall
    <3> QED BY <2>2, <3>1
  <2>3. CASE calls = <<SettleCall(o)>>
    <3>1. Head(calls).call = "settle"
      BY <2>3 DEF SettleCall
    <3> QED BY <2>3, <3>1
  <2>4. CASE calls = <<PumpCall("heavy"), SettleCall(o)>>
    <3>1. Head(calls).call = "pump"
      BY <2>4 DEF PumpCall
    <3> QED BY <2>4, <3>1
  <2>5. ASSUME NEW p \in OpId \ {o}, calls = <<FinallyCall(p), PumpCall("heavy"), SettleCall(o)>>
        PROVE  Head(calls).call = "finally"
    BY <2>5 DEF FinallyCall
  <2> QED BY <2>1, <2>2, <2>3, <2>4, <2>5
<1>3. CASE calls = <<ClearCall>>
  <2>1. Head(calls).call = "clear"
    BY <1>3 DEF ClearCall
  <2> QED BY <1>3, <2>1
<1>4. CASE calls = <<CancelAllCall, ClearCall>>
  <2>1. Head(calls).call = "cancelAll"
    BY <1>4 DEF CancelAllCall
  <2> QED BY <1>4, <2>1
<1>5. CASE Sweeping
  <2>1. PICK t \in Seq(OpId) :
          /\ ToSweep(t)
          /\ \/ calls = <<SweepCall("heavy", t, {}), ClearCall>>
             \/ \E o \in OpId : /\ ~InQueue(o, t)
                                /\ calls = <<FinallyCall(o), SweepCall("heavy", t, {}), ClearCall>>
    BY <1>5 DEF Sweeping
  <2>2. CASE calls = <<SweepCall("heavy", t, {}), ClearCall>>
    <3>1. Head(calls).call = "sweep"
      BY <2>2 DEF SweepCall
    <3> QED BY <2>1, <2>2, <3>1
  <2>3. ASSUME NEW o \in OpId, ~InQueue(o, t),
               calls = <<FinallyCall(o), SweepCall("heavy", t, {}), ClearCall>>
        PROVE  Head(calls).call = "finally"
    BY <2>3 DEF FinallyCall
  <2> QED BY <2>1, <2>2, <2>3
<1> QED BY <1>1, <1>2, <1>3, <1>4, <1>5 DEF StackInv, Clearing, ToClear

-----------------------------------------------------------------------------
(* The books under each step.                                              *)

\* Nothing is owed and nothing swept on a quiet stack.
LEMMA QuietBooks ==
  ASSUME Calm(calls) \/ ToClear(calls)
  PROVE  Owed = {} /\ Settling = {} /\ \A l \in Lane : SweepingIn(calls, l) = {}
BY QuietOwes DEF Owed, Settling

\* The windows ask, cancel and return, with nothing in the manager's hands.
LEMMA QuietStep ==
  ASSUME BookInv, Calm(calls) \/ ToClear(calls), Calm(calls') \/ ToClear(calls'),
         UNCHANGED <<nextId, op, entries, keyed, running, waiting, launched, finals>>,
         cancelled \subseteq cancelled'
  PROVE  BookInv'
<1> USE DEF BookInv
<1>1. LaneInv' /\ KeyBooks'
  BY LaneInvStutter, KeyCancel DEF laneVars
<1>2. Owed = {} /\ \A l \in Lane : SweepingIn(calls, l) = {}
  BY QuietBooks
<1>3. Owed' = {} /\ Settling' = {} /\ \A l \in Lane : SweepingIn(calls', l) = {}
  BY QuietOwes DEF Owed, Settling
<1>4. Still' = Still
  BY <1>2, <1>3 DEF Still
<1>5. Ledger'
  BY <1>2, <1>3, <1>4, LedgerStays
<1>6. Newest(Settling)'
  BY <1>3 DEF Newest
<1>7. RequestTypes'
  BY DEF RequestTypes, Asked
<1>8. StackInv'
  BY DEF StackInv, Clearing
<1> QED BY <1>1, <1>5, <1>6, <1>7, <1>8

\* run.
LEMMA RunStep == BookInv /\ RunNext => BookInv'
<1> SUFFICES ASSUME BookInv, RunNext PROVE BookInv'
  OBVIOUS
<1> USE DEF BookInv
<1>1. PICK r \in Request : calls \in {<<RunCall(r)>>, <<RunCall(r), NavCall>>,
                                      <<RunCall(r), NoTraceCall>>,
                                      <<RunCall(r), NavCall, NoTraceCall>>}
  BY StackOf DEF RunNext
<1>2. Top.request = r
  BY <1>1 DEF Top, RunCall
<1>3. calls' \in {<<>>, <<NavCall>>, <<NoTraceCall>>, <<NavCall, NoTraceCall>>}
  <2>1. calls' = Tail(calls)
    BY DEF RunNext, Return
  <2>2. CASE calls = <<RunCall(r)>>
    BY <2>1, <2>2
  <2>3. CASE calls = <<RunCall(r), NavCall>>
    BY <2>1, <2>3
  <2>4. CASE calls = <<RunCall(r), NoTraceCall>>
    BY <2>1, <2>4
  <2>5. CASE calls = <<RunCall(r), NavCall, NoTraceCall>>
    BY <2>1, <2>5
  <2> QED BY <1>1, <2>2, <2>3, <2>4, <2>5
<1>4. Calm(calls) /\ Calm(calls')
  BY <1>1, <1>3 DEF Calm, Idle, Asks
<1>5. /\ Owed = {} /\ \A l \in Lane : SweepingIn(calls, l) = {}
      /\ Owed' = {} /\ Settling' = {} /\ \A l \in Lane : SweepingIn(calls', l) = {}
  BY <1>4, QuietOwes DEF Owed, Settling
<1>6. LaneInv' /\ KeyBooks'
  BY RunKeeps, KeyRun DEF LaneInv
<1>7. nextId \in OpId
  BY OperationAssumption DEF RunNext, LaneInv, LaneTypes, OpId, OperationAssumption
<1>8. Still' = IF Waits(Top.request) THEN Still \cup {nextId} ELSE Still
  <2>1. CASE Waits(Top.request)
    <3>1. r.lane \in Lane /\ waiting' = [waiting EXCEPT ![r.lane] = Append(@, nextId)]
      BY <1>2, <2>1 DEF RunNext, Waits
    <3>2. waiting[r.lane] \in Seq(OpId) /\ waiting'[r.lane] = Append(waiting[r.lane], nextId)
          /\ \A l \in Lane \ {r.lane} : waiting'[l] = waiting[l]
      BY <3>1 DEF LaneInv, LaneTypes
    <3>3. \A o \in OpId : InQueue(o, waiting'[r.lane]) <=> InQueue(o, waiting[r.lane]) \/ o = nextId
      BY <1>7, <3>2 DEF InQueue
    <3>4. Still' = {o \in OpId : \E l \in Lane : InQueue(o, waiting'[l])}
      BY <1>5 DEF Still
    <3>5. Still = {o \in OpId : \E l \in Lane : InQueue(o, waiting[l])}
      BY <1>5, StillQueued
    <3> QED BY <1>7, <2>1, <3>1, <3>2, <3>3, <3>4, <3>5
  <2>2. CASE ~Waits(Top.request)
    BY <1>5, <2>2 DEF RunNext, Still
  <2> QED BY <2>1, <2>2
<1>9. Ledger'
  BY <1>5, <1>8, LedgerRun DEF LaneInv
<1>10. Newest(Settling)'
  BY <1>5 DEF Newest
<1>11. RequestTypes'
  <2>1. Asked' = Asked \cup {nextId} /\ nextId \notin Asked /\ Asked \subseteq OpId
    BY <1>7 DEF RunNext, Asked, OpId
  <2>2. op'[nextId] = r /\ \A o \in Asked : op'[o] = op[o]
    BY <1>2, <1>7, <2>1 DEF RunNext, LaneInv, LaneTypes
  <2> QED BY <2>1, <2>2 DEF RequestTypes
<1> QED BY <1>4, <1>6, <1>9, <1>10, <1>11 DEF StackInv

\* A finished handler starts.
LEMMA FinishStep == ASSUME BookInv, AtRest, NEW o \in OpId, Finish(o) PROVE BookInv'
<1> USE DEF BookInv
<1>1. calls = <<>>
  BY DEF AtRest
<1>2. calls' \in {<<PumpCall("heavy"), SettleCall(o)>>, <<SettleCall(o)>>}
  BY <1>1, HeavyLane DEF Finish, Push
<1>3. Handling(calls')
  BY <1>2 DEF Handling
<1>4. Owed = {} /\ \A l \in Lane : SweepingIn(calls, l) = {}
  BY <1>1, QuietBooks DEF Calm, Idle, Asks
<1>5. Owed' = {o} /\ Settling' = {o} /\ \A l \in Lane : SweepingIn(calls', l) = {}
  BY <1>2, <1>3, HandlerOwes, HandlerSweeps DEF Owed, Settling
<1>6. Still' = Still
  BY <1>4, <1>5 DEF Still, Finish
<1>7. LaneInv' /\ KeyBooks' /\ Ledger'
  BY <1>4, <1>5, <1>6, FinishKeeps, KeyFinish, LedgerFinish
<1>8. o \in entries /\ UNCHANGED <<nextId, op, cancelled>>
  BY DEF Finish, Ledger
<1>9. Newest(Settling)'
  BY <1>5, <1>8 DEF KeyBooks, Newest, Asked
<1>10. RequestTypes'
  BY <1>8 DEF RequestTypes, Asked
<1> QED BY <1>3, <1>7, <1>9, <1>10 DEF StackInv

\* What settles or is finalised on top of the stack is owed.
LEMMA LedgerOwed == ASSUME BookInv, NEW o \in Owed PROVE o \in Asked \ (entries \cup launched)
BY DEF BookInv, Ledger

\* An outcome is looked at, and the operation delivers or not.
LEMMA SettleStep ==
  ASSUME BookInv, In("settle"), Become(<<FinallyCall(Top.op)>>),
         UNCHANGED <<nextId, op, entries, keyed, running, waiting, launched, finals>>,
         cancelled \subseteq cancelled'
  PROVE  BookInv'
<1> USE DEF BookInv
<1>1. PICK o \in OpId : calls = <<SettleCall(o)>>
  BY StackOf
<1>2. Top.op = o /\ calls' = <<FinallyCall(o)>>
  BY <1>1 DEF Become, Top, SettleCall
<1>3. Handling(calls) /\ Handling(calls')
  BY <1>1, <1>2 DEF Handling
<1>4. Owed = {o} /\ Owed' = {o} /\ Settling' = {}
  BY <1>1, <1>2, HandlerOwes DEF Owed, Settling
<1>5. Still' = Still
  BY <1>3, HandlerSweeps DEF Still
<1>6. LaneInv' /\ KeyBooks' /\ Ledger'
  BY <1>4, <1>5, LaneInvStutter, KeyCancel, LedgerStays DEF laneVars
<1>7. Newest(Settling)' /\ RequestTypes'
  BY <1>4 DEF Newest, RequestTypes, Asked
<1> QED BY <1>3, <1>6, <1>7 DEF StackInv

\* pumpLane drops the head of the queue.
LEMMA DropStep == ASSUME BookInv, NEW l \in Lane, PumpDrop(l) PROVE BookInv'
<1> USE DEF BookInv
<1> DEFINE p == Head(waiting[l])
<1>1. l = "heavy" /\ In("pump")
  BY HeavyLane DEF PumpDrop, CanPump, In, PumpCall
<1>2. PICK o \in OpId : calls = <<PumpCall("heavy"), SettleCall(o)>>
  BY <1>1, StackOf
<1>3. calls' = <<FinallyCall(p), PumpCall("heavy"), SettleCall(o)>>
  BY <1>2, Joined DEF PumpDrop, Push
<1>4. /\ Owed = {o} /\ Settling = {o}
      /\ \A k \in Lane : SweepingIn(calls, k) = {}
  BY <1>2, HandlerOwes, HandlerSweeps DEF Owed, Settling, Handling
<1>5. /\ waiting[l] \in Seq(OpId) /\ waiting[l] # <<>> /\ p \in OpId
      /\ waiting'[l] = Tail(waiting[l])
  BY QueueTail DEF PumpDrop, CanPump, LaneInv, LaneTypes
<1>6. InQueue(p, waiting[l])
  BY <1>5, TailQueue DEF LaneInv, QueuesApart
<1>7. p \in Still
  BY <1>4, <1>5, <1>6 DEF Still
<1>8. p # o
  BY <1>4, <1>7, LedgerOwed DEF Ledger
<1>9. Handling(calls')
  BY <1>3, <1>5, <1>8 DEF Handling
<1>10. /\ Owed' = {o, p} /\ Settling' = {o}
       /\ \A k \in Lane : SweepingIn(calls', k) = {}
  BY <1>3, <1>5, <1>9, HandlerOwes, HandlerSweeps DEF Owed, Settling
<1>11. Still' = Still \ {p}
  <2>1. \A x : InQueue(x, Tail(waiting[l])) <=> InQueue(x, waiting[l]) /\ x # p
    BY <1>5, TailQueue DEF LaneInv, QueuesApart
  <2>2. /\ Still = {x \in OpId : InQueue(x, waiting[l])}
        /\ Still' = {x \in OpId : InQueue(x, waiting'[l])}
    BY <1>1, <1>4, <1>10, HeavyLane DEF Still
  <2> QED BY <1>5, <2>1, <2>2
<1>12. LaneInv' /\ KeyBooks' /\ Ledger'
  BY <1>4, <1>7, <1>10, <1>11, DropKeeps, KeyEnd, LedgerDrop DEF PumpDrop
<1>13. Newest(Settling)' /\ RequestTypes'
  BY <1>4, <1>10 DEF Newest, RequestTypes, Asked, PumpDrop
<1> QED BY <1>9, <1>12, <1>13 DEF StackInv

\* It starts the head of the queue.
LEMMA StartStep == ASSUME BookInv, NEW l \in Lane, PumpStart(l) PROVE BookInv'
<1> USE DEF BookInv
<1> DEFINE p == Head(waiting[l])
<1>1. l = "heavy" /\ In("pump") /\ calls' = calls
  BY HeavyLane DEF PumpStart, CanPump, In, PumpCall
<1>2. PICK o \in OpId : calls = <<PumpCall("heavy"), SettleCall(o)>>
  BY <1>1, StackOf
<1>3. Handling(calls)
  BY <1>2 DEF Handling
<1>4. \A k \in Lane : SweepingIn(calls, k) = {}
  BY <1>3, HandlerSweeps
<1>5. /\ waiting[l] \in Seq(OpId) /\ waiting[l] # <<>> /\ waiting'[l] = Tail(waiting[l])
      /\ p \in OpId /\ InQueue(p, waiting[l])
      /\ \A x : InQueue(x, Tail(waiting[l])) <=> InQueue(x, waiting[l]) /\ x # p
  BY TailQueue DEF PumpStart, CanPump, LaneInv, LaneTypes, QueuesApart
<1>6. Still = {x \in OpId : InQueue(x, waiting[l])} /\ Still' = {x \in OpId : InQueue(x, waiting'[l])}
  BY <1>1, <1>4, HeavyLane DEF Still
<1>7. p \in Still /\ Still' = Still \ {p}
  BY <1>5, <1>6
<1>8. Owed' = Owed /\ Settling' = Settling
  BY <1>1 DEF Owed, Settling
<1>9. LaneInv' /\ KeyBooks' /\ Ledger'
  BY <1>7, <1>8, StartKeeps, KeyCancel, LedgerStart DEF PumpStart
<1>10. Newest(Settling)' /\ RequestTypes'
  BY <1>8 DEF Newest, RequestTypes, Asked, PumpStart
<1>11. StackInv'
  BY <1>1, <1>3 DEF StackInv
<1> QED BY <1>9, <1>10, <1>11

\* It returns.
LEMMA PumpDoneStep == BookInv /\ PumpDone => BookInv'
<1> SUFFICES ASSUME BookInv, PumpDone PROVE BookInv'
  OBVIOUS
<1> USE DEF BookInv
<1>1. PICK o \in OpId : calls = <<PumpCall("heavy"), SettleCall(o)>>
  BY StackOf DEF PumpDone
<1>2. calls' = <<SettleCall(o)>>
  BY <1>1 DEF PumpDone, Return
<1>3. Handling(calls) /\ Handling(calls')
  BY <1>1, <1>2 DEF Handling
<1>4. Owed = {o} /\ Settling = {o} /\ Owed' = {o} /\ Settling' = {o}
  BY <1>1, <1>2, HandlerOwes DEF Owed, Settling
<1>5. Still' = Still
  BY <1>3, HandlerSweeps DEF Still, PumpDone
<1>6. LaneInv' /\ KeyBooks' /\ Ledger'
  BY <1>4, <1>5, LaneInvStutter, KeyCancel, LedgerStays DEF laneVars, PumpDone
<1>7. Newest(Settling)' /\ RequestTypes'
  BY <1>4 DEF Newest, RequestTypes, Asked, PumpDone
<1> QED BY <1>3, <1>6, <1>7 DEF StackInv

\* cancelAll cancels every token and turns to the queue.
LEMMA CancelAllStep == BookInv /\ CancelAll => BookInv' /\ Clearing'
<1> SUFFICES ASSUME BookInv, CancelAll PROVE BookInv' /\ Clearing'
  OBVIOUS
<1> USE DEF BookInv
<1> PICK t : t = waiting["heavy"]
  OBVIOUS
<1>1. calls = <<CancelAllCall, ClearCall>>
  BY StackOf DEF CancelAll
<1>2. Owed = {} /\ \A l \in Lane : SweepingIn(calls, l) = {}
  BY <1>1, QuietBooks DEF ToClear
<1>3. t \in Seq(OpId) /\ ToSweep(t)
  BY HeavyLane DEF LaneInv, LaneTypes, QueuesApart, ToSweep, InQueue
<1>4. LaneInv' /\ KeyBooks'
  BY LaneInvStutter, KeyCancel DEF laneVars, CancelAll
<1>5. RequestTypes'
  BY DEF RequestTypes, Asked, CancelAll
<1>6. CASE t = <<>>
  <2>1. calls' = <<ClearCall>>
    <3>1. {l \in Lane : waiting[l] # <<>>} = {}
      BY <1>6, HeavyLane
    <3>2. NextSweep({})
      BY <3>1 DEF CancelAll
    <3> QED BY <1>1, <3>2 DEF NextSweep, Return
  <2>2. ToClear(calls')
    BY <2>1 DEF ToClear
  <2>3. Owed' = {} /\ Settling' = {} /\ \A l \in Lane : SweepingIn(calls', l) = {}
    BY <2>2, QuietOwes DEF Owed, Settling
  <2>4. Still' = Still
    BY <1>2, <2>3 DEF Still, CancelAll
  <2>5. Ledger' /\ Newest(Settling)'
    BY <1>2, <2>3, <2>4, LedgerStays DEF Newest, CancelAll
  <2> QED BY <1>4, <1>5, <2>2, <2>5 DEF StackInv, Clearing
<1>7. CASE t # <<>>
  <2>1. calls' = <<SweepCall("heavy", t, {}), ClearCall>>
    <3>1. {l \in Lane : waiting[l] # <<>>} = {"heavy"}
      BY <1>7, HeavyLane
    <3>2. calls' = <<SweepCall("heavy", t, {})>> \o Tail(calls)
      <4>1. NextSweep({"heavy"})
        BY <3>1 DEF CancelAll
      <4>2. {"heavy"} \ {"heavy"} = {}
        OBVIOUS
      <4> QED BY <4>1, <4>2 DEF NextSweep, Become
    <3>3. Tail(calls) = <<ClearCall>>
      BY <1>1
    <3> QED BY <3>2, <3>3, Joined
  <2>2. Sweeping'
    <3>1. ToSweep(t)'
      BY <1>3 DEF ToSweep, CancelAll
    <3> QED BY <1>3, <2>1, <3>1 DEF Sweeping
  <2>3. Owed' = {} /\ Settling' = {}
    BY <2>1, SweepOwes DEF Owed, Settling
  <2>4. Still' = Still
    <3>1. Still' = {x \in OpId : InQueue(x, t)}
      BY <2>1, SweepOwes, HeavyLane DEF Still, CancelAll
    <3>2. Still = {x \in OpId : InQueue(x, t)}
      BY <1>2, HeavyLane DEF Still
    <3> QED BY <3>1, <3>2
  <2>5. Ledger' /\ Newest(Settling)'
    BY <1>2, <2>3, <2>4, LedgerStays DEF Newest, CancelAll
  <2> QED BY <1>4, <1>5, <2>2, <2>5 DEF StackInv, Clearing
<1> QED BY <1>6, <1>7

\* An operation that waits is dropped by cancelAll.
LEMMA SweepNextStep == BookInv /\ SweepNext => BookInv' /\ Clearing'
<1> SUFFICES ASSUME BookInv, SweepNext PROVE BookInv' /\ Clearing'
  OBVIOUS
<1> USE DEF BookInv
<1>1. PICK t \in Seq(OpId) : ToSweep(t) /\ calls = <<SweepCall("heavy", t, {}), ClearCall>>
  BY StackOf DEF SweepNext
<1> DEFINE o == Head(t)
<1>2. Top.todo = t /\ Top.lane = "heavy" /\ Top.lanes = {}
  BY <1>1 DEF Top, SweepCall
<1>3. /\ t # <<>> /\ entries' = entries \ {o} /\ keyed' = KeyedWithout(o)
      /\ UNCHANGED <<nextId, op, cancelled, running, waiting, launched, finals>>
  BY <1>2 DEF SweepNext
<1>4. calls' = <<FinallyCall(o), SweepCall("heavy", Tail(t), {}), ClearCall>>
  <2>1. calls' = <<FinallyCall(o), SweepCall("heavy", Tail(t), {})>> \o Tail(calls)
    BY <1>2 DEF SweepNext, Become
  <2>2. Tail(calls) = <<ClearCall>>
    BY <1>1
  <2> QED BY <2>1, <2>2, Joined
<1>5. /\ o \in OpId /\ InQueue(o, t) /\ Tail(t) \in Seq(OpId)
      /\ \A x : InQueue(x, Tail(t)) <=> InQueue(x, t) /\ x # o
      /\ \A i, j \in 1..Len(Tail(t)) : Tail(t)[i] = Tail(t)[j] => i = j
  BY <1>1, <1>3, TailQueue DEF ToSweep
<1>6. \A x : InQueue(x, t) => InQueue(x, waiting["heavy"])
  BY <1>1 DEF ToSweep, InQueue
<1>7. ToSweep(Tail(t))'
  <2>1. ASSUME NEW i \in 1..Len(Tail(t)) PROVE InQueue(Tail(t)[i], waiting["heavy"])
    BY <1>5, <1>6 DEF InQueue
  <2> QED BY <1>3, <1>5, <2>1 DEF ToSweep
<1>8. Sweeping'
  BY <1>4, <1>5, <1>7 DEF Sweeping
<1>9. Owed = {} /\ Owed' = {o} /\ Settling' = {}
  BY <1>1, <1>4, <1>5, SweepOwes, SweepFinallyOwes DEF Owed, Settling
<1>10. Still = {x \in OpId : InQueue(x, t)}
  BY <1>1, <1>6, SweepOwes, HeavyLane DEF Still
<1>11. Still' = {x \in OpId : InQueue(x, Tail(t))}
  BY <1>3, <1>4, <1>5, <1>6, SweepFinallyOwes, HeavyLane DEF Still
<1>12. o \in Still /\ Still' = Still \ {o}
  BY <1>5, <1>10, <1>11
<1>13. LaneInv' /\ KeyBooks' /\ Ledger'
  BY <1>3, <1>9, <1>12, LaneInvStutter, KeyEnd, LedgerDrop DEF laneVars
<1>14. Newest(Settling)' /\ RequestTypes'
  BY <1>3, <1>9 DEF Newest, RequestTypes, Asked
<1> QED BY <1>8, <1>13, <1>14 DEF StackInv, Clearing

\* The queue is cleared: nothing in it was still to be dropped.
LEMMA SweepClearStep == BookInv /\ SweepClear => BookInv' /\ Clearing'
<1> SUFFICES ASSUME BookInv, SweepClear PROVE BookInv' /\ Clearing'
  OBVIOUS
<1> USE DEF BookInv
<1>1. PICK t \in Seq(OpId) : ToSweep(t) /\ calls = <<SweepCall("heavy", t, {}), ClearCall>>
  BY StackOf DEF SweepClear
<1>2. Top.todo = t /\ Top.lane = "heavy" /\ Top.lanes = {}
  BY <1>1 DEF Top, SweepCall
<1>3. /\ t = <<>> /\ waiting' = [waiting EXCEPT !["heavy"] = <<>>]
      /\ UNCHANGED <<nextId, op, entries, keyed, cancelled, running, launched, finals>>
  BY <1>2 DEF SweepClear
<1>4. calls' = <<ClearCall>>
  <2>1. NextSweep({})
    BY <1>2 DEF SweepClear
  <2>2. calls' = Tail(calls)
    BY <2>1 DEF NextSweep, Return
  <2> QED BY <1>1, <2>2
<1>5. ToClear(calls')
  BY <1>4 DEF ToClear
<1>6. Owed = {}
  BY <1>1, SweepOwes DEF Owed
<1>7. Owed' = {} /\ Settling' = {} /\ \A l \in Lane : SweepingIn(calls', l) = {}
  BY <1>5, QuietOwes DEF Owed, Settling
<1>8. waiting'["heavy"] = <<>>
  BY <1>3, HeavyLane DEF LaneInv, LaneTypes
<1>9. \A x : ~InQueue(x, <<>>)
  BY DEF InQueue
<1>10. Still = {} /\ Still' = {}
  BY <1>1, <1>3, <1>7, <1>8, <1>9, SweepOwes, HeavyLane DEF Still
<1>11. LaneInv' /\ KeyBooks' /\ Ledger'
  BY <1>3, <1>6, <1>7, <1>10, ClearKeeps, KeyCancel, LedgerStays
<1>12. Newest(Settling)' /\ RequestTypes'
  BY <1>3, <1>7 DEF Newest, RequestTypes, Asked
<1> QED BY <1>5, <1>11, <1>12 DEF StackInv, Clearing

\* on_finally: the account of the operation is closed.
LEMMA FinallyStep == BookInv /\ ViewerFinally => BookInv'
<1> SUFFICES ASSUME BookInv, ViewerFinally PROVE BookInv'
  OBVIOUS
<1> USE DEF BookInv
<1>1. /\ finals' = [finals EXCEPT ![Top.op] = @ + 1] /\ calls' = Tail(calls)
      /\ UNCHANGED <<nextId, op, entries, keyed, cancelled, running, waiting, launched>>
  BY DEF ViewerFinally, Finalised, Return
<1>2. LaneInv' /\ KeyBooks' /\ RequestTypes'
  BY <1>1, LaneInvStutter, KeyCancel DEF laneVars, RequestTypes, Asked
<1>3. ASSUME NEW o \in OpId, calls = <<FinallyCall(o)>>
      PROVE  Ledger' /\ Newest(Settling)' /\ StackInv'
  <2>1. calls' = <<>> /\ Top.op = o
    BY <1>1, <1>3 DEF Top, FinallyCall
  <2>2. Handling(calls) /\ Calm(calls')
    BY <1>3, <2>1 DEF Handling, Calm, Idle, Asks
  <2>3. Owed = {o} /\ \A l \in Lane : SweepingIn(calls, l) = {}
    BY <1>3, <2>2, HandlerOwes, HandlerSweeps DEF Owed
  <2>4. Owed' = {} /\ Settling' = {} /\ \A l \in Lane : SweepingIn(calls', l) = {}
    BY <2>2, QuietOwes DEF Owed, Settling
  <2>5. Still' = Still
    BY <1>1, <2>3, <2>4 DEF Still
  <2>6. Ledger'
    BY <1>1, <2>1, <2>3, <2>4, <2>5, LedgerFinal
  <2> QED BY <2>2, <2>4, <2>6 DEF Newest, StackInv
<1>4. ASSUME NEW o \in OpId, NEW p \in OpId, p # o,
             calls = <<FinallyCall(p), PumpCall("heavy"), SettleCall(o)>>
      PROVE  Ledger' /\ Newest(Settling)' /\ StackInv'
  <2>1. calls' = <<PumpCall("heavy"), SettleCall(o)>> /\ Top.op = p
    BY <1>1, <1>4 DEF Top, FinallyCall
  <2>2. Handling(calls) /\ Handling(calls')
    BY <1>4, <2>1 DEF Handling
  <2>3. Owed = {o, p} /\ Settling = {o} /\ Owed' = {o} /\ Settling' = {o}
    BY <1>4, <2>1, HandlerOwes DEF Owed, Settling
  <2>4. Still' = Still
    BY <1>1, <2>2, HandlerSweeps DEF Still
  <2>5. Ledger'
    BY <1>1, <1>4, <2>1, <2>3, <2>4, LedgerFinal
  <2>6. Newest(Settling)'
    BY <1>1, <2>3 DEF Newest, Asked
  <2> QED BY <2>2, <2>5, <2>6 DEF StackInv
<1>5. ASSUME NEW o \in OpId, NEW t \in Seq(OpId), ToSweep(t), ~InQueue(o, t),
             calls = <<FinallyCall(o), SweepCall("heavy", t, {}), ClearCall>>
      PROVE  Ledger' /\ Newest(Settling)' /\ StackInv'
  <2>1. calls' = <<SweepCall("heavy", t, {}), ClearCall>> /\ Top.op = o
    BY <1>1, <1>5 DEF Top, FinallyCall
  <2>2. ToSweep(t)'
    BY <1>1, <1>5 DEF ToSweep
  <2>3. Sweeping'
    BY <2>1, <2>2 DEF Sweeping
  <2>4. Owed = {o} /\ Owed' = {} /\ Settling' = {}
    BY <1>5, <2>1, SweepOwes, SweepFinallyOwes DEF Owed, Settling
  <2>5. Still' = Still
    BY <1>1, <1>5, <2>1, SweepOwes, SweepFinallyOwes, HeavyLane DEF Still
  <2>6. Ledger'
    BY <1>1, <2>1, <2>4, <2>5, LedgerFinal
  <2> QED BY <2>3, <2>4, <2>6 DEF Newest, StackInv, Clearing
<1>6. \/ \E o \in OpId : calls = <<FinallyCall(o)>>
      \/ \E o \in OpId, p \in OpId :
           p # o /\ calls = <<FinallyCall(p), PumpCall("heavy"), SettleCall(o)>>
      \/ \E o \in OpId, t \in Seq(OpId) :
           /\ ToSweep(t) /\ ~InQueue(o, t)
           /\ calls = <<FinallyCall(o), SweepCall("heavy", t, {}), ClearCall>>
  BY StackOf DEF ViewerFinally
<1> QED BY <1>2, <1>3, <1>4, <1>5, <1>6

\* A step of the manager.
LEMMA ManagerBooks == BookInv /\ ManagerStep => BookInv'
<1> SUFFICES ASSUME BookInv, ManagerStep PROVE BookInv'
  OBVIOUS
<1>1. CASE RunNext         BY <1>1, RunStep
<1>2. CASE SettleCancelled BY <1>2, SettleStep DEF SettleCancelled
<1>3. ASSUME NEW l \in Lane, PumpDrop(l) PROVE BookInv'
  BY <1>3, DropStep
<1>4. ASSUME NEW l \in Lane, PumpStart(l) PROVE BookInv'
  BY <1>4, StartStep
<1>5. CASE PumpDone        BY <1>5, PumpDoneStep
<1>6. CASE CancelAll       BY <1>6, CancelAllStep
<1>7. CASE SweepNext       BY <1>7, SweepNextStep
<1>8. CASE SweepClear      BY <1>8, SweepClearStep
<1> QED BY <1>1, <1>2, <1>3, <1>4, <1>5, <1>6, <1>7, <1>8 DEF ManagerStep

-----------------------------------------------------------------------------
(* What is still to come.                                                  *)

\* The three keys.
LEMMA ThreeKeys ==
  /\ Key = {Pipeline, TraceLoad, TraceProc}
  /\ Pipeline # TraceLoad /\ Pipeline # TraceProc /\ TraceLoad # TraceProc
BY ViewersAssumption DEF ViewersAssumption, Pipeline, TraceLoad, TraceProc

\* A request's key tells its kind, and the kind what it carries.
LEMMA RequestKinds ==
  ASSUME NEW r \in Request
  PROVE  /\ r.key \in Key
         /\ r.key = Pipeline => r.kind \in {"load", "rows"} /\ r.params \in Param /\ r.raw \in Place
         /\ r.key = TraceLoad => r.kind = "traces" /\ r.line \in Line
         /\ r.key = TraceProc => r.kind = "proc" /\ r.line \in Line /\ r.params \in Param
         /\ r.kind \in {"load", "rows"} => r.key = Pipeline
         /\ r.kind = "traces" => r.key = TraceLoad
         /\ r.kind = "proc" => r.key = TraceProc
BY ThreeKeys DEF Request

\* A frame of the windows is on top, or a request, or none.
LEMMA IdleTop ==
  ASSUME NEW c, Idle(c) \/ ToClear(c)
  PROVE  ~(c # <<>> /\ Head(c).call = "run")
<1>1. CASE c = <<>>
  BY <1>1
<1>2. CASE c \in {<<NavCall>>, <<NavCall, NoTraceCall>>}
  BY <1>2 DEF NavCall
<1>3. CASE c = <<NoTraceCall>>
  BY <1>3 DEF NoTraceCall
<1>4. CASE c \in {<<ClearCall>>, <<CancelAllCall, ClearCall>>}
  BY <1>4 DEF ClearCall, CancelAllCall
<1> QED BY <1>1, <1>2, <1>3, <1>4 DEF Idle, ToClear

\* The request on top.
LEMMA AsksTop ==
  ASSUME NEW c, NEW r, Asks(c, r)
  PROVE  c # <<>> /\ Head(c).call = "run" /\ Head(c).request = r /\ Idle(Tail(c))
<1>1. c # <<>> /\ Head(c) = RunCall(r)
  BY DEF Asks
<1>2. Idle(Tail(c))
  <2>1. CASE c = <<RunCall(r)>>
    BY <2>1 DEF Idle
  <2>2. CASE c = <<RunCall(r), NavCall>>
    BY <2>2 DEF Idle
  <2>3. CASE c = <<RunCall(r), NoTraceCall>>
    BY <2>3 DEF Idle
  <2>4. CASE c = <<RunCall(r), NavCall, NoTraceCall>>
    BY <2>4 DEF Idle
  <2> QED BY <2>1, <2>2, <2>3, <2>4 DEF Asks
<1> QED BY <1>1, <1>2 DEF RunCall

\* Nothing is asked for on the stack of a finished handler.
LEMMA HandlingTop ==
  ASSUME NEW c, Handling(c)
  PROVE  ~(c # <<>> /\ Head(c).call = "run")
<1>1. PICK o \in OpId :
        \/ c \in {<<FinallyCall(o)>>, <<SettleCall(o)>>, <<PumpCall("heavy"), SettleCall(o)>>}
        \/ \E p \in OpId \ {o} : c = <<FinallyCall(p), PumpCall("heavy"), SettleCall(o)>>
  BY DEF Handling
<1>2. c # <<>> /\ Head(c).call \in {"finally", "settle", "pump"}
  BY <1>1 DEF FinallyCall, SettleCall, PumpCall
<1> QED BY <1>2

\* What is to come was asked for, by its key.
LEMMA ComingTypes ==
  ASSUME BookInv, NEW k
  PROVE  /\ Live(k) \subseteq {r \in Request : r.key = k}
         /\ Coming(k) \subseteq {r \in Request : r.key = k}
<1>1. entries \subseteq Asked /\ Settling \subseteq Asked
  BY DEF BookInv, KeyBooks, Ledger, Owed, OwedIn, Settling, SettlingIn
<1>2. Live(k) \subseteq {r \in Request : r.key = k}
  BY <1>1 DEF Live, BookInv, RequestTypes
<1>3. ASSUME In("run") PROVE Top.request \in Request
  <2>1. PICK r \in Request : Asks(calls, r)
    BY <1>3, StackOf DEF BookInv, Asks
  <2> QED BY <2>1, AsksTop DEF Top
<1> QED BY <1>2, <1>3 DEF Coming

\* The windows cancel by keys, and ask for nothing yet: what was to come under
\* other keys still is.
LEMMA CancelLive ==
  ASSUME BookInv, Calm(calls) \/ ToClear(calls), Calm(calls') \/ ToClear(calls'),
         NEW keys \in SUBSET Key, Cancel(Current(keys))
  PROVE  \A k \in Key : Live(k)' = IF k \in keys THEN {} ELSE Live(k)
<1>1. Settling = {} /\ Settling' = {}
  BY QuietOwes DEF Settling
<1>2. cancelled' = cancelled \cup Current(keys) /\ entries' = entries /\ op' = op
  BY DEF Cancel
<1>3. \A o \in entries \ cancelled : op[o].key \in keys <=> o \in Current(keys)
  <2> SUFFICES ASSUME NEW o \in entries \ cancelled
               PROVE  op[o].key \in keys <=> o \in Current(keys)
    OBVIOUS
  <2>1. ASSUME op[o].key \in keys PROVE o \in Current(keys)
    BY <2>1 DEF Current, BookInv, KeyBooks
  <2>2. ASSUME o \in Current(keys) PROVE op[o].key \in keys
    <3>1. PICK k \in keys : o = keyed[k] /\ k \in Key
      BY <2>2 DEF Current
    <3>2. o # NoOp
      BY DEF BookInv, KeyBooks, Asked, OpId, NoOp
    <3> QED BY <3>1, <3>2 DEF BookInv, KeyBooks
  <2> QED BY <2>1, <2>2
<1> QED BY <1>1, <1>2, <1>3 DEF Live

\* A step that leaves the books, and what settles, alone, but for cancelled operations.
LEMMA ComingStays ==
  ASSUME op' = op,
         (entries' \cup Settling') \ cancelled' = (entries \cup Settling) \ cancelled,
         ~In("run"), ~In("run")'
  PROVE  \A k : Coming(k)' = Coming(k)
<1>1. \A k : Live(k)' = Live(k)
  BY DEF Live
<1> QED BY <1>1 DEF Coming

\* run delivers what was asked for, and nothing older under its key.
LEMMA RunComing ==
  ASSUME BookInv, TokensAsked, RunNext
  PROVE  \A k : Coming(k)' = Coming(k)
<1> USE DEF BookInv
<1>1. PICK r \in Request : Asks(calls, r)
  BY StackOf DEF RunNext, Asks
<1>2. In("run") /\ Top.request = r /\ ~In("run")' /\ r.key \in Key
  BY <1>1, AsksTop, IdleTop, RequestKinds DEF In, Top, RunNext, Return
<1>3. Settling = {} /\ Settling' = {}
  BY <1>1, <1>2, AsksTop, QuietOwes DEF Settling, Calm, RunNext, Return
<1>4. /\ nextId \in OpId /\ op' = [op EXCEPT ![nextId] = r]
      /\ entries' = entries \cup {nextId}
      /\ cancelled' = cancelled \cup ({keyed[r.key]} \cap entries)
      /\ nextId \notin Asked /\ Asked \subseteq OpId
  BY <1>2, OperationAssumption
     DEF RunNext, LaneInv, LaneTypes, OpId, Asked, OperationAssumption, Superseded
<1>5. /\ op'[nextId] = r /\ \A o \in Asked : op'[o] = op[o]
      /\ nextId \notin cancelled' /\ entries \subseteq Asked
  BY <1>4 DEF LaneInv, LaneTypes, KeyBooks, TokensAsked
<1>6. ASSUME NEW o \in entries \ cancelled
      PROVE  o \in cancelled' <=> op[o].key = r.key
  <2>1. ASSUME op[o].key = r.key PROVE o \in cancelled'
    BY <1>2, <1>4, <2>1 DEF KeyBooks
  <2>2. ASSUME o \in cancelled' PROVE op[o].key = r.key
    BY <1>2, <1>4, <2>2 DEF KeyBooks, NoOp, Asked, OpId
  <2> QED BY <2>1, <2>2
<1>7. ASSUME NEW k PROVE Live(k)' = IF k = r.key THEN {r} ELSE Live(k)
  <2>1. {o \in entries' \ cancelled' : op'[o].key = k} =
          IF k = r.key THEN {nextId} ELSE {o \in entries \ cancelled : op[o].key = k}
    BY <1>4, <1>5, <1>6
  <2>2. \A o \in entries : op'[o] = op[o]
    BY <1>5
  <2> QED BY <1>3, <1>5, <2>1, <2>2 DEF Live
<1> QED BY <1>2, <1>7 DEF Coming

\* The operation that delivers is the last to come under its key.
LEMMA SettleLive ==
  ASSUME BookInv, NEW o \in OpId, calls = <<SettleCall(o)>>, o \notin cancelled,
         Settling' = {}, UNCHANGED <<op, entries, cancelled>>
  PROVE  /\ op[o] \in Request
         /\ Live(op[o].key) = {op[o]} /\ Live(op[o].key)' = {}
         /\ \A k : k # op[o].key => Live(k)' = Live(k)
<1> USE DEF BookInv
<1>1. Settling = {o} /\ Owed = {o}
  BY HandlerOwes DEF Settling, Owed
<1>2. o \in Asked \ entries /\ entries \subseteq Asked /\ op[o] \in Request
  BY <1>1 DEF Ledger, KeyBooks, RequestTypes
<1>3. op[o].key \in Key
  BY <1>2, RequestKinds
<1>4. ASSUME NEW p \in entries \ cancelled, op[p].key = op[o].key PROVE FALSE
  <2>1. p <= o
    BY <1>1, <1>2, <1>3, <1>4 DEF Newest
  <2>2. o <= p
    BY <1>2, <1>3, <1>4 DEF KeyBooks, Newest
  <2>3. p = o
    BY <1>2, <2>1, <2>2 DEF Asked, OpId
  <2> QED BY <1>2, <2>3
<1> QED BY <1>1, <1>2, <1>4 DEF Live

-----------------------------------------------------------------------------
(* The windows while the manager works.                                    *)

\* What is on top while the windows are about to be cleared.
LEMMA ClearingTop ==
  ASSUME Clearing
  PROVE  In("clear") \/ In("cancelAll") \/ In("sweep") \/ In("finally")
<1>1. CASE ToClear(calls)
  BY <1>1 DEF ToClear, In, Top, ClearCall, CancelAllCall
<1>2. CASE Sweeping
  <2>1. PICK t \in Seq(OpId) :
          \/ calls = <<SweepCall("heavy", t, {}), ClearCall>>
          \/ \E o \in OpId : calls = <<FinallyCall(o), SweepCall("heavy", t, {}), ClearCall>>
    BY <1>2 DEF Sweeping
  <2>2. calls # <<>> /\ Head(calls).call \in {"sweep", "finally"}
    BY <2>1 DEF SweepCall, FinallyCall
  <2> QED BY <2>2 DEF In, Top
<1> QED BY <1>1, <1>2 DEF Clearing

\* A step of the manager leaves the windows alone, and what is to come.
LEMMA SameView ==
  ASSUME RowsInv, TraceInv, \A k : Coming(k)' = Coming(k), UNCHANGED viewerVars
  PROVE  RowsInv' /\ TraceInv'
BY DEF RowsInv, TraceInv, viewerVars, Empty, Asking

\* Nothing that is live is dropped, swept or discarded.
LEMMA ManagerWindows ==
  ASSUME BookInv, TokensAsked, WindowInv, ManagerStep, UNCHANGED viewerVars
  PROVE  WindowInv'
<1>1. CASE RunNext
  <2>1. ~Clearing
    BY <1>1, ClearingTop DEF RunNext, In
  <2> QED BY <1>1, <2>1, RunComing, SameView DEF WindowInv
<1>2. CASE SettleCancelled
  <2>1. ~Clearing /\ ~In("run")
    BY <1>2, ClearingTop DEF SettleCancelled, In
  <2>2. PICK o \in OpId : calls = <<SettleCall(o)>>
    BY <1>2, StackOf DEF SettleCancelled, BookInv
  <2>3. calls' = <<FinallyCall(o)>> /\ o \in cancelled
    BY <1>2, <2>2 DEF SettleCancelled, Become, Top, SettleCall, Discarded
  <2>4. Settling = {o} /\ Settling' = {} /\ ~In("run")'
    BY <2>2, <2>3, HandlerOwes DEF Settling, In, Top, FinallyCall
  <2>5. \A k : Coming(k)' = Coming(k)
    BY <1>2, <2>1, <2>3, <2>4, ComingStays DEF SettleCancelled
  <2> QED BY <2>1, <2>5, SameView DEF WindowInv
<1>3. ASSUME NEW l \in Lane, PumpDrop(l) PROVE WindowInv'
  <2>1. l = "heavy" /\ In("pump")
    BY <1>3, HeavyLane DEF PumpDrop, CanPump, In, PumpCall
  <2>2. ~Clearing /\ ~In("run")
    BY <2>1, ClearingTop DEF In
  <2>3. PICK o \in OpId : calls = <<PumpCall("heavy"), SettleCall(o)>>
    BY <2>1, StackOf DEF BookInv
  <2>4. Head(waiting[l]) \in OpId
    BY <1>3, QueueTail DEF PumpDrop, CanPump, BookInv, LaneInv, LaneTypes
  <2>5. calls' = <<FinallyCall(Head(waiting[l])), PumpCall("heavy"), SettleCall(o)>>
    BY <1>3, <2>3, Joined DEF PumpDrop, Push
  <2>6. Settling = {o} /\ Settling' = {o} /\ ~In("run")'
    BY <2>3, <2>4, <2>5, HandlerOwes DEF Settling, In, Top, FinallyCall
  <2>7. \A k : Coming(k)' = Coming(k)
    BY <1>3, <2>2, <2>6, ComingStays DEF PumpDrop
  <2> QED BY <2>2, <2>7, SameView DEF WindowInv
<1>4. ASSUME NEW l \in Lane, PumpStart(l) PROVE WindowInv'
  <2>1. In("pump")
    BY <1>4 DEF PumpStart, CanPump, In, PumpCall
  <2>2. ~Clearing /\ ~In("run") /\ ~In("run")' /\ Settling' = Settling
    BY <1>4, <2>1, ClearingTop DEF In, Top, PumpStart, Settling
  <2>3. \A k : Coming(k)' = Coming(k)
    BY <1>4, <2>2, ComingStays DEF PumpStart
  <2> QED BY <2>2, <2>3, SameView DEF WindowInv
<1>5. CASE PumpDone
  <2>1. ~Clearing /\ ~In("run")
    BY <1>5, ClearingTop DEF PumpDone, In
  <2>2. PICK o \in OpId : calls = <<PumpCall("heavy"), SettleCall(o)>>
    BY <1>5, StackOf DEF PumpDone, BookInv
  <2>3. calls' = <<SettleCall(o)>>
    BY <1>5, <2>2 DEF PumpDone, Return
  <2>4. Settling = {o} /\ Settling' = {o} /\ ~In("run")'
    BY <2>2, <2>3, HandlerOwes DEF Settling, In, Top, SettleCall
  <2>5. \A k : Coming(k)' = Coming(k)
    BY <1>5, <2>1, <2>4, ComingStays DEF PumpDone
  <2> QED BY <2>1, <2>5, SameView DEF WindowInv
<1>6. CASE CancelAll \/ SweepNext \/ SweepClear
  BY <1>6, CancelAllStep, SweepNextStep, SweepClearStep DEF WindowInv
<1> QED BY <1>1, <1>2, <1>3, <1>4, <1>5, <1>6 DEF ManagerStep

\* A step of the manager.
LEMMA ManagerView == ViewInv /\ Manager => ViewInv'
<1> SUFFICES ASSUME ViewInv, Manager PROVE ViewInv'
  OBVIOUS
<1> USE DEF ViewInv
<1>1. ManagerStep /\ UNCHANGED viewerVars
  BY DEF Manager
<1>2. BookInv' /\ WindowInv'
  BY <1>1, ManagerBooks, ManagerWindows
<1>3. ViewerTypes'
  BY <1>1 DEF ViewerTypes, viewerVars
<1>4. TokensAsked'
  <2>1. cancelled' \subseteq cancelled \cup entries /\ nextId' \in {nextId, nextId + 1} /\ nextId \in Nat
    BY <1>1 DEF ManagerStep, RunNext, SettleCancelled, PumpDrop, PumpStart, PumpDone, CancelAll,
                SweepNext, SweepClear, Superseded, BookInv, LaneInv, LaneTypes
  <2>2. Asked \subseteq Asked'
    BY <2>1 DEF Asked, OpId
  <2> QED BY <2>1, <2>2 DEF TokensAsked, BookInv, KeyBooks
<1> QED BY <1>2, <1>3, <1>4

\* A background function returns.
LEMMA PoolView == ASSUME ViewInv, NEW o \in OpId, PoolFinishes(o) PROVE ViewInv'
<1> USE DEF ViewInv
<1>1. AtRest /\ Finish(o) /\ UNCHANGED viewerVars
  BY DEF PoolFinishes
<1>2. BookInv'
  BY <1>1, FinishStep
<1>3. ViewerTypes' /\ TokensAsked'
  BY <1>1 DEF ViewerTypes, viewerVars, TokensAsked, Finish, Asked
<1>4. ~Clearing /\ ~In("run") /\ Settling = {}
  BY <1>1, ClearingTop, QuietOwes DEF AtRest, In, Calm, Idle, Settling
<1>5. calls' \in {<<PumpCall("heavy"), SettleCall(o)>>, <<SettleCall(o)>>}
  BY <1>1, HeavyLane DEF Finish, Push, AtRest
<1>6. Handling(calls')
  BY <1>5 DEF Handling
<1>7. ~In("run")' /\ Settling' = {o}
  BY <1>5, <1>6, HandlingTop, HandlerOwes DEF In, Top, Settling
<1>8. o \in entries
  BY <1>1 DEF Finish, BookInv, Ledger
<1>9. \A k : Coming(k)' = Coming(k)
  BY <1>1, <1>4, <1>7, <1>8, ComingStays DEF Finish
<1> QED BY <1>1, <1>2, <1>3, <1>4, <1>9, SameView DEF WindowInv

\* on_finally.
LEMMA FinallyView == ViewInv /\ ViewerFinally => ViewInv'
<1> SUFFICES ASSUME ViewInv, ViewerFinally PROVE ViewInv'
  OBVIOUS
<1> USE DEF ViewInv
<1>1. /\ In("finally") /\ calls' = Tail(calls) /\ UNCHANGED viewerVars
      /\ UNCHANGED <<nextId, op, entries, cancelled, waiting>>
  BY DEF ViewerFinally, Return
<1>2. BookInv'
  BY FinallyStep
<1>3. ViewerTypes' /\ TokensAsked'
  BY <1>1 DEF ViewerTypes, viewerVars, TokensAsked, Asked
<1>4. ~In("run")
  BY <1>1 DEF In
<1>5. ASSUME NEW o \in OpId, calls = <<FinallyCall(o)>> PROVE WindowInv'
  <2>1. calls' = <<>>
    BY <1>1, <1>5
  <2>2. ~Clearing
    BY <1>5 DEF Clearing, ToClear, Sweeping, FinallyCall, ClearCall, CancelAllCall
  <2>3. Settling = {} /\ Settling' = {} /\ ~In("run")'
    BY <1>5, <2>1, HandlerOwes, QuietOwes DEF Settling, Calm, Idle, In
  <2>4. \A k : Coming(k)' = Coming(k)
    BY <1>1, <1>4, <2>3, ComingStays
  <2> QED BY <1>1, <2>2, <2>4, SameView DEF WindowInv
<1>6. ASSUME NEW o \in OpId, NEW p \in OpId, p # o,
             calls = <<FinallyCall(p), PumpCall("heavy"), SettleCall(o)>>
      PROVE  WindowInv'
  <2>1. calls' = <<PumpCall("heavy"), SettleCall(o)>>
    BY <1>1, <1>6
  <2>2. ~Clearing
    <3>1. SettleCall(o) # ClearCall
      BY DEF SettleCall, ClearCall
    <3> QED BY <1>6, <3>1 DEF Clearing, ToClear, Sweeping
  <2>3. Settling = {o} /\ Settling' = {o} /\ ~In("run")'
    BY <1>6, <2>1, HandlerOwes DEF Settling, In, Top, PumpCall
  <2>4. \A k : Coming(k)' = Coming(k)
    BY <1>1, <1>4, <2>3, ComingStays
  <2> QED BY <1>1, <2>2, <2>4, SameView DEF WindowInv
<1>7. ASSUME NEW o \in OpId, NEW t \in Seq(OpId), ToSweep(t),
             calls = <<FinallyCall(o), SweepCall("heavy", t, {}), ClearCall>>
      PROVE  WindowInv'
  <2>1. calls' = <<SweepCall("heavy", t, {}), ClearCall>>
    BY <1>1, <1>7
  <2>2. ToSweep(t)'
    BY <1>1, <1>7 DEF ToSweep
  <2> QED BY <2>1, <2>2 DEF WindowInv, Clearing, Sweeping
<1> QED BY <1>1, <1>2, <1>3, <1>5, <1>6, <1>7, StackOf DEF BookInv

-----------------------------------------------------------------------------
(* The windows ask.                                                        *)

\* A request pushed on an empty stack, before what its caller does next.
LEMMA PushAsks ==
  ASSUME AtRest, NEW m, Idle(m), NEW r, Push(<<RunCall(r)>> \o m)
  PROVE  Asks(calls', r)
<1> PICK c : c = <<RunCall(r)>> \o m
  OBVIOUS
<1> DEFINE S == {RunCall(r), NavCall, NoTraceCall}
<1>1. Asks(c, r)
  <2>1. CASE m = <<>>
    <3>1. c = <<RunCall(r)>>
      BY <2>1
    <3> QED BY <3>1 DEF Asks
  <2>2. CASE m = <<NavCall>>
    <3>1. c = <<RunCall(r), NavCall>>
      BY <2>2, Joined
    <3> QED BY <3>1 DEF Asks
  <2>3. CASE m = <<NoTraceCall>>
    <3>1. c = <<RunCall(r), NoTraceCall>>
      BY <2>3, Joined
    <3> QED BY <3>1 DEF Asks
  <2>4. CASE m = <<NavCall, NoTraceCall>>
    <3>1. c = <<RunCall(r), NavCall, NoTraceCall>>
      BY <2>4, Joined
    <3> QED BY <3>1 DEF Asks
  <2> QED BY <2>1, <2>2, <2>3, <2>4 DEF Idle
<1>2. c \in Seq(S)
  <2>1. RunCall(r) \in S /\ NavCall \in S /\ NoTraceCall \in S
    OBVIOUS
  <2> HIDE DEF S
  <2>2. \A x, y, z \in S : <<x>> \in Seq(S) /\ <<x, y>> \in Seq(S) /\ <<x, y, z>> \in Seq(S)
    OBVIOUS
  <2> QED BY <1>1, <2>1, <2>2 DEF Asks
<1>3. c \o <<>> = c
  BY <1>2, ConcatEmptySeq
<1> QED BY <1>1, <1>3 DEF AtRest, Push

\* A call returns, or cancels operations, and asks for nothing.
LEMMA AskNothing ==
  ASSUME BookInv, TokensAsked, Idle(calls) \/ ToClear(calls), Idle(calls'),
         NEW keys \in SUBSET Key, Cancel(Current(keys))
  PROVE  /\ BookInv' /\ TokensAsked'
         /\ \A k \in Key : Coming(k)' = IF k \in keys THEN {} ELSE Coming(k)
<1>1. BookInv'
  BY QuietStep DEF Calm, Cancel
<1>2. TokensAsked'
  BY DEF TokensAsked, Cancel, Current, BookInv, KeyBooks, Asked
<1>3. \A k \in Key : Live(k)' = IF k \in keys THEN {} ELSE Live(k)
  BY CancelLive DEF Calm
<1>4. ~In("run") /\ ~In("run")'
  BY IdleTop DEF In, Top
<1> QED BY <1>1, <1>2, <1>3, <1>4 DEF Coming

\* It asks for r.
LEMMA AskFor ==
  ASSUME BookInv, TokensAsked, Idle(calls), NEW r \in Request, Asks(calls', r),
         NEW keys \in SUBSET Key, Cancel(Current(keys))
  PROVE  /\ BookInv' /\ TokensAsked'
         /\ \A k \in Key : Coming(k)' = IF k = r.key THEN {r}
                                        ELSE IF k \in keys THEN {} ELSE Coming(k)
<1>1. BookInv'
  BY QuietStep DEF Calm, Cancel
<1>2. TokensAsked'
  BY DEF TokensAsked, Cancel, Current, BookInv, KeyBooks, Asked
<1>3. \A k \in Key : Live(k)' = IF k \in keys THEN {} ELSE Live(k)
  BY CancelLive DEF Calm
<1>4. ~In("run") /\ In("run")' /\ Top'.request = r
  BY IdleTop, AsksTop DEF In, Top
<1> QED BY <1>1, <1>2, <1>3, <1>4 DEF Coming

\* At rest the windows are not about to be cleared.
LEMMA RestingView ==
  ASSUME ViewInv, Idle(calls)
  PROVE  RowsInv /\ TraceInv
<1>1. CASE calls = <<>>
  BY <1>1, ClearingTop DEF ViewInv, WindowInv, In
<1>2. CASE calls \in {<<NavCall>>, <<NavCall, NoTraceCall>>}
  BY <1>2, ClearingTop DEF ViewInv, WindowInv, In, Top, NavCall
<1>3. CASE calls = <<NoTraceCall>>
  BY <1>3, ClearingTop DEF ViewInv, WindowInv, In, Top, NoTraceCall
<1> QED BY <1>1, <1>2, <1>3 DEF Idle

\* The sub-bottom window and what is to come for it stay.
LEMMA SameTraces ==
  ASSUME TraceInv, sb' = sb, Coming(TraceLoad)' = Coming(TraceLoad),
         Coming(TraceProc)' = Coming(TraceProc)
  PROVE  TraceInv'
BY DEF TraceInv

\* The waterfall and what is to come for it stay.
LEMMA SameRows ==
  ASSUME RowsInv, UNCHANGED <<wf, overtaken>>, Coming(Pipeline)' = Coming(Pipeline)
  PROVE  RowsInv'
BY DEF RowsInv, Empty, Asking

\* The three places are told apart.
LEMMA Places3 ==
  ASSUME NEW r \in Place
  PROVE  r # NoPlace /\ r.line \in Line /\ r.line # NoLine /\ r.band \in Band /\ r.row \in Row
         /\ r = [line |-> r.line, band |-> r.band, row |-> r.row]
BY ViewersAssumption DEF Place, NoPlace, ViewersAssumption

\* A window is loaded: it supersedes all that was asked for before.
LEMMA LoadView ==
  ASSUME ViewInv, AtRest, NEW w \in WaterfallType, w.layer \in Line, NEW r \in Row,
         NEW m, Idle(m), LoadWindow(w, r, m),
         NEW keys \in SUBSET {Pipeline}, Cancel(Current(keys)), UNCHANGED sb
  PROVE  ViewInv'
<1> USE DEF ViewInv
<1> DEFINE q == LoadOf(w, r)
<1>1. /\ wf' = [w EXCEPT !.state = "Loading"] /\ overtaken' = FALSE
      /\ Push(<<RunCall(q)>> \o m)
  BY DEF LoadWindow
<1>2. w.band \in Band /\ w.params \in Param
  BY DEF WaterfallType
<1>3. /\ q.kind = "load" /\ q.key = Pipeline /\ q.raw.line = w.layer /\ q.raw.band = w.band
      /\ q \in Request
  BY <1>2 DEF LoadOf, Request, Place
<1>4. wf' \in WaterfallType
  BY <1>1 DEF WaterfallType, State
<1>5. Idle(calls) /\ Asks(calls', q)
  BY <1>1, PushAsks DEF AtRest, Idle
<1>6. /\ BookInv' /\ TokensAsked'
      /\ \A k \in Key : Coming(k)' = IF k = Pipeline THEN {q} ELSE Coming(k)
  <2> HIDE DEF q
  <2>1. keys \in SUBSET Key
    BY ThreeKeys
  <2> QED BY <1>3, <1>5, <2>1, AskFor
<1>7. ViewerTypes'
  BY <1>1, <1>4 DEF ViewerTypes
<1>8. RowsInv /\ TraceInv
  BY <1>5, RestingView
<1>9. TraceInv'
  BY <1>6, <1>8, ThreeKeys, SameTraces
<1>10. RowsInv'
  <2>1. Coming(Pipeline)' = {q}
    BY <1>6, ThreeKeys
  <2>2. wf'.layer = w.layer /\ wf'.band = w.band /\ wf'.state = "Loading"
    BY <1>1 DEF WaterfallType
  <2> HIDE DEF q
  <2> QED BY <1>3, <2>1, <2>2 DEF RowsInv
<1> QED BY <1>6, <1>7, <1>9, <1>10 DEF WindowInv

\* setLayer.
LEMMA SetLayerView ==
  ASSUME ViewInv, AtRest, NEW l \in Line, NEW p \in Param, NEW m, Idle(m),
         SetLayer(l, p, m), UNCHANGED sb
  PROVE  ViewInv'
<1> DEFINE w == [wf EXCEPT !.layer = l, !.params = p, !.band = MainBand, !.first = 0,
                           !.repipe = FALSE, !.scroll = NoRow]
<1>1. MainBand \in Band
  BY ViewersAssumption DEF MainBand, ViewersAssumption
<1>2. w \in WaterfallType /\ w.layer = l
  BY <1>1 DEF ViewInv, ViewerTypes, WaterfallType, Row
<1>3. 0 \in Row /\ LoadWindow(w, 0, m) /\ Cancel(Current({Pipeline}))
  BY DEF SetLayer, Row
<1> HIDE DEF w
<1> QED BY <1>2, <1>3, LoadView

\* The operator opens a line, reloads it, chooses a band, or scrolls and rests.
LEMMA LoadsView ==
  ASSUME ViewInv,
         \/ \E l \in Line : OpenLine(l)
         \/ \E b \in Band : ChooseBand(b)
         \/ ReloadLine \/ ScrollFires
  PROVE  ViewInv'
<1> USE DEF ViewInv
<1>1. ASSUME NEW l \in Line, OpenLine(l) PROVE ViewInv'
  <2>1. PICK p \in Param, m \in {<<>>, <<NoTraceCall>>} : SetLayer(l, p, <<NavCall>> \o m)
    BY <1>1 DEF OpenLine
  <2>2. Idle(<<NavCall>> \o m)
    <3>1. CASE m = <<>>
      <4>1. <<NavCall>> \o m = <<NavCall>>
        BY <3>1
      <4> QED BY <4>1 DEF Idle
    <3>2. CASE m = <<NoTraceCall>>
      <4>1. <<NavCall>> \o m = <<NavCall, NoTraceCall>>
        BY <3>2, Joined
      <4> QED BY <4>1 DEF Idle
    <3> QED BY <3>1, <3>2
  <2>3. AtRest /\ UNCHANGED sb
    BY <1>1 DEF OpenLine
  <2> QED BY <2>1, <2>2, <2>3, SetLayerView
<1>2. CASE ReloadLine
  <2>1. PICK p \in Param : SetLayer(wf.layer, p, <<>>)
    BY <1>2 DEF ReloadLine
  <2>2. AtRest /\ UNCHANGED sb /\ wf.layer \in Line
    BY <1>2 DEF ReloadLine, ViewerTypes, WaterfallType
  <2> QED BY <2>1, <2>2, SetLayerView DEF Idle
<1>3. ASSUME NEW b \in Band, ChooseBand(b) PROVE ViewInv'
  <2> DEFINE w == [wf EXCEPT !.band = b, !.first = 0]
  <2>1. /\ AtRest /\ LoadWindow(w, 0, <<>>) /\ Cancel({}) /\ UNCHANGED sb /\ wf.layer \in Line
    BY <1>3 DEF ChooseBand, ViewerTypes, WaterfallType
  <2>2. w \in WaterfallType /\ w.layer \in Line /\ 0 \in Row
    BY <2>1 DEF ViewerTypes, WaterfallType, Row
  <2>3. Cancel(Current({}))
    BY <2>1 DEF Current
  <2> HIDE DEF w
  <2> QED BY <2>1, <2>2, <2>3, LoadView DEF Idle
<1>4. CASE ScrollFires
  <2> DEFINE w == [wf EXCEPT !.scroll = NoRow]
  <2>1. AtRest /\ wf.scroll # NoRow /\ LoadWindow(w, wf.scroll, <<>>) /\ Cancel({}) /\ UNCHANGED sb
    BY <1>4 DEF ScrollFires
  <2>2. RowsInv
    BY <2>1, RestingView DEF AtRest, Idle
  <2>3. w \in WaterfallType /\ w.layer \in Line /\ wf.scroll \in Row
    BY <2>1, <2>2 DEF ViewerTypes, WaterfallType, RowsInv
  <2>4. Cancel(Current({}))
    BY <2>1 DEF Current
  <2> HIDE DEF w
  <2> QED BY <2>1, <2>3, <2>4, LoadView DEF Idle
<1> QED BY <1>1, <1>2, <1>3, <1>4

\* What a rebuild of the pings held is: the place they were read from, asked for
\* unless a load was superseded.
LEMMA HeldRows ==
  ASSUME ViewInv, Idle(calls), ~Empty(wf)
  PROVE  wf.raw \in Place /\ (overtaken \/ Overtakes \/ wf.raw = Asking)
<1>1. wf.raw \in Place
  BY DEF ViewInv, ViewerTypes, WaterfallType, Empty
<1>2. CASE \A r \in Coming(Pipeline) : r.kind # "load"
  BY <1>1, <1>2, RestingView DEF RowsInv
<1>3. ASSUME NEW r \in Coming(Pipeline), r.kind = "load" PROVE Overtakes
  <2>1. r \in Live(Pipeline) /\ Settling = {}
    BY IdleTop, QuietOwes DEF Coming, In, Top, Settling, Calm
  <2>2. PICK o \in entries \ cancelled : op[o] = r /\ op[o].key = Pipeline
    BY <2>1 DEF Live
  <2>3. keyed[Pipeline] = o
    BY <2>2, ThreeKeys DEF ViewInv, BookInv, KeyBooks
  <2> QED BY <1>3, <2>2, <2>3 DEF Overtakes, Current
<1> QED BY <1>1, <1>2, <1>3

\* A rebuild is asked for, of the pings held and with the parameters of the controls.
LEMMA RebuildView ==
  ASSUME ViewInv, Idle(calls), ~Empty(wf), NEW q \in Request,
         q.kind = "rows", q.params = wf.params, q.raw = wf.raw,
         Asks(calls', q), Cancel({}),
         \/ wf' = [wf EXCEPT !.state = "Processing"]
         \/ wf' = [wf EXCEPT !.repipe = FALSE],
         overtaken' = (overtaken \/ Overtakes), UNCHANGED sb
  PROVE  ViewInv'
<1> USE DEF ViewInv
<1>1. Cancel(Current({})) /\ q.key = Pipeline
  BY RequestKinds DEF Current
<1>2. /\ BookInv' /\ TokensAsked'
      /\ \A k \in Key : Coming(k)' = IF k = Pipeline THEN {q} ELSE Coming(k)
  BY <1>1, AskFor
<1>3. /\ wf' \in WaterfallType
      /\ UNCHANGED <<wf.layer, wf.band, wf.first, wf.raw, wf.params, wf.scroll>>
  BY DEF ViewerTypes, WaterfallType, State
<1>4. ViewerTypes'
  BY <1>3 DEF ViewerTypes, Overtakes
<1>5. RowsInv /\ TraceInv
  BY RestingView
<1>6. TraceInv'
  BY <1>2, <1>5, ThreeKeys, SameTraces
<1>7. wf.raw \in Place /\ (overtaken' \/ wf.raw = Asking)
  BY HeldRows
<1>8. RowsInv'
  <2>1. Coming(Pipeline)' = {q}
    BY <1>2, ThreeKeys
  <2>2. Asking' = Asking /\ Empty(wf)' = Empty(wf)
    BY <1>3 DEF Asking, Empty
  <2> QED BY <1>3, <1>5, <1>7, <2>1, <2>2 DEF RowsInv
<1> QED BY <1>2, <1>4, <1>6, <1>8 DEF WindowInv

\* The controls of the waterfall change, and a navigation run may follow: the
\* rebuild's timer runs, unless there are no pings.
LEMMA ControlsView ==
  ASSUME ViewInv, AtRest, Idle(calls'), Cancel({}), UNCHANGED <<sb, overtaken>>,
         NEW p \in Param,
         \/ wf' = Invalidated([wf EXCEPT !.params = p])
         \/ wf' = wf
         \/ \E s \in Row \cup {NoRow} : wf.layer \in Line /\ wf' = [wf EXCEPT !.scroll = s]
  PROVE  ViewInv'
<1> USE DEF ViewInv
<1>1. Cancel(Current({})) /\ Idle(calls)
  BY DEF Current, AtRest, Idle
<1>2. /\ BookInv' /\ TokensAsked'
      /\ \A k \in Key : Coming(k)' = Coming(k)
  BY <1>1, AskNothing
<1>3. RowsInv /\ TraceInv
  BY <1>1, RestingView
<1>4. TraceInv'
  BY <1>2, <1>3, ThreeKeys, SameTraces
<1>5. Coming(Pipeline)' = Coming(Pipeline)
  BY <1>2, ThreeKeys
<1>6. CASE wf' = wf
  BY <1>2, <1>3, <1>4, <1>5, <1>6, SameRows DEF ViewerTypes, WindowInv
<1>7. ASSUME NEW s \in Row \cup {NoRow}, wf.layer \in Line, wf' = [wf EXCEPT !.scroll = s]
      PROVE  ViewInv'
  <2>1. /\ wf' \in WaterfallType
        /\ UNCHANGED <<wf.layer, wf.band, wf.first, wf.raw, wf.params, wf.rows, wf.state, wf.repipe>>
    BY <1>7 DEF ViewerTypes, WaterfallType
  <2>2. Asking' = Asking /\ Empty(wf)' = Empty(wf)
    BY <2>1 DEF Asking, Empty
  <2>3. RowsInv'
    BY <1>3, <1>5, <1>7, <2>1, <2>2 DEF RowsInv
  <2> QED BY <1>2, <1>4, <2>1, <2>3 DEF ViewerTypes, WindowInv
<1>8. CASE wf' = Invalidated([wf EXCEPT !.params = p])
  <2>1. /\ wf' \in WaterfallType
        /\ UNCHANGED <<wf.layer, wf.band, wf.first, wf.raw, wf.rows, wf.scroll>>
        /\ Empty(wf) => wf'.state = wf.state
        /\ ~Empty(wf) => wf'.state = "Processing" /\ wf'.repipe
    BY <1>8 DEF ViewerTypes, WaterfallType, Invalidated, Empty, State
  <2>2. Asking' = Asking /\ Empty(wf)' = Empty(wf)
    BY <2>1 DEF Asking, Empty
  <2>3. RowsInv'
    BY <1>3, <1>5, <2>1, <2>2 DEF RowsInv
  <2> QED BY <1>2, <1>4, <2>1, <2>3 DEF ViewerTypes, WindowInv
<1> QED BY <1>6, <1>7, <1>8

\* The operator's other uses of the waterfall.
LEMMA ControlsActions ==
  ASSUME ViewInv,
         \/ \E r \in Row : Scroll(r)
         \/ \E p \in Param : ChangeParams(p) \/ ApplyTools(p)
         \/ ChangeStretch \/ ApplyNav
  PROVE  ViewInv'
<1> USE DEF ViewInv
<1>1. wf.params \in Param /\ wf \in WaterfallType
  BY DEF ViewerTypes, WaterfallType
<1>2. ASSUME NEW r \in Row, Scroll(r) PROVE ViewInv'
  <2>1. /\ AtRest /\ UNCHANGED <<managerVars, sb, overtaken>> /\ wf.layer \in Line
        /\ \E s \in Row \cup {NoRow} : wf' = [wf EXCEPT !.scroll = s]
    BY <1>1, <1>2 DEF Scroll, WaterfallType
  <2>2. Idle(calls') /\ Cancel({})
    BY <2>1 DEF AtRest, Idle, managerVars, Cancel
  <2> QED BY <1>1, <2>1, <2>2, ControlsView
<1>3. ASSUME NEW p \in Param, ChangeParams(p) PROVE ViewInv'
  <2>1. /\ AtRest /\ UNCHANGED <<managerVars, sb, overtaken>>
        /\ wf' = Invalidated([wf EXCEPT !.params = p])
    BY <1>3 DEF ChangeParams, Changed
  <2>2. Idle(calls') /\ Cancel({})
    BY <2>1 DEF AtRest, Idle, managerVars, Cancel
  <2> QED BY <2>1, <2>2, ControlsView
<1>4. CASE ChangeStretch
  <2>1. AtRest /\ UNCHANGED <<managerVars, sb, overtaken>> /\ wf' = Invalidated(wf)
    BY <1>4 DEF ChangeStretch
  <2>2. [wf EXCEPT !.params = wf.params] = wf
    BY <1>1 DEF WaterfallType
  <2>3. Idle(calls') /\ Cancel({})
    BY <2>1 DEF AtRest, Idle, managerVars, Cancel
  <2> QED BY <1>1, <2>1, <2>2, <2>3, ControlsView
<1>5. ASSUME AtRest, Push(<<NavCall>>) PROVE Idle(calls')
  <2>1. calls' = <<NavCall>> \o <<>>
    BY <1>5 DEF AtRest, Push
  <2>2. calls' = <<NavCall>>
    BY <2>1
  <2> QED BY <2>2 DEF Idle
<1>6. ASSUME NEW p \in Param, ApplyTools(p) PROVE ViewInv'
  <2>1. /\ AtRest /\ UNCHANGED <<sb, overtaken>> /\ Cancel({}) /\ Push(<<NavCall>>)
        /\ wf' = wf \/ wf' = Invalidated([wf EXCEPT !.params = p])
    BY <1>6 DEF ApplyTools, Changed
  <2> QED BY <1>5, <2>1, ControlsView
<1>7. CASE ApplyNav
  <2>1. /\ AtRest /\ UNCHANGED <<wf, sb, overtaken>> /\ Cancel({}) /\ Push(<<NavCall>>)
    BY <1>7 DEF ApplyNav, viewerVars
  <2> QED BY <1>1, <1>5, <2>1, ControlsView
<1> QED BY <1>2, <1>3, <1>4, <1>6, <1>7

\* scheduleNavProcessing.
LEMMA NavView == ViewInv /\ NavNext => ViewInv'
<1> SUFFICES ASSUME ViewInv, NavNext PROVE ViewInv'
  OBVIOUS
<1> USE DEF ViewInv
<1>1. calls \in {<<NavCall>>, <<NavCall, NoTraceCall>>} /\ Idle(calls)
  BY StackOf DEF NavNext, BookInv, Idle
<1>2. Cancel({}) /\ UNCHANGED sb /\ Tail(calls) \in {<<>>, <<NoTraceCall>>}
  <2>1. Tail(<<NavCall>>) = <<>> /\ Tail(<<NavCall, NoTraceCall>>) = <<NoTraceCall>>
    OBVIOUS
  <2> QED BY <1>1, <2>1 DEF NavNext
<1>3. CASE Empty(wf)
  <2>1. Idle(calls') /\ UNCHANGED <<wf, overtaken>>
    BY <1>2, <1>3 DEF NavNext, Return, Idle
  <2>2. Cancel(Current({}))
    BY <1>2 DEF Current
  <2>3. BookInv' /\ TokensAsked' /\ \A k \in Key : Coming(k)' = Coming(k)
    BY <1>1, <2>1, <2>2, AskNothing
  <2> QED BY <1>1, <1>2, <2>1, <2>3, RestingView, ThreeKeys, SameRows, SameTraces
          DEF ViewerTypes, WindowInv
<1>4. CASE ~Empty(wf)
  <2> DEFINE q == NavOf(wf)
  <2>1. wf.raw \in Place /\ wf.params \in Param
    BY <1>1, <1>4, HeldRows DEF ViewerTypes, WaterfallType
  <2>2. q \in Request /\ q.kind = "rows" /\ q.params = wf.params /\ q.raw = wf.raw
    BY <2>1 DEF NavOf, Request
  <2>3. /\ wf' = [wf EXCEPT !.state = "Processing"] /\ overtaken' = (overtaken \/ Overtakes)
        /\ calls' = <<RunCall(q)>> \o Tail(calls)
    BY <1>4 DEF NavNext, Become
  <2> HIDE DEF q
  <2>4. Asks(calls', q)
    <3>1. CASE Tail(calls) = <<>>
      <4>1. calls' = <<RunCall(q)>>
        <5>1. <<RunCall(q)>> \o <<>> = <<RunCall(q)>>
          OBVIOUS
        <5> QED BY <2>3, <3>1, <5>1
      <4> QED BY <4>1 DEF Asks
    <3>2. CASE Tail(calls) = <<NoTraceCall>>
      <4>1. calls' = <<RunCall(q), NoTraceCall>>
        BY <2>3, <3>2, Joined
      <4> QED BY <4>1 DEF Asks
    <3> QED BY <1>2, <3>1, <3>2
  <2> QED BY <1>1, <1>2, <1>4, <2>2, <2>3, <2>4, RebuildView
<1> QED BY <1>3, <1>4

\* onRepipeDebounce.
LEMMA RepipeView == ViewInv /\ RepipeFires => ViewInv'
<1> SUFFICES ASSUME ViewInv, RepipeFires PROVE ViewInv'
  OBVIOUS
<1> USE DEF ViewInv
<1>1. /\ AtRest /\ Idle(calls) /\ Cancel({}) /\ UNCHANGED sb /\ RowsInv /\ TraceInv
      /\ wf' = [wf EXCEPT !.repipe = FALSE]
  BY RestingView DEF RepipeFires, AtRest, Idle
<1>2. CASE Empty(wf) \/ wf.layer = NoLine
  <2>1. UNCHANGED <<calls, overtaken>> /\ Idle(calls') /\ Cancel(Current({}))
    BY <1>1, <1>2 DEF RepipeFires, Current
  <2>2. BookInv' /\ TokensAsked' /\ \A k \in Key : Coming(k)' = Coming(k)
    BY <1>1, <2>1, AskNothing
  <2>3. /\ wf' \in WaterfallType
        /\ UNCHANGED <<wf.layer, wf.band, wf.first, wf.raw, wf.params, wf.state, wf.scroll>>
    BY <1>1 DEF ViewerTypes, WaterfallType
  <2>4. Empty(wf)
    BY <1>1, <1>2, ViewersAssumption DEF RowsInv, ViewersAssumption
  <2>5. Asking' = Asking /\ Empty(wf)'
    BY <2>3, <2>4 DEF Asking, Empty
  <2>6. Coming(Pipeline)' = Coming(Pipeline) /\ TraceInv'
    BY <1>1, <2>2, ThreeKeys, SameTraces
  <2>7. RowsInv'
    BY <1>1, <2>1, <2>3, <2>4, <2>5, <2>6 DEF RowsInv
  <2> QED BY <1>1, <2>1, <2>2, <2>3, <2>6, <2>7 DEF ViewerTypes, WindowInv
<1>3. CASE ~Empty(wf) /\ wf.layer # NoLine
  <2> DEFINE q == RepipeOf(wf)
  <2>1. wf.raw \in Place /\ wf.params \in Param
    BY <1>1, <1>3, HeldRows DEF ViewerTypes, WaterfallType
  <2>2. q \in Request /\ q.kind = "rows" /\ q.params = wf.params /\ q.raw = wf.raw
    BY <2>1 DEF RepipeOf, Request
  <2>3. Push(<<RunCall(q)>>) /\ overtaken' = (overtaken \/ Overtakes)
    BY <1>3 DEF RepipeFires
  <2> HIDE DEF q
  <2>4. Asks(calls', q)
    <3>1. calls' = <<RunCall(q)>> \o <<>>
      BY <1>1, <2>3 DEF Push, AtRest
    <3>2. calls' = <<RunCall(q)>>
      BY <3>1
    <3> QED BY <3>2 DEF Asks
  <2> QED BY <1>1, <1>3, <2>2, <2>3, <2>4, RebuildView
<1> QED BY <1>2, <1>3

-----------------------------------------------------------------------------
(* The sub-bottom window.                                                  *)

\* What is to come for the sub-bottom window.
LEMMA TracesToCome ==
  ASSUME BookInv
  PROVE  /\ \A r \in Coming(TraceLoad) : r.line \in Line /\ r.line # NoLine
         /\ \A r \in Coming(TraceProc) : r.line \in Line /\ r.line # NoLine /\ r.params \in Param
<1>1. \A l \in Line : l # NoLine
  BY ViewersAssumption DEF ViewersAssumption
<1> QED BY <1>1, ComingTypes, RequestKinds

\* scheduleProcessing.
LEMMA ScheduledTypes ==
  ASSUME NEW s \in SubBottomType
  PROVE  /\ Scheduled(s) \in SubBottomType
         /\ Scheduled(s).layer = s.layer /\ Scheduled(s).raw = s.raw
         /\ Scheduled(s).params = s.params
         /\ s.raw = NoLine => Scheduled(s).traces = NoTraces /\ Scheduled(s).proc = s.proc
         /\ s.raw # NoLine => Scheduled(s).traces = s.traces /\ Scheduled(s).proc
BY DEF Scheduled, SubBottomType, State

\* A window without a line, before it is given one.
LEMMA ClearedTypes ==
  ASSUME NEW s \in SubBottomType
  PROVE  /\ ClearedTraces(s) \in SubBottomType
         /\ ClearedTraces(s).raw = NoLine /\ ClearedTraces(s).traces = NoTraces
         /\ ~ClearedTraces(s).proc
BY DEF ClearedTraces, SubBottomType, State

\* The window is opened on a line.
LEMMA ProfileView == ASSUME ViewInv, NEW l \in Line, OpenProfile(l) PROVE ViewInv'
<1> USE DEF ViewInv
<1>1. AtRest /\ Idle(calls) /\ Cancel(Current(TraceKeys)) /\ TraceKeys \in SUBSET Key
      /\ UNCHANGED <<wf, overtaken>>
  BY ThreeKeys DEF OpenProfile, AtRest, Idle, TraceKeys
<1>2. RowsInv /\ TraceInv
  BY <1>1, RestingView
<1>3. /\ sb' \in SubBottomType
      /\ sb'.layer = l /\ sb'.raw = NoLine /\ sb'.traces = NoTraces
  <2> DEFINE s == ClearedTraces(sb)
  <2>1. s \in SubBottomType /\ s.raw = NoLine /\ s.traces = NoTraces
    BY ClearedTypes DEF ViewerTypes
  <2>2. PICK p \in Param : sb' = [s EXCEPT !.layer = l, !.params = p,
                                           !.state = IF l \in Dry THEN "Idle" ELSE "Loading"]
    BY DEF OpenProfile
  <2> HIDE DEF s
  <2> QED BY <2>1, <2>2 DEF SubBottomType, State
<1>4. CASE l \in Dry
  <2>1. Idle(calls')
    BY <1>1, <1>4 DEF OpenProfile
  <2>2. /\ BookInv' /\ TokensAsked'
        /\ \A k \in Key : Coming(k)' = IF k \in TraceKeys THEN {} ELSE Coming(k)
    BY <1>1, <2>1, AskNothing
  <2>3. /\ Coming(Pipeline)' = Coming(Pipeline)
        /\ Coming(TraceLoad)' = {} /\ Coming(TraceProc)' = {}
    BY <2>2, ThreeKeys DEF TraceKeys
  <2>4. RowsInv' /\ TraceInv'
    BY <1>1, <1>2, <1>3, <2>3, SameRows DEF TraceInv
  <2> QED BY <1>1, <1>3, <2>2, <2>4 DEF ViewerTypes, WindowInv
<1>5. CASE l \notin Dry
  <2> DEFINE q == TracesOf(l)
  <2>1. q \in Request /\ q.key = TraceLoad /\ q.line = l
    BY DEF TracesOf, Request
  <2>2. Push(<<RunCall(q)>>)
    BY <1>5 DEF OpenProfile
  <2> HIDE DEF q
  <2>3. Asks(calls', q)
    <3>1. calls' = <<RunCall(q)>> \o <<>>
      BY <1>1, <2>2 DEF Push, AtRest
    <3>2. calls' = <<RunCall(q)>>
      BY <3>1
    <3> QED BY <3>2 DEF Asks
  <2>4. /\ BookInv' /\ TokensAsked'
        /\ \A k \in Key : Coming(k)' = IF k = q.key THEN {q}
                                       ELSE IF k \in TraceKeys THEN {} ELSE Coming(k)
    BY <1>1, <2>1, <2>3, AskFor
  <2>5. /\ Coming(Pipeline)' = Coming(Pipeline)
        /\ Coming(TraceLoad)' = {q} /\ Coming(TraceProc)' = {}
    BY <2>1, <2>4, ThreeKeys DEF TraceKeys
  <2>6. RowsInv' /\ TraceInv'
    BY <1>1, <1>2, <1>3, <2>1, <2>5, SameRows DEF TraceInv
  <2> QED BY <1>1, <1>3, <2>4, <2>6 DEF ViewerTypes, WindowInv
<1> QED BY <1>4, <1>5

\* Its parameters change.
LEMMA ProfileParamsView == ASSUME ViewInv, NEW p \in Param, ChangeProfileParams(p) PROVE ViewInv'
<1> USE DEF ViewInv
<1> DEFINE s == [sb EXCEPT !.params = p]
<1>1. /\ AtRest /\ Idle(calls) /\ Idle(calls') /\ Cancel(Current({})) /\ UNCHANGED <<wf, overtaken>>
      /\ sb' = Scheduled(s)
  BY DEF ChangeProfileParams, AtRest, Idle, managerVars, Cancel, Current
<1>2. /\ s \in SubBottomType /\ s.layer = sb.layer /\ s.raw = sb.raw /\ s.traces = sb.traces
      /\ s.proc = sb.proc /\ s.params = p
  BY DEF ViewerTypes, SubBottomType
<1> HIDE DEF s
<1>3. RowsInv /\ TraceInv
  BY <1>1, RestingView
<1>4. BookInv' /\ TokensAsked' /\ \A k \in Key : Coming(k)' = Coming(k)
  BY <1>1, AskNothing
<1>5. /\ Coming(Pipeline)' = Coming(Pipeline) /\ Coming(TraceLoad)' = Coming(TraceLoad)
      /\ Coming(TraceProc)' = Coming(TraceProc)
  BY <1>4, ThreeKeys
<1>6. sb.raw = NoLine => Coming(TraceProc) = {}
  BY <1>3, TracesToCome DEF TraceInv
<1>7. TraceInv'
  BY <1>1, <1>2, <1>3, <1>5, <1>6, ScheduledTypes DEF TraceInv
<1>8. RowsInv'
  BY <1>1, <1>3, <1>5, SameRows
<1> QED BY <1>1, <1>2, <1>4, <1>7, <1>8, ScheduledTypes DEF ViewerTypes, WindowInv

\* onProcDebounce.
LEMMA ProcView == ViewInv /\ ProcFires => ViewInv'
<1> SUFFICES ASSUME ViewInv, ProcFires PROVE ViewInv'
  OBVIOUS
<1> USE DEF ViewInv
<1>1. /\ AtRest /\ Idle(calls) /\ Cancel(Current({})) /\ UNCHANGED <<wf, overtaken>>
  BY DEF ProcFires, AtRest, Idle, Current
<1>2. RowsInv /\ TraceInv
  BY <1>1, RestingView
<1>3. /\ sb' \in SubBottomType
      /\ UNCHANGED <<sb.layer, sb.raw, sb.traces, sb.params>> /\ ~sb'.proc
  BY DEF ProcFires, ViewerTypes, SubBottomType, State
<1>4. CASE sb.raw = NoLine
  <2>1. Idle(calls')
    BY <1>1, <1>4 DEF ProcFires
  <2>2. BookInv' /\ TokensAsked' /\ \A k \in Key : Coming(k)' = Coming(k)
    BY <1>1, <2>1, AskNothing
  <2>3. /\ Coming(Pipeline)' = Coming(Pipeline) /\ Coming(TraceLoad)' = Coming(TraceLoad)
        /\ Coming(TraceProc)' = Coming(TraceProc)
    BY <2>2, ThreeKeys
  <2>4. Coming(TraceProc) = {}
    BY <1>2, <1>4, TracesToCome DEF TraceInv
  <2>5. RowsInv' /\ TraceInv'
    BY <1>1, <1>2, <1>3, <1>4, <2>3, <2>4, SameRows DEF TraceInv
  <2> QED BY <1>1, <1>3, <2>2, <2>5 DEF ViewerTypes, WindowInv
<1>5. CASE sb.raw # NoLine
  <2> DEFINE q == ProcOf(sb)
  <2>1. /\ q \in Request /\ q.key = TraceProc /\ q.line = sb.raw /\ q.params = sb.params
    BY <1>5 DEF ProcOf, Request, ViewerTypes, SubBottomType
  <2>2. Push(<<RunCall(q)>>)
    BY <1>5 DEF ProcFires
  <2> HIDE DEF q
  <2>3. Asks(calls', q)
    <3>1. calls' = <<RunCall(q)>> \o <<>>
      BY <1>1, <2>2 DEF Push, AtRest
    <3>2. calls' = <<RunCall(q)>>
      BY <3>1
    <3> QED BY <3>2 DEF Asks
  <2>4. /\ BookInv' /\ TokensAsked'
        /\ \A k \in Key : Coming(k)' = IF k = q.key THEN {q} ELSE Coming(k)
    BY <1>1, <2>1, <2>3, AskFor
  <2>5. /\ Coming(Pipeline)' = Coming(Pipeline) /\ Coming(TraceLoad)' = Coming(TraceLoad)
        /\ Coming(TraceProc)' = {q}
    BY <2>1, <2>4, ThreeKeys
  <2>6. RowsInv' /\ TraceInv'
    BY <1>1, <1>2, <1>3, <1>5, <2>1, <2>5, SameRows DEF TraceInv
  <2> QED BY <1>1, <1>3, <2>4, <2>6 DEF ViewerTypes, WindowInv
<1> QED BY <1>4, <1>5

\* clearLayer of the sub-bottom window.
LEMMA NoTraceView == ViewInv /\ NoTraceNext => ViewInv'
<1> SUFFICES ASSUME ViewInv, NoTraceNext PROVE ViewInv'
  OBVIOUS
<1> USE DEF ViewInv
<1>1. calls = <<NoTraceCall>> /\ calls' = Tail(calls)
  BY StackOf DEF NoTraceNext, Return, BookInv
<1>2. calls' = <<>>
  BY <1>1
<1>3. /\ Idle(calls) /\ Idle(calls') /\ Cancel(Current(TraceKeys)) /\ TraceKeys \in SUBSET Key
      /\ UNCHANGED <<wf, overtaken>> /\ sb' = ClearedTraces(sb)
  BY <1>1, <1>2, ThreeKeys DEF NoTraceNext, Idle, TraceKeys
<1>4. /\ BookInv' /\ TokensAsked'
      /\ \A k \in Key : Coming(k)' = IF k \in TraceKeys THEN {} ELSE Coming(k)
  BY <1>3, AskNothing
<1>5. /\ Coming(Pipeline)' = Coming(Pipeline)
      /\ Coming(TraceLoad)' = {} /\ Coming(TraceProc)' = {}
  BY <1>4, ThreeKeys DEF TraceKeys
<1>6. sb' \in SubBottomType /\ sb'.raw = NoLine /\ sb'.traces = NoTraces
  BY <1>3, ClearedTypes DEF ViewerTypes
<1>7. RowsInv' /\ TraceInv'
  BY <1>3, <1>5, <1>6, RestingView, SameRows DEF TraceInv
<1> QED BY <1>3, <1>4, <1>6, <1>7 DEF ViewerTypes, WindowInv

-----------------------------------------------------------------------------
(* Both windows are cleared.                                               *)

\* Nothing is selected any more, or the project is replaced.
LEMMA ReplaceView == ViewInv /\ Replace => ViewInv'
<1> SUFFICES ASSUME ViewInv, Replace PROVE ViewInv'
  OBVIOUS
<1> USE DEF ViewInv
<1>1. AtRest /\ Calm(calls) /\ Cancel({}) /\ UNCHANGED viewerVars
  BY DEF Replace, AtRest, Calm, Idle
<1>2. PICK b \in {<<>>, <<CancelAllCall>>} : Push(b \o <<ClearCall>>)
  BY DEF Replace
<1>3. ToClear(calls')
  <2>1. CASE b = <<>>
    <3>1. calls' = <<ClearCall>>
      BY <1>1, <1>2, <2>1 DEF Push, AtRest
    <3> QED BY <3>1 DEF ToClear
  <2>2. CASE b = <<CancelAllCall>>
    <3>1. calls' = <<CancelAllCall, ClearCall>> \o <<>>
      BY <1>1, <1>2, <2>2, Joined DEF Push, AtRest
    <3>2. calls' = <<CancelAllCall, ClearCall>>
      BY <3>1
    <3> QED BY <3>2 DEF ToClear
  <2> QED BY <2>1, <2>2
<1>4. BookInv'
  BY <1>1, <1>3, QuietStep DEF Cancel
<1>5. TokensAsked' /\ ViewerTypes'
  BY <1>1 DEF TokensAsked, Cancel, Asked, ViewerTypes, viewerVars
<1> QED BY <1>3, <1>4, <1>5 DEF WindowInv, Clearing

\* clearLayer of both windows: what was to come is cancelled, whatever it is.
LEMMA ClearView == ViewInv /\ ClearNext => ViewInv'
<1> SUFFICES ASSUME ViewInv, ClearNext PROVE ViewInv'
  OBVIOUS
<1> USE DEF ViewInv
<1>1. calls = <<ClearCall>> /\ calls' = Tail(calls)
  BY StackOf DEF ClearNext, Return, BookInv
<1>2. calls' = <<>>
  BY <1>1
<1>3. /\ ToClear(calls) /\ Idle(calls') /\ Cancel(Current(Key)) /\ UNCHANGED overtaken
      /\ sb' = ClearedTraces(sb) /\ wf' = Cleared(wf)
  BY <1>1, <1>2 DEF ClearNext, Idle, ToClear
<1>4. BookInv' /\ TokensAsked' /\ \A k \in Key : Coming(k)' = {}
  BY <1>3, AskNothing
<1>5. sb' \in SubBottomType /\ sb'.raw = NoLine /\ sb'.traces = NoTraces
  BY <1>3, ClearedTypes DEF ViewerTypes
<1>6. /\ wf' \in WaterfallType /\ Empty(wf)' /\ wf'.state = "Idle" /\ wf'.scroll = NoRow
  BY <1>3 DEF ViewerTypes, WaterfallType, Cleared, Empty, Row, State
<1>7. RowsInv' /\ TraceInv'
  BY <1>4, <1>5, <1>6, ThreeKeys DEF RowsInv, TraceInv
<1> QED BY <1>3, <1>4, <1>5, <1>6, <1>7 DEF ViewerTypes, WindowInv

-----------------------------------------------------------------------------
(* What arrives.                                                           *)

\* An operation that delivers was to come, alone under its key, and the rest still is.
LEMMA Delivered ==
  ASSUME ViewInv, NEW kind, Settles(kind), Settled, NEW r, r = op[Top.op]
  PROVE  /\ BookInv' /\ TokensAsked' /\ RowsInv /\ TraceInv /\ overtaken' = overtaken
         /\ r \in Request /\ r.kind = kind
         /\ Coming(r.key) = {r}
         /\ \A k : Coming(k)' = IF k = r.key THEN {} ELSE Coming(k)
<1> USE DEF ViewInv
<1>1. PICK o \in OpId : calls = <<SettleCall(o)>>
  BY StackOf DEF Settles, BookInv
<1>2. Top.op = o /\ o \notin cancelled /\ op[o].kind = kind
  BY <1>1 DEF Top, SettleCall, Settles, Discarded
<1>3. /\ calls' = <<FinallyCall(o)>> /\ overtaken' = overtaken
      /\ UNCHANGED <<nextId, op, entries, keyed, running, waiting, launched, finals>>
      /\ cancelled' = cancelled
  BY <1>1, <1>2 DEF Settled, Become, Cancel
<1>4. BookInv' /\ TokensAsked'
  BY <1>3, SettleStep DEF Settles, Settled, TokensAsked, Asked
<1>5. ~Clearing /\ ~In("run") /\ ~In("run")'
  BY <1>3, ClearingTop DEF Settles, In, Top, FinallyCall
<1>6. Settling' = {}
  BY <1>3, HandlerOwes DEF Settling
<1>7. /\ r \in Request
      /\ Live(r.key) = {r} /\ Live(r.key)' = {}
      /\ \A k : k # r.key => Live(k)' = Live(k)
  BY <1>1, <1>2, <1>3, <1>6, SettleLive
<1> QED BY <1>2, <1>3, <1>4, <1>5, <1>7 DEF Coming, WindowInv

\* The waterfall has its rows, or has failed to get them.
LEMMA RowsArrive ==
  ASSUME ViewInv, WindowLoaded \/ WindowFails \/ RowsRebuilt \/ RowsFail
  PROVE  ViewInv'
<1> PICK r : r = op[Top.op]
  OBVIOUS
<1> PICK kind \in {"load", "rows"} :
      /\ Settles(kind) /\ Settled /\ UNCHANGED sb
      /\ kind = "load" => WindowLoaded \/ WindowFails
      /\ kind = "rows" => RowsRebuilt \/ RowsFail
  BY DEF WindowLoaded, WindowFails, RowsRebuilt, RowsFail
<1>1. /\ BookInv' /\ TokensAsked' /\ RowsInv /\ TraceInv /\ overtaken' = overtaken
      /\ r \in Request /\ r.kind = kind
      /\ Coming(r.key) = {r}
      /\ \A k : Coming(k)' = IF k = r.key THEN {} ELSE Coming(k)
  BY Delivered
<1>2. r.key = Pipeline /\ r.raw \in Place /\ r.params \in Param
  BY <1>1, RequestKinds
<1>3. /\ Coming(Pipeline)' = {} /\ Coming(TraceLoad)' = Coming(TraceLoad)
      /\ Coming(TraceProc)' = Coming(TraceProc)
  BY <1>1, <1>2, ThreeKeys
<1>4. TraceInv'
  BY <1>1, <1>3, SameTraces
<1>5. r \in Coming(Pipeline) /\ wf \in WaterfallType
  BY <1>1, <1>2 DEF ViewInv, ViewerTypes
<1>6. /\ r.raw # NoPlace /\ r.raw.line \in Line /\ r.raw.row \in Row
      /\ r.raw = [line |-> r.raw.line, band |-> r.raw.band, row |-> r.raw.row]
  BY <1>2, Places3
<1>7. CASE WindowLoaded
  <2> DEFINE w == [wf EXCEPT !.raw = r.raw, !.rows = r.params, !.first = r.raw.row, !.state = "Ready"]
  <2>1. wf' = IF Stale(r) THEN Invalidated(w) ELSE w
    BY <1>7 DEF WindowLoaded
  <2>2. r.raw.line = wf.layer /\ r.raw.band = wf.band
    BY <1>1, <1>5, <1>7 DEF RowsInv, WindowLoaded, Settles
  <2>3. /\ w \in WaterfallType
        /\ w.layer = wf.layer /\ w.band = wf.band /\ w.first = r.raw.row /\ w.raw = r.raw
        /\ w.rows = r.params /\ w.params = wf.params /\ w.repipe = wf.repipe
    BY <1>2, <1>5, <1>6 DEF WaterfallType, State
  <2> HIDE DEF w
  <2>4. /\ wf' \in WaterfallType
        /\ wf'.layer = wf.layer /\ wf'.band = wf.band /\ wf'.first = r.raw.row
        /\ wf'.raw = r.raw /\ wf'.rows = r.params /\ wf'.params = wf.params
        /\ wf'.repipe \/ r.params = wf.params
    BY <1>6, <2>1, <2>3 DEF Stale, Invalidated, Empty, WaterfallType, State
  <2>5. Asking' = r.raw /\ ~Empty(wf)'
    BY <1>6, <2>2, <2>4 DEF Asking, Empty
  <2>6. RowsInv'
    BY <1>3, <1>6, <2>2, <2>4, <2>5 DEF RowsInv
  <2> QED BY <1>1, <1>4, <2>4, <2>6 DEF ViewInv, ViewerTypes, WindowInv
<1>8. CASE WindowFails
  <2>1. /\ wf' \in WaterfallType /\ Empty(wf)' /\ wf'.state = "Failed"
        /\ wf'.layer = wf.layer /\ wf'.scroll = wf.scroll
    BY <1>5, <1>8 DEF WindowFails, WaterfallType, State, Empty
  <2>2. RowsInv'
    BY <1>1, <1>3, <2>1 DEF RowsInv
  <2> QED BY <1>1, <1>4, <2>1, <2>2 DEF ViewInv, ViewerTypes, WindowInv
<1>9. CASE RowsRebuilt
  <2>1. wf' = [wf EXCEPT !.raw = r.raw, !.rows = r.params, !.state = "Ready"]
    BY <1>9 DEF RowsRebuilt
  <2>2. /\ ~Empty(wf) /\ (r.params = wf.params \/ wf.repipe)
        /\ overtaken \/ r.raw = Asking
    BY <1>1, <1>5, <1>9 DEF RowsInv, RowsRebuilt, Settles
  <2>3. /\ wf' \in WaterfallType
        /\ wf'.raw = r.raw /\ wf'.rows = r.params
        /\ UNCHANGED <<wf.layer, wf.band, wf.first, wf.params, wf.repipe, wf.scroll>>
    BY <1>2, <1>5, <2>1 DEF WaterfallType, State
  <2>4. Asking' = Asking /\ ~Empty(wf)'
    BY <1>6, <2>3 DEF Asking, Empty
  <2>5. RowsInv'
    BY <1>1, <1>3, <2>2, <2>3, <2>4 DEF RowsInv
  <2> QED BY <1>1, <1>4, <2>3, <2>5 DEF ViewInv, ViewerTypes, WindowInv
<1>10. CASE RowsFail
  <2>1. /\ wf' \in WaterfallType /\ wf'.state = "Failed"
        /\ UNCHANGED <<wf.raw, wf.layer, wf.band, wf.first, wf.scroll>>
    BY <1>5, <1>10 DEF RowsFail, WaterfallType, State
  <2>2. r.kind # "load" /\ ~Empty(wf) /\ (overtaken \/ r.raw = Asking)
    BY <1>1, <1>5, <1>10 DEF RowsInv, RowsFail, Settles
  <2>3. \A q \in Coming(Pipeline) : q.kind # "load"
    <3>1. Coming(Pipeline) = {r}
      BY <1>1, <1>2
    <3> QED BY <2>2, <3>1
  <2>4. Asking' = Asking /\ Empty(wf)' = Empty(wf)
    BY <2>1 DEF Asking, Empty
  <2>5. RowsInv'
    BY <1>1, <1>3, <2>1, <2>2, <2>3, <2>4 DEF RowsInv
  <2> QED BY <1>1, <1>4, <2>1, <2>5 DEF ViewInv, ViewerTypes, WindowInv
<1> QED BY <1>7, <1>8, <1>9, <1>10

\* The sub-bottom window has its traces, processed or not, or has failed to get them.
LEMMA TracesArrive ==
  ASSUME ViewInv,
         TracesLoaded \/ TracesGone \/ TracesFail \/ TracesProcessed \/ ProcFails
  PROVE  ViewInv'
<1> PICK r : r = op[Top.op]
  OBVIOUS
<1> PICK kind \in {"traces", "proc"} :
      /\ Settles(kind) /\ Settled /\ UNCHANGED wf
      /\ kind = "traces" => TracesLoaded \/ TracesGone \/ TracesFail
      /\ kind = "proc" => TracesProcessed \/ ProcFails
  BY DEF TracesLoaded, TracesGone, TracesFail, TracesProcessed, ProcFails
<1>1. /\ BookInv' /\ TokensAsked' /\ RowsInv /\ TraceInv /\ overtaken' = overtaken
      /\ r \in Request /\ r.kind = kind
      /\ Coming(r.key) = {r}
      /\ \A k : Coming(k)' = IF k = r.key THEN {} ELSE Coming(k)
  BY Delivered
<1>2. /\ kind = "traces" => r.key = TraceLoad
      /\ kind = "proc" => r.key = TraceProc /\ r.params \in Param
      /\ r.line \in Line
      /\ r.key \in {TraceLoad, TraceProc}
  BY <1>1, RequestKinds
<1>3. r.line # NoLine
  BY <1>2, ViewersAssumption DEF ViewersAssumption
<1>4. /\ Coming(Pipeline)' = Coming(Pipeline)
      /\ Coming(TraceLoad)' \subseteq Coming(TraceLoad)
      /\ Coming(TraceProc)' = IF kind = "proc" THEN {} ELSE Coming(TraceProc)
  BY <1>1, <1>2, ThreeKeys
<1>5. RowsInv'
  BY <1>1, <1>4, SameRows
<1>6. sb \in SubBottomType /\ ViewerTypes
  BY DEF ViewInv, ViewerTypes
<1>7. sb.raw = NoLine => Coming(TraceProc) = {}
  BY <1>1, TracesToCome DEF TraceInv, ViewInv
<1>8. CASE TracesLoaded
  <2> DEFINE s == [sb EXCEPT !.raw = r.line]
  <2>1. /\ sb' = Scheduled(s) /\ r.line = sb.layer /\ kind = "traces"
    BY <1>1, <1>2, <1>8 DEF TracesLoaded, TraceInv, Settles
  <2>2. /\ s \in SubBottomType /\ s.raw = r.line /\ s.layer = sb.layer /\ s.traces = sb.traces
    BY <1>2, <1>6 DEF SubBottomType
  <2> HIDE DEF s
  <2>3. /\ sb' \in SubBottomType /\ sb'.raw = r.line /\ sb'.layer = sb.layer /\ sb'.proc
    BY <1>3, <2>1, <2>2, ScheduledTypes
  <2>4. \A q \in Coming(TraceProc) : q.line = r.line
    BY <1>1, <1>7, <2>1 DEF TraceInv
  <2>5. TraceInv'
    BY <1>1, <1>3, <1>4, <2>1, <2>3, <2>4 DEF TraceInv
  <2> QED BY <1>1, <1>5, <1>6, <2>3, <2>5 DEF ViewInv, ViewerTypes, WindowInv
<1>9. CASE TracesGone
  <2> DEFINE s == Scheduled(sb)
  <2>1. sb' = [s EXCEPT !.gone = TRUE] /\ kind = "traces"
    BY <1>1, <1>2, <1>9 DEF TracesGone, Settles
  <2>2. /\ s \in SubBottomType /\ s.layer = sb.layer /\ s.raw = sb.raw /\ s.params = sb.params
        /\ sb.raw = NoLine => s.traces = NoTraces
        /\ sb.raw # NoLine => s.proc
    BY <1>6, ScheduledTypes
  <2> HIDE DEF s
  <2>3. /\ sb' \in SubBottomType
        /\ sb'.layer = s.layer /\ sb'.raw = s.raw /\ sb'.params = s.params
        /\ sb'.traces = s.traces /\ sb'.proc = s.proc
    BY <2>1, <2>2 DEF SubBottomType
  <2>4. TraceInv'
    BY <1>1, <1>4, <1>7, <2>1, <2>2, <2>3 DEF TraceInv
  <2> QED BY <1>1, <1>5, <1>6, <2>3, <2>4 DEF ViewInv, ViewerTypes, WindowInv
<1>10. CASE TracesFail
  <2>1. /\ sb' \in SubBottomType /\ kind = "traces"
        /\ UNCHANGED <<sb.layer, sb.raw, sb.params, sb.traces, sb.proc>>
    BY <1>1, <1>6, <1>10 DEF TracesFail, SubBottomType, State, Settles
  <2>2. TraceInv'
    BY <1>1, <1>4, <2>1 DEF TraceInv
  <2> QED BY <1>1, <1>5, <1>6, <2>1, <2>2 DEF ViewInv, ViewerTypes, WindowInv
<1>11. CASE TracesProcessed
  <2>1. sb' = [sb EXCEPT !.traces = [line |-> r.line, params |-> r.params], !.state = "Ready"]
    BY <1>11 DEF TracesProcessed
  <2>2. kind = "proc" /\ r.line = sb.raw /\ (r.params = sb.params \/ sb.proc)
    BY <1>1, <1>2, <1>11 DEF TracesProcessed, Settles, TraceInv
  <2>3. /\ sb' \in SubBottomType
        /\ sb'.traces = [line |-> r.line, params |-> r.params]
        /\ UNCHANGED <<sb.layer, sb.raw, sb.params, sb.proc>>
    BY <1>2, <1>6, <2>1, <2>2 DEF SubBottomType, State
  <2>4. r.line = sb.layer
    BY <1>1, <1>3, <2>2 DEF TraceInv
  <2>5. TraceInv'
    BY <1>1, <1>3, <1>4, <2>2, <2>3, <2>4 DEF TraceInv
  <2> QED BY <1>1, <1>5, <1>6, <2>3, <2>5 DEF ViewInv, ViewerTypes, WindowInv
<1>12. CASE ProcFails
  <2>1. /\ sb' \in SubBottomType /\ sb'.traces = NoTraces /\ kind = "proc"
        /\ UNCHANGED <<sb.layer, sb.raw, sb.params, sb.proc>>
    BY <1>1, <1>6, <1>12 DEF ProcFails, SubBottomType, State, Settles
  <2>2. TraceInv'
    BY <1>1, <1>4, <2>1 DEF TraceInv
  <2> QED BY <1>1, <1>5, <1>6, <2>1, <2>2 DEF ViewInv, ViewerTypes, WindowInv
<1> QED BY <1>8, <1>9, <1>10, <1>11, <1>12

-----------------------------------------------------------------------------
(* The theorems.                                                           *)

\* Nothing is asked for at the start.
LEMMA ViewInit == Init => ViewInv
<1> SUFFICES ASSUME Init PROVE ViewInv
  OBVIOUS
<1>1. ManagerInit /\ LaneInv /\ KeyBooks
  BY LaneInvInit, KeyInit DEF Init
<1>2. calls = <<>> /\ entries = {} /\ cancelled = {} /\ launched = {} /\ Asked = {}
      /\ finals = [o \in OpId |-> 0]
  BY <1>1 DEF ManagerInit, Asked, OpId
<1>3. Idle(calls) /\ Calm(calls) /\ ~In("run")
  BY <1>2 DEF Idle, Calm, In
<1>4. Owed = {} /\ Settling = {} /\ \A l \in Lane : SweepingIn(calls, l) = {}
  BY <1>3, QuietBooks
<1>5. Still = {}
  BY <1>1, <1>4, StillQueued DEF ManagerInit, InQueue
<1>6. BookInv /\ TokensAsked
  BY <1>1, <1>2, <1>3, <1>4, <1>5
     DEF BookInv, Ledger, Newest, RequestTypes, StackInv, TokensAsked
<1>7. PICK p : /\ p = CHOOSE q \in Param : TRUE
               /\ wf = [layer |-> NoLine, band |-> MainBand, first |-> 0, params |-> p,
                        raw |-> NoPlace, rows |-> p, state |-> "Idle", repipe |-> FALSE,
                        scroll |-> NoRow]
               /\ sb = [layer |-> NoLine, params |-> p, raw |-> NoLine, traces |-> NoTraces,
                        state |-> "Idle", proc |-> FALSE, gone |-> FALSE]
  BY DEF Init
<1>8. p \in Param /\ MainBand \in Band /\ overtaken = FALSE
  BY <1>7, ViewersAssumption DEF ViewersAssumption, MainBand, Init
<1>9. wf \in WaterfallType /\ sb \in SubBottomType
  BY <1>7, <1>8 DEF WaterfallType, SubBottomType, State, Row
<1>10. \A k : Coming(k) = {}
  BY <1>2, <1>3, <1>4 DEF Coming, Live
<1>11. RowsInv /\ TraceInv
  BY <1>7, <1>10 DEF RowsInv, TraceInv, Empty
<1> QED BY <1>6, <1>8, <1>9, <1>11 DEF ViewInv, ViewerTypes, WindowInv

\* Nothing happens.
LEMMA ViewStutter == ViewInv /\ UNCHANGED vars => ViewInv'
<1> SUFFICES ASSUME ViewInv, UNCHANGED vars PROVE ViewInv'
  OBVIOUS
<1> USE DEF ViewInv, vars, managerVars, viewerVars
<1>1. LaneInv' /\ KeyBooks'
  BY LaneInvStutter, KeyCancel DEF laneVars, BookInv
<1>2. Ledger' /\ Newest(Settling)' /\ RequestTypes' /\ StackInv'
  BY DEF BookInv, Ledger, Newest, Owed, Settling, Still, Asked, RequestTypes, StackInv, Clearing,
         Sweeping, ToSweep
<1>3. TokensAsked' /\ ViewerTypes'
  BY DEF TokensAsked, Asked, ViewerTypes
<1>4. WindowInv'
  <2>1. Clearing' <=> Clearing
    BY DEF Clearing, Sweeping, ToSweep
  <2>2. \A k : Coming(k)' = Coming(k)
    BY DEF Coming, Live, In, Top, Settling
  <2> QED BY <2>1, <2>2, SameView DEF WindowInv
<1> QED BY <1>1, <1>2, <1>3, <1>4 DEF BookInv

\* The invariant holds in every state.
LEMMA ViewAlways == Spec => []ViewInv
<1>1. Init => ViewInv
  BY ViewInit
<1>2. ViewInv /\ [Next]_vars => ViewInv'
  <2> SUFFICES ASSUME ViewInv, [Next]_vars PROVE ViewInv'
    OBVIOUS
  <2>1. CASE Operator
    BY <2>1, LoadsView, ControlsActions, ProfileView, ProfileParamsView, ReplaceView DEF Operator
  <2>2. CASE Timer
    BY <2>2, LoadsView, RepipeView, ProcView DEF Timer
  <2>3. CASE Window
    BY <2>3, NavView, NoTraceView, ClearView, RowsArrive, TracesArrive, FinallyView DEF Window
  <2>4. CASE Manager
    BY <2>4, ManagerView
  <2>5. ASSUME NEW o \in OpId, PoolFinishes(o) PROVE ViewInv'
    BY <2>5, PoolView
  <2>6. CASE Resting \/ UNCHANGED vars
    BY <2>6, ViewStutter DEF Resting
  <2> QED BY <2>1, <2>2, <2>3, <2>4, <2>5, <2>6 DEF Next
<1> QED BY <1>1, <1>2, PTL DEF Spec

\* Nothing is to come under keys that are not busy.
LEMMA NotBusy ==
  ASSUME BookInv, AtRest, NEW keys \in SUBSET Key, ~Busy(keys)
  PROVE  \A k \in keys : Coming(k) = {}
<1>1. ~In("run") /\ Settling = {}
  BY QuietOwes DEF AtRest, In, Settling, Calm, Idle
<1>2. \A o \in entries \cancelled : op[o].key \notin keys
  BY DEF Busy, Current, BookInv, KeyBooks
<1> QED BY <1>1, <1>2 DEF Coming, Live

\* Every operation of the viewers waits, is on the pool or was finalised, once: whatever
\* supersedes, drops, sweeps or fails it, for any cap of the heavy lane and any number of
\* lines, bands, parameters and operations.
THEOREM ViewersOneOutcome == Spec => []OneOutcome
<1>1. ViewInv => OneOutcome
  BY LedgerBalances DEF ViewInv, BookInv
<1> QED BY <1>1, ViewAlways, PTL

\* Between their calls the manager's tables are exact.
THEOREM ViewersBooksExact == Spec => []BooksExact
<1>1. ViewInv => BooksExact
  BY BooksBalance DEF ViewInv, BookInv
<1> QED BY <1>1, ViewAlways, PTL

\* No operation delivers to a viewer once a newer one of its key was asked for.
THEOREM ViewersLatestWins == Spec => []LatestWins
<1>1. ViewInv => LatestWins
  <2> SUFFICES ASSUME ViewInv PROVE LatestWins
    OBVIOUS
  <2>1. In("settle") => Top.op \in Settling
    <3> SUFFICES ASSUME In("settle") PROVE Top.op \in Settling
      OBVIOUS
    <3>1. PICK o \in OpId : calls = <<SettleCall(o)>>
      BY StackOf DEF ViewInv, BookInv
    <3> QED BY <3>1, HandlerOwes DEF Top, SettleCall, Settling
  <2> QED BY <2>1, SettlesNewest DEF ViewInv, BookInv, LaneInv
<1> QED BY <1>1, ViewAlways, PTL

\* The rows a waterfall at rest calls Ready are those of its controls, and of the
\* place contacts are picked at unless a rebuild superseded the load.
THEOREM WaterfallRowsTrue == Spec => []RowsTrue
<1>1. ViewInv => RowsTrue
  <2> SUFFICES ASSUME ViewInv, RowsStand
               PROVE  wf.rows = wf.params /\ (overtaken \/ wf.raw = Asking)
    BY DEF RowsTrue
  <2>1. RowsInv
    BY RestingView DEF RowsStand, AtRest, Idle
  <2>2. Coming(Pipeline) = {}
    BY NotBusy, ThreeKeys DEF RowsStand, ViewInv
  <2> QED BY <2>1, <2>2 DEF RowsInv, RowsStand
<1> QED BY <1>1, ViewAlways, PTL

\* The traces of a sub-bottom window at rest are those of its line with its
\* parameters, or there are none.
THEOREM ProfileTracesTrue == Spec => []TracesTrue
<1>1. ViewInv => TracesTrue
  <2> SUFFICES ASSUME ViewInv, AtRest, ~Busy({TraceLoad, TraceProc}), ~sb.proc, sb.traces # NoTraces
               PROVE  sb.traces = [line |-> sb.layer, params |-> sb.params]
    BY DEF TracesTrue
  <2>1. TraceInv
    BY RestingView DEF AtRest, Idle
  <2>2. Coming(TraceProc) = {}
    BY NotBusy, ThreeKeys DEF ViewInv
  <2> QED BY <2>1, <2>2 DEF TraceInv
<1> QED BY <1>1, ViewAlways, PTL
==============================================================================
