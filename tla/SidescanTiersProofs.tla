------------------------- MODULE SidescanTiersProofs -------------------------
(***************************************************************************)
(* The map controller as a client of the OperationManager, for any number  *)
(* of layers and operations, every cap and every budget.                   *)
(*                                                                         *)
(* The lanes are exact, because the controller reaches them through run    *)
(* and the cancels only.  TierInv is the invariant behind the rest: it     *)
(* says which calls may be in progress at once, where each operation is,   *)
(* and what a staged refresh waits for.  A step of the controller or of    *)
(* the operator is a turn of the main thread (Turn), whose effect on the   *)
(* manager's books is proved once; a step of the manager leaves the map    *)
(* alone (QuietStep).                                                      *)
(*                                                                         *)
(* VersionInv, on top of it, compares versions: what is on the map, what   *)
(* was applied, and what still comes (Coming: the builds whose result will *)
(* be looked at, and those about to be asked for).  A step of the manager  *)
(* lets less come (FlowStep); any other step asks for something (Asks) and *)
(* is about one layer, or none: the others are proved once (AsideTells).   *)
(***************************************************************************)
EXTENDS SidescanTiers, OperationManagerProofs, SequenceTheorems
-----------------------------------------------------------------------------
(* Types.                                                                  *)

\* What the controller asks the manager for.
LoadRequest ==
  {r \in [kind : {"load"}, key : Key, lane : {"map"}, layer : Layer, version : Nat,
          next : {Off, High}] : r.key = LoadKey(r.layer)}
TierRequest ==
  {r \in [kind : {"tier"}, key : Key, lane : {"map", "apply"}, layer : Layer, version : Nat,
          quality : Quality, generation : Nat] : r.key = TierKey(r.layer, r.quality)}
OtherRequest ==
  [kind : {"write"}, key : {WriteKey(a, q) : a \in Layer, q \in Quality}, lane : {"cache"}]
    \cup [kind : {"raster"}, key : {RasterKey}, lane : {NoLane}]
Request == LoadRequest \cup TierRequest \cup OtherRequest
Building == {"load", "tier"}

\* The calls that may be in progress.
Frame ==
  [call : {"run"}, request : Request]
    \cup [call : {"pump"}, lane : Lane]
    \cup [call : {"settle", "finally", "complete"}, op : OpId]
    \cup [call : {"reload"}, todo : Seq(Layer)]
    \cup [call : {"deactivate"}, clear : BOOLEAN]
    \cup [call : {"cancelAll", "dialog"}]
    \cup [call : {"sweep"}, lane : Lane, todo : Seq(OpId), lanes : SUBSET Lane]

Stage == [generation : Nat, target : Quality, awaiting : BOOLEAN]

TierTypes ==
  /\ \A o \in Asked : op[o] \in Request
  /\ finals \in [OpId -> Nat] /\ \A o \in OpId \ Asked : finals[o] = 0
  /\ cancelled \subseteq Asked
  /\ quality \in Quality /\ active \in Layer \cup {NoLayer} /\ loaded \subseteq Layer
  /\ staged \in [Layer -> Stage] /\ generation \in Nat /\ builds \in Nat
  /\ params \in [Layer -> Nat] /\ shown \in [Layer -> Nat]
  /\ removed \in [Layer -> Nat] /\ \A a \in Layer : removed[a] <= nextId
-----------------------------------------------------------------------------
(* The main thread's stack.                                                *)

Frames(c)   == {c[i] : i \in DOMAIN c}
RunsLoad(f) == f.call = "run" /\ f.request.kind = "load"
RunsTier(f) == f.call = "run" /\ f.request.kind = "tier"
RunsLow(f)  == RunsTier(f) /\ f.request.quality = Low

\* What closes a project, and the dialog: these calls are in no other.
Outer == {"cancelAll", "deactivate", "dialog"}

\* May x be called while y is in progress?  Nothing comes between the controller and its
\* request for a load or a preview; a sweep and a pump call on_finally, of which only the
\* sweep's asks for more.
Above(x, y) ==
  /\ ~RunsLoad(y) /\ ~RunsLow(y) /\ (y.call = "run" => x.call = "run")
  /\ y.call = "sweep" => x.call \in {"run", "finally"} /\ ~RunsLoad(x)
  /\ y.call \in {"pump", "settle"} => x.call \in {"pump", "finally"}
  /\ y.call = "finally" => x.call \in {"run", "complete"}
  /\ x.call \in Outer \cup {"sweep", "settle"} => y.call \in Outer
  /\ ~(x.call = "deactivate" /\ x.clear)

Stacked(c) ==
  /\ c \in Seq(Frame)
  /\ \A i, j \in 1..Len(c) : i < j => Above(c[i], c[j])

\* A frame's operation was asked for, and what a sweep has still to do waits in its lane.
FrameOk(f) ==
  /\ f.call \in {"settle", "finally", "complete"} => f.op \in Asked
  /\ f.call = "complete" => op[f.op].kind = "tier"
  /\ f.call = "sweep" => /\ \A i \in 1..Len(f.todo) : InQueue(f.todo[i], waiting[f.lane])
                         /\ f.lane \notin f.lanes

StackInv == Stacked(calls) /\ \A f \in Frames(calls) : FrameOk(f)

SweepsOf(l) == {f \in Frames(calls) : f.call = "sweep" /\ f.lane = l}
-----------------------------------------------------------------------------
(* Where operations are.                                                   *)

\* What is on the pool is registered, and so is what waits in a lane that no sweep has
\* reached.
Registered ==
  /\ launched \subseteq entries
  /\ \A l \in Lane : SweepsOf(l) = {} =>
       \A i \in 1..Len(waiting[l]) : waiting[l][i] \in entries

\* A build that may still reach the map was asked for after its layer was last taken off.
IsRecent(o) == op[o].kind \in Building => o >= removed[op[o].layer]
Recent ==
  /\ \A o \in launched \ cancelled : IsRecent(o)
  /\ \A l \in Lane : \A i \in 1..Len(waiting[l]) :
       waiting[l][i] \notin cancelled => IsRecent(waiting[l][i])
  /\ \A f \in Frames(calls) : f.call = "settle" /\ f.op \notin cancelled => IsRecent(f.op)
  /\ \A f \in Frames(calls) : f.call = "complete" => IsRecent(f.op)

\* The loads whose on_finally has not been called: on the pool, about to call it, or
\* waiting where no sweep has passed them.
OpenLoads == {o \in Asked : op[o].kind = "load" /\ finals[o] = 0}
Held(o) ==
  \/ o \in launched
  \/ \E f \in Frames(calls) : f.call \in {"settle", "finally"} /\ f.op = o
  \/ \E l \in Lane : InQueue(o, waiting[l]) /\ \A f \in SweepsOf(l) : InQueue(o, f.todo)
LoadsHeld == \A o \in OpenLoads : Held(o)

\* Each build that is counted is such a load, or about to be asked for.
TopLoad == IF calls # <<>> /\ RunsLoad(Head(calls)) THEN 1 ELSE 0
Counted ==
  /\ builds <= Cardinality(OpenLoads) + TopLoad
  /\ dataState = "Loading" => builds > 0
-----------------------------------------------------------------------------
(* Staged refreshes.                                                       *)

\* A generation is given once, and a refresh ends at the quality of the map.
Generations ==
  /\ \A o \in Asked : op[o].kind = "tier" => op[o].generation < generation
  /\ \A f \in Frames(calls) : RunsTier(f) => f.request.generation < generation
  /\ \A a \in Layer : /\ staged[a].generation < generation
                      /\ staged[a] # NotStaged => staged[a].target = quality
                      /\ staged[a].awaiting => staged[a].target = High

\* An operation a refresh waits for as its preview is dropped from a queue only by a
\* sweep: no request supersedes it, and what cancels it ends the refresh.
AsPreview(o) == op[o].kind = "tier" /\ IsPreview(op[o])
ToSweep(l)   == \E f \in Frames(calls) : f.call = "sweep" /\ l \in f.lanes \cup {f.lane}
Unpreviewed ==
  /\ \A l \in Lane : \A i \in 1..Len(waiting[l]) :
       waiting[l][i] \in cancelled /\ AsPreview(waiting[l][i]) => ToSweep(l)
  /\ \A f \in Frames(calls) : RunsLow(f) =>
       \A o \in Asked : AsPreview(o) => op[o].layer # f.request.layer
  /\ In("finally") /\ (\E f \in Frames(calls) : f.call \in {"pump", "settle"}) =>
       ~AsPreview(Top.op)

TierInv ==
  /\ LaneInv /\ KeyBooks /\ TierTypes /\ StackInv
  /\ Registered /\ Recent /\ LoadsHeld /\ Counted
  /\ Generations /\ Unpreviewed /\ Newest(Settling)
-----------------------------------------------------------------------------
\* Whatever the operator asks for reaches the lanes through run and cancel only.
LEMMA OperatorLeavesLanes == Operator => UNCHANGED laneVars
<1> SUFFICES ASSUME Operator PROVE UNCHANGED laneVars
  OBVIOUS
<1> USE DEF laneVars, Cancel, managerVars
<1>1. ASSUME NEW a \in Layer, EditUnloaded(a) PROVE UNCHANGED laneVars
  BY <1>1 DEF EditUnloaded
<1>2. ASSUME NEW a \in Layer, EditLive(a) PROVE UNCHANGED laneVars
  BY <1>2 DEF EditLive
<1>3. ASSUME NEW a \in Layer, EditGeometry(a) PROVE UNCHANGED laneVars
  BY <1>3 DEF EditGeometry
<1>4. ASSUME NEW a \in Layer, DataChanged(a) PROVE UNCHANGED laneVars
  BY <1>4 DEF DataChanged
<1>5. ASSUME NEW a \in Layer, Select(a) PROVE UNCHANGED laneVars
  BY <1>5 DEF Select
<1>6. ASSUME NEW a \in Layer, Overview(a) PROVE UNCHANGED laneVars
  BY <1>6 DEF Overview
<1>7. ASSUME NEW a \in Layer, Unload(a) PROVE UNCHANGED laneVars
  BY <1>7 DEF Unload
<1>8. ASSUME NEW a \in Layer, Reload(a) PROVE UNCHANGED laneVars
  BY <1>8 DEF Reload
<1>9. ASSUME NEW q \in Quality, SetQuality(q) PROVE UNCHANGED laneVars
  BY <1>9 DEF SetQuality
<1>10. CASE ChangeCrs     BY <1>10 DEF ChangeCrs
<1>11. CASE Repalette     BY <1>11 DEF Repalette
<1>12. CASE DisplayRaster BY <1>12 DEF DisplayRaster
<1>13. CASE SwitchProject BY <1>13 DEF SwitchProject
<1>14. CASE DeleteProject BY <1>14 DEF DeleteProject
<1> QED BY <1>1, <1>2, <1>3, <1>4, <1>5, <1>6, <1>7, <1>8, <1>9, <1>10, <1>11, <1>12,
           <1>13, <1>14 DEF Operator

\* So do the controller's callbacks.
LEMMA ControllerLeavesLanes == Controller => UNCHANGED laneVars
<1> SUFFICES ASSUME Controller PROVE UNCHANGED laneVars
  OBVIOUS
<1> USE DEF laneVars, Cancel, FinallyManager
<1>1. CASE ReloadNext      BY <1>1 DEF ReloadNext
<1>2. CASE ReloadDone      BY <1>2 DEF ReloadDone
<1>3. CASE Deactivate      BY <1>3 DEF Deactivate
<1>4. CASE CloseDialog     BY <1>4 DEF CloseDialog
<1>5. CASE LoadSettled     BY <1>5 DEF LoadSettled
<1>6. CASE TierSettled     BY <1>6 DEF TierSettled
<1>7. CASE OtherSettled    BY <1>7 DEF OtherSettled
<1>8. CASE BuildFails      BY <1>8 DEF BuildFails
<1>9. CASE PreviewComplete BY <1>9 DEF PreviewComplete
<1>10. CASE TargetComplete BY <1>10 DEF TargetComplete
<1>11. CASE OtherComplete  BY <1>11 DEF OtherComplete
<1>12. CASE LoadFinally    BY <1>12 DEF LoadFinally
<1>13. CASE TierFinally    BY <1>13 DEF TierFinally
<1>14. CASE OtherFinally   BY <1>14 DEF OtherFinally
<1> QED BY <1>1, <1>2, <1>3, <1>4, <1>5, <1>6, <1>7, <1>8, <1>9, <1>10, <1>11, <1>12,
           <1>13, <1>14 DEF Controller

\* LaneInv is inductive.
LEMMA LaneInvStep == LaneInv /\ [Next]_vars => LaneInv'
<1> SUFFICES ASSUME LaneInv, [Next]_vars PROVE LaneInv'
  OBVIOUS
<1>1. CASE Operator   BY <1>1, OperatorLeavesLanes, LaneInvStutter
<1>2. CASE Controller BY <1>2, ControllerLeavesLanes, LaneInvStutter
<1>3. CASE Manager    BY <1>3, ManagerKeeps DEF Manager
<1>4. ASSUME NEW o \in OpId, PoolFinishes(o) PROVE LaneInv'
  BY <1>4, FinishKeeps DEF PoolFinishes
<1>5. CASE UNCHANGED vars
  BY <1>5, LaneInvStutter DEF vars, managerVars, laneVars
<1>6. CASE Resting    BY <1>6, <1>5 DEF Resting
<1> QED BY <1>1, <1>2, <1>3, <1>4, <1>5, <1>6 DEF Next

\* In every behaviour a lane's counter is the number of its operations on the
\* pool, and its cap holds: through supersession, drops, and cancelAll with
\* operations still draining.
THEOREM LanesAreExact == Spec => []LanesExact
<1>1. LaneInv => LanesExact
  BY DEF LaneInv
<1>2. Init => LaneInv
  BY LaneInvInit DEF Init
<1> QED BY <1>1, <1>2, LaneInvStep, PTL DEF Spec
-----------------------------------------------------------------------------
(* Stacks.                                                                 *)

\* The call on top, and what it was called from.
LEMMA Peel ==
  ASSUME NEW c, Stacked(c), c # <<>>
  PROVE  /\ Head(c) \in Frame /\ Stacked(Tail(c))
         /\ Frames(c) = {Head(c)} \cup Frames(Tail(c))
         /\ \A y \in Frames(Tail(c)) : Above(Head(c), y)
<1>1. c \in Seq(Frame)
  BY DEF Stacked
<1>2. /\ Head(c) = c[1] /\ Head(c) \in Frame /\ Tail(c) \in Seq(Frame) /\ Len(c) \in Nat \ {0}
      /\ Len(Tail(c)) = Len(c) - 1
      /\ \A i \in 1..Len(Tail(c)) : i + 1 \in 1..Len(c) /\ Tail(c)[i] = c[i + 1]
  BY <1>1
<1>3. DOMAIN c = 1..Len(c) /\ DOMAIN Tail(c) = 1..Len(Tail(c))
  BY <1>1, <1>2
<1>4. \A i, j \in 1..Len(Tail(c)) : i < j => Above(Tail(c)[i], Tail(c)[j])
  <2> SUFFICES ASSUME NEW i \in 1..Len(Tail(c)), NEW j \in 1..Len(Tail(c)), i < j
               PROVE  Above(Tail(c)[i], Tail(c)[j])
    OBVIOUS
  <2>1. i + 1 \in 1..Len(c) /\ j + 1 \in 1..Len(c) /\ i + 1 < j + 1
    BY <1>2
  <2>2. Above(c[i + 1], c[j + 1])
    BY <2>1 DEF Stacked
  <2> QED BY <1>2, <2>2
<1>5. Frames(c) = {Head(c)} \cup Frames(Tail(c))
  <2>1. ASSUME NEW i \in 1..Len(c) PROVE c[i] \in {Head(c)} \cup Frames(Tail(c))
    <3>1. CASE i = 1
      BY <1>2, <3>1
    <3>2. CASE i # 1
      <4>1. i - 1 \in 1..Len(Tail(c)) /\ Tail(c)[i - 1] = c[i]
        BY <1>2, <3>2
      <4> QED BY <1>3, <4>1 DEF Frames
    <3> QED BY <3>1, <3>2
  <2>2. ASSUME NEW i \in 1..Len(Tail(c)) PROVE Tail(c)[i] \in Frames(c)
    BY <1>2, <1>3 DEF Frames
  <2>3. 1 \in DOMAIN c
    BY <1>2, <1>3
  <2> QED BY <1>2, <1>3, <2>1, <2>2, <2>3 DEF Frames
<1>6. ASSUME NEW y \in Frames(Tail(c)) PROVE Above(Head(c), y)
  <2>1. PICK i \in 1..Len(Tail(c)) : y = Tail(c)[i]
    BY <1>3 DEF Frames
  <2>2. 1 \in 1..Len(c) /\ i + 1 \in 1..Len(c) /\ 1 < i + 1 /\ y = c[i + 1]
    BY <1>2, <2>1
  <2> QED BY <1>2, <2>2 DEF Stacked
<1> QED BY <1>2, <1>4, <1>5, <1>6 DEF Stacked

\* A call from the top of a stack.
LEMMA Pile ==
  ASSUME NEW c, Stacked(c), NEW x \in Frame, \A y \in Frames(c) : Above(x, y)
  PROVE  /\ Stacked(<<x>> \o c) /\ Frames(<<x>> \o c) = {x} \cup Frames(c)
         /\ <<x>> \o c # <<>> /\ Head(<<x>> \o c) = x /\ Tail(<<x>> \o c) = c
<1> DEFINE d == <<x>> \o c
<1>1. c \in Seq(Frame) /\ DOMAIN c = 1..Len(c) /\ Len(c) \in Nat
  BY DEF Stacked
<1>2. /\ d \in Seq(Frame) /\ Len(d) = Len(c) + 1 /\ DOMAIN d = 1..Len(d)
      /\ d[1] = x /\ \A i \in 1..Len(c) : d[i + 1] = c[i]
  BY <1>1
<1>3. d # <<>> /\ Head(d) = x /\ Tail(d) = c
  BY <1>1, <1>2
<1> HIDE DEF d
<1>4. \A i \in 1..Len(d) : i = 1 \/ (i - 1 \in 1..Len(c) /\ d[i] = c[i - 1])
  BY <1>1, <1>2
<1>5. Frames(d) = {x} \cup Frames(c)
  <2>1. ASSUME NEW i \in 1..Len(d) PROVE d[i] \in {x} \cup Frames(c)
    BY <1>1, <1>2, <1>4 DEF Frames
  <2>2. ASSUME NEW i \in 1..Len(c) PROVE c[i] \in Frames(d)
    BY <1>1, <1>2 DEF Frames
  <2>3. x \in Frames(d)
    BY <1>1, <1>2 DEF Frames
  <2> QED BY <1>1, <1>2, <2>1, <2>2, <2>3 DEF Frames
<1>6. ASSUME NEW i \in 1..Len(d), NEW j \in 1..Len(d), i < j PROVE Above(d[i], d[j])
  <2>1. j - 1 \in 1..Len(c) /\ d[j] = c[j - 1]
    BY <1>4, <1>6
  <2>2. CASE i = 1
    <3>1. d[j] \in Frames(c)
      BY <1>1, <2>1 DEF Frames
    <3> QED BY <1>2, <2>2, <3>1
  <2>3. CASE i # 1
    <3>1. i - 1 \in 1..Len(c) /\ d[i] = c[i - 1] /\ i - 1 < j - 1
      BY <1>4, <1>6, <2>3
    <3>2. Above(c[i - 1], c[j - 1])
      BY <2>1, <3>1 DEF Stacked
    <3> QED BY <2>1, <3>1, <3>2
  <2> QED BY <2>2, <2>3
<1>7. Stacked(d) /\ Frames(d) = {x} \cup Frames(c) /\ d # <<>> /\ Head(d) = x /\ Tail(d) = c
  BY <1>2, <1>3, <1>5, <1>6 DEF Stacked
<1> QED BY <1>7 DEF d

\* Tuples put together.
LEMMA Joined ==
  ASSUME NEW x, NEW y, NEW z
  PROVE  <<x>> \o <<y>> = <<x, y>> /\ <<x>> \o <<y, z>> = <<x, y, z>>
<1> DEFINE S == {x, y, z}
<1>1. /\ <<x>> \in Seq(S) /\ <<y>> \in Seq(S) /\ <<y, z>> \in Seq(S) /\ <<x, y>> \in Seq(S)
      /\ <<x, y, z>> \in Seq(S)
  OBVIOUS
<1>2. <<x>> \o <<y>> = <<x, y>>
  <2>1. <<x>> \o <<y>> \in Seq(S) /\ Len(<<x>> \o <<y>>) = 2
        /\ (<<x>> \o <<y>>)[1] = x /\ (<<x>> \o <<y>>)[2] = y
    BY <1>1
  <2>2. \A i \in 1..2 : (<<x>> \o <<y>>)[i] = <<x, y>>[i]
    BY <2>1
  <2> QED BY <1>1, <2>1, <2>2, SeqEqual
<1>3. <<x>> \o <<y, z>> = <<x, y, z>>
  <2>1. <<x>> \o <<y, z>> \in Seq(S) /\ Len(<<x>> \o <<y, z>>) = 3
        /\ (<<x>> \o <<y, z>>)[1] = x /\ (<<x>> \o <<y, z>>)[2] = y
        /\ (<<x>> \o <<y, z>>)[3] = z
    BY <1>1
  <2>2. \A i \in 1..3 : (<<x>> \o <<y, z>>)[i] = <<x, y, z>>[i]
    BY <2>1
  <2> QED BY <1>1, <2>1, <2>2, SeqEqual
<1> QED BY <1>2, <1>3

\* Two and three of them before a stack.
LEMMA JoinedTwo ==
  ASSUME NEW c \in Seq(Frame), NEW x \in Frame, NEW y \in Frame
  PROVE  <<x, y>> \o c = <<x>> \o (<<y>> \o c)
<1>1. <<x>> \in Seq(Frame) /\ <<y>> \in Seq(Frame)
  OBVIOUS
<1>2. (<<x>> \o <<y>>) \o c = <<x>> \o (<<y>> \o c)
  BY <1>1, ConcatAssociative
<1> QED BY <1>2, Joined

\* Three calls put on a stack, one at a time.
LEMMA JoinedThree ==
  ASSUME NEW c \in Seq(Frame), NEW x \in Frame, NEW y \in Frame, NEW z \in Frame
  PROVE  <<x, y, z>> \o c = <<x>> \o (<<y, z>> \o c)
<1>1. <<x>> \in Seq(Frame) /\ <<y, z>> \in Seq(Frame)
  OBVIOUS
<1>2. (<<x>> \o <<y, z>>) \o c = <<x>> \o (<<y, z>> \o c)
  BY <1>1, ConcatAssociative
<1> QED BY <1>2, Joined

\* Two calls.
LEMMA PileTwo ==
  ASSUME NEW c, Stacked(c), NEW x \in Frame, NEW y \in Frame, Above(x, y),
         \A z \in Frames(c) : Above(x, z) /\ Above(y, z)
  PROVE  /\ Stacked(<<x, y>> \o c) /\ Frames(<<x, y>> \o c) = {x, y} \cup Frames(c)
         /\ <<x, y>> \o c # <<>> /\ Head(<<x, y>> \o c) = x
<1>1. c \in Seq(Frame)
  BY DEF Stacked
<1>2. <<x, y>> \o c = <<x>> \o (<<y>> \o c)
  BY <1>1, JoinedTwo
<1>3. Stacked(<<y>> \o c) /\ Frames(<<y>> \o c) = {y} \cup Frames(c)
  <2>1. \A z \in Frames(c) : Above(y, z)
    OBVIOUS
  <2> QED BY <2>1, Pile
<1>4. \A z \in Frames(<<y>> \o c) : Above(x, z)
  BY <1>3
<1> DEFINE d == <<y>> \o c
<1> HIDE DEF d
<1>5. Stacked(d) /\ \A z \in Frames(d) : Above(x, z)
  BY <1>3, <1>4 DEF d
<1>6. /\ Stacked(<<x>> \o d) /\ Frames(<<x>> \o d) = {x} \cup Frames(d)
      /\ <<x>> \o d # <<>> /\ Head(<<x>> \o d) = x
  BY <1>5, Pile
<1> QED BY <1>2, <1>3, <1>6 DEF d

\* Three calls.
LEMMA PileThree ==
  ASSUME NEW c, Stacked(c), NEW x \in Frame, NEW y \in Frame, NEW z \in Frame,
         Above(x, y), Above(x, z), Above(y, z),
         \A f \in Frames(c) : Above(x, f) /\ Above(y, f) /\ Above(z, f)
  PROVE  /\ Stacked(<<x, y, z>> \o c) /\ Frames(<<x, y, z>> \o c) = {x, y, z} \cup Frames(c)
         /\ <<x, y, z>> \o c # <<>> /\ Head(<<x, y, z>> \o c) = x
<1>1. c \in Seq(Frame)
  BY DEF Stacked
<1>2. <<x, y, z>> \o c = <<x>> \o (<<y, z>> \o c)
  BY <1>1, JoinedThree
<1>3. Stacked(<<y, z>> \o c) /\ Frames(<<y, z>> \o c) = {y, z} \cup Frames(c)
  <2>1. \A f \in Frames(c) : Above(y, f) /\ Above(z, f)
    OBVIOUS
  <2> QED BY <2>1, PileTwo
<1>4. \A f \in Frames(<<y, z>> \o c) : Above(x, f)
  BY <1>3
<1> DEFINE d == <<y, z>> \o c
<1> HIDE DEF d
<1>5. Stacked(d) /\ \A f \in Frames(d) : Above(x, f)
  BY <1>3, <1>4 DEF d
<1>6. /\ Stacked(<<x>> \o d) /\ Frames(<<x>> \o d) = {x} \cup Frames(d)
      /\ <<x>> \o d # <<>> /\ Head(<<x>> \o d) = x
  BY <1>5, Pile
<1> QED BY <1>2, <1>3, <1>6 DEF d

\* No call is in progress.
LEMMA NoFrames == Stacked(<<>>) /\ Frames(<<>>) = {}
BY DEF Stacked, Frames
-----------------------------------------------------------------------------
(* Requests and calls.                                                     *)

\* Keys of different kinds of builds differ, and a key tells its layer and quality.
LEMMA KeysApart ==
  \A a, b, p, q :
    /\ LoadKey(a) # TierKey(b, q) /\ LoadKey(a) # WriteKey(b, q) /\ LoadKey(a) # RasterKey
    /\ TierKey(a, p) # WriteKey(b, q) /\ TierKey(a, p) # RasterKey
    /\ (LoadKey(a) = LoadKey(b) => a = b)
    /\ (TierKey(a, p) = TierKey(b, q) => a = b /\ p = q)
BY DEF LoadKey, TierKey, WriteKey, RasterKey

\* What a request says.
LEMMA RequestFields ==
  ASSUME NEW r \in Request
  PROVE  /\ r.kind \in {"load", "tier", "write", "raster"} /\ r.key \in Key
         /\ r.kind = "load" => /\ r.layer \in Layer /\ r.key = LoadKey(r.layer) /\ r.lane = "map"
                               /\ r.version \in Nat /\ r.next \in {Off, High}
         /\ r.kind = "tier" => /\ r.layer \in Layer /\ r.quality \in Quality
                               /\ r.key = TierKey(r.layer, r.quality)
                               /\ r.version \in Nat /\ r.generation \in Nat
         /\ r.kind = "write" => \E a \in Layer, q \in Quality : r.key = WriteKey(a, q)
         /\ r.kind = "raster" => r.key = RasterKey
<1>1. CASE r \in LoadRequest
  BY <1>1 DEF LoadRequest
<1>2. CASE r \in TierRequest
  BY <1>2 DEF TierRequest
<1>3. CASE r \in OtherRequest
  BY <1>3, TiersAssumption DEF OtherRequest, TiersAssumption
<1> QED BY <1>1, <1>2, <1>3 DEF Request

\* What the controller asks for are requests.
LEMMA RequestsMade ==
  ASSUME params \in [Layer -> Nat], NEW a \in Layer
  PROVE  /\ \A selected : LoadOf(a, selected) \in Request
         /\ \A q \in Quality, l \in {"map", "apply"}, g \in Nat :
              TierOf(a, q, l, g) \in Request /\ AfterStore(TierOf(a, q, l, g)) \in Request
         /\ \A q \in Quality : WriteOf(a, q) \in Request
         /\ RasterLoad \in Request
<1>1. \A q \in Quality : LoadKey(a) \in Key /\ TierKey(a, q) \in Key /\ WriteKey(a, q) \in Key
  BY TiersAssumption DEF TiersAssumption
<1>2. Off \in Quality /\ params[a] \in Nat /\ params[a] + 1 \in Nat
  BY DEF Quality, Off
<1>3. \A selected : LoadOf(a, selected) \in LoadRequest
  BY <1>1, <1>2 DEF LoadOf, LoadRequest
<1>4. ASSUME NEW q \in Quality, NEW l \in {"map", "apply"}, NEW g \in Nat
      PROVE  TierOf(a, q, l, g) \in TierRequest /\ AfterStore(TierOf(a, q, l, g)) \in TierRequest
  BY <1>1, <1>2 DEF TierOf, AfterStore, TierRequest
<1>5. ASSUME NEW q \in Quality PROVE WriteOf(a, q) \in OtherRequest
  BY <1>1 DEF WriteOf, OtherRequest
<1>6. RasterLoad \in OtherRequest
  BY DEF RasterLoad, OtherRequest
<1> QED BY <1>3, <1>4, <1>5, <1>6 DEF Request

\* What a call says.
LEMMA FrameFields ==
  ASSUME NEW f \in Frame
  PROVE  /\ f.call \in {"run", "pump", "settle", "finally", "complete", "reload", "deactivate",
                        "cancelAll", "dialog", "sweep"}
         /\ f.call = "run" => f.request \in Request /\ f = RunCall(f.request)
         /\ f.call = "pump" => f.lane \in Lane /\ f = PumpCall(f.lane)
         /\ f.call \in {"settle", "finally", "complete"} => f.op \in OpId
         /\ f.call = "reload" => f.todo \in Seq(Layer)
         /\ f.call = "deactivate" => f.clear \in BOOLEAN
         /\ f.call = "sweep" => /\ f.lane \in Lane /\ f.todo \in Seq(OpId)
                                /\ f.lanes \subseteq Lane
BY DEF Frame, RunCall, PumpCall

\* The calls that are made.
LEMMA FramesMade ==
  /\ \A r \in Request : RunCall(r) \in Frame
  /\ \A l \in Lane : PumpCall(l) \in Frame
  /\ \A o \in OpId : SettleCall(o) \in Frame /\ FinallyCall(o) \in Frame /\ CompleteCall(o) \in Frame
  /\ \A todo \in Seq(Layer) : ReloadCall(todo) \in Frame
  /\ \A b \in BOOLEAN : DeactivateCall(b) \in Frame
  /\ CancelAllCall \in Frame /\ DialogCall \in Frame
  /\ \A l \in Lane, todo \in Seq(OpId), ls \in SUBSET Lane : SweepCall(l, todo, ls) \in Frame
BY DEF Frame, RunCall, PumpCall, SettleCall, FinallyCall, CompleteCall, ReloadCall,
       DeactivateCall, CancelAllCall, DialogCall, SweepCall

\* Who they are.
LEMMA CallNames ==
  /\ \A r : RunCall(r).call = "run" /\ RunCall(r).request = r
  /\ \A l : PumpCall(l).call = "pump" /\ PumpCall(l).lane = l
  /\ \A o : /\ SettleCall(o).call = "settle" /\ SettleCall(o).op = o
            /\ FinallyCall(o).call = "finally" /\ FinallyCall(o).op = o
            /\ CompleteCall(o).call = "complete" /\ CompleteCall(o).op = o
  /\ \A todo : ReloadCall(todo).call = "reload" /\ ReloadCall(todo).todo = todo
  /\ \A b : DeactivateCall(b).call = "deactivate" /\ DeactivateCall(b).clear = b
  /\ CancelAllCall.call = "cancelAll" /\ DialogCall.call = "dialog"
  /\ \A l, todo, ls : LET f == SweepCall(l, todo, ls) IN
       f.call = "sweep" /\ f.lane = l /\ f.todo = todo /\ f.lanes = ls
BY DEF RunCall, PumpCall, SettleCall, FinallyCall, CompleteCall, ReloadCall,
       DeactivateCall, CancelAllCall, DialogCall, SweepCall

\* The call on top in a step.
LEMMA TopOf ==
  ASSUME StackInv, calls # <<>>
  PROVE  /\ Top \in Frame /\ FrameOk(Top) /\ Stacked(Tail(calls))
         /\ Frames(calls) = {Top} \cup Frames(Tail(calls))
         /\ \A y \in Frames(Tail(calls)) : y \in Frame /\ Above(Top, y) /\ FrameOk(y)
<1>1. /\ Top \in Frame /\ Stacked(Tail(calls))
      /\ Frames(calls) = {Top} \cup Frames(Tail(calls))
      /\ \A y \in Frames(Tail(calls)) : Above(Top, y)
  BY Peel DEF StackInv, Top
<1>2. Frames(Tail(calls)) \subseteq Frame
  BY <1>1 DEF Frames, Stacked
<1> QED BY <1>1, <1>2 DEF StackInv

\* Calls are what they are.
LEMMA FramesAre == StackInv => Frames(calls) \subseteq Frame
BY DEF StackInv, Stacked, Frames

\* A stack is empty or has a call on top.
LEMMA RestCalls ==
  ASSUME AtRest
  PROVE  Frames(calls) = {} /\ \A n : ~In(n)
BY NoFrames DEF AtRest, In
-----------------------------------------------------------------------------
(* A turn of the controller: it returns from the call on top, or nothing   *)
(* is in progress, and it makes new ones.  What each of its steps has to   *)
(* show is stated here, and what follows from it is proved once.           *)

Rest == IF calls = <<>> THEN <<>> ELSE Tail(calls)

\* The manager's books stay; an outcome is delivered before its on_finally is called.
Turn ==
  /\ nextId' = nextId /\ op' = op /\ entries' = entries /\ keyed' = keyed
  /\ running' = running /\ waiting' = waiting /\ launched' = launched
  /\ cancelled \subseteq cancelled' /\ cancelled' \subseteq cancelled \cup entries
  /\ ~In("run") /\ ~In("pump") /\ ~In("sweep")
  /\ Stacked(calls') /\ Frames(Rest) \subseteq Frames(calls')
  /\ \A f \in Frames(calls') \ Frames(Rest) :
       \/ f.call \in {"run", "reload"} \cup Outer
       \/ /\ f.call \in {"finally", "complete"} /\ In("settle") /\ f.op = Top.op
          /\ f.call = "complete" => Top.op \notin cancelled /\ op[Top.op].kind = "tier"
  /\ In("settle") => FinallyCall(Top.op) \in Frames(calls')
  /\ finals' = IF In("finally") THEN [finals EXCEPT ![Top.op] = @ + 1] ELSE finals

\* A layer is taken off the map once its builds are cancelled and none delivers.
RemovalTurn ==
  \A a \in Layer :
    \/ removed'[a] = removed[a]
    \/ /\ BuildsOf({a}) \subseteq cancelled'
       /\ \A f \in Frames(calls) : f.call \notin {"settle", "complete", "sweep"}

\* A refresh stays, goes on, ends or is replaced; what is cancelled is of one that ends
\* or is replaced; and no preview is asked for while one is waited for.
StageTurn ==
  /\ generation' \in {generation, generation + 1}
  /\ \A a \in Layer :
       \/ staged'[a] = NotStaged
       \/ /\ quality' = quality
          /\ \/ staged'[a] = staged[a]
             \/ staged[a] # NotStaged /\ staged'[a] = [staged[a] EXCEPT !.awaiting = FALSE]
       \/ /\ generation' = generation + 1 /\ staged'[a].generation = generation
          /\ staged'[a].target = quality' /\ (staged'[a].awaiting => quality' = High)
  /\ \A o \in cancelled' \ cancelled : op[o].kind = "tier" =>
       staged'[op[o].layer] = NotStaged \/ staged'[op[o].layer].generation = generation
  /\ \A f \in Frames(calls') \ Frames(Rest) : RunsTier(f) =>
       /\ f.request.generation < generation'
       /\ RunsLow(f) => \/ ~staged'[f.request.layer].awaiting
                        \/ staged'[f.request.layer].generation = generation

\* A load is counted before it is asked for.
CountTurn ==
  /\ ~(In("finally") /\ op[Top.op].kind = "load")
  /\ builds' <= builds + TopLoad'
  /\ dataState' = "Loading" => builds' > 0

\* A turn leaves the books of the manager, and whatever sweeps are under way.
LEMMA TurnSweeps ==
  ASSUME StackInv, Turn
  PROVE  /\ \A f \in Frames(calls') : f.call = "sweep" => f \in Frames(calls)
         /\ \A f \in Frames(calls) : f.call = "sweep" => f \in Frames(calls')
         /\ \A f \in Frames(calls') : f.call \in {"pump", "settle"} =>
              f \in Frames(Rest) /\ In("finally")
         /\ Frames(Rest) \subseteq Frames(calls)
<1>1. CASE calls = <<>>
  <2>1. Frames(Rest) = {} /\ Frames(calls) = {}
    BY <1>1, NoFrames DEF Rest
  <2>2. ~In("settle")
    BY <1>1 DEF In
  <2> QED BY <2>1, <2>2 DEF Turn, Outer
<1>2. CASE calls # <<>>
  <2>1. Rest = Tail(calls)
    BY <1>2 DEF Rest
  <2>2. /\ Frames(calls) = {Top} \cup Frames(Rest) /\ Top \in Frame
        /\ \A y \in Frames(Rest) : Above(Top, y)
    BY <1>2, <2>1, TopOf
  <2>3. Top.call # "pump" /\ Top.call # "sweep" /\ (Top.call = "finally" => In("finally"))
    BY <1>2 DEF Turn, In
  <2>4. \A f \in Frames(calls') : f.call \in {"sweep", "pump", "settle"} => f \in Frames(Rest)
    BY DEF Turn, Outer
  <2>5. \A f \in Frames(Rest) : f.call \in {"pump", "settle"} => In("finally")
    BY <2>2, <2>3 DEF Above
  <2>6. \A f \in Frames(calls) : f.call = "sweep" => f \in Frames(calls')
    BY <2>2, <2>3 DEF Turn
  <2> QED BY <2>2, <2>4, <2>5, <2>6
<1> QED BY <1>1, <1>2

\* So the books are kept.
LEMMA TurnBooks ==
  ASSUME TierInv, Turn
  PROVE  LaneInv' /\ KeyBooks' /\ StackInv' /\ Registered' /\ LoadsHeld' /\ Newest(Settling)'
<1> USE DEF Turn
<1>1. LaneInv'
  BY LaneInvStutter DEF TierInv, laneVars
<1>2. KeyBooks'
  BY KeyCancel DEF TierInv
<1>3. StackInv
  BY DEF TierInv
<1>4. Asked' = Asked
  BY DEF Asked
<1>5. ASSUME NEW f \in Frames(calls') PROVE FrameOk(f)'
  <2>1. FrameOk(f)
    <3>1. CASE f \in Frames(Rest)
      BY <1>3, <3>1, TurnSweeps DEF StackInv
    <3>2. CASE f.call \in {"run", "reload"} \cup Outer
      BY <3>2 DEF FrameOk, Outer
    <3>3. CASE f.call \in {"finally", "complete"} /\ In("settle") /\ f.op = Top.op
               /\ (f.call = "complete" => Top.op \notin cancelled /\ op[Top.op].kind = "tier")
      <4>1. Top.op \in Asked
        BY <1>3, <3>3, TopOf DEF In, FrameOk
      <4> QED BY <3>3, <4>1 DEF FrameOk
    <3> QED BY <3>1, <3>2, <3>3
  <2> QED BY <1>4, <2>1 DEF FrameOk
<1>6. StackInv'
  BY <1>5 DEF StackInv
<1>7. \A l \in Lane : SweepsOf(l)' = SweepsOf(l)
  BY <1>3, TurnSweeps DEF SweepsOf
<1>8. Registered'
  BY <1>7 DEF TierInv, Registered
<1>9. ASSUME NEW o \in OpenLoads' PROVE Held(o)'
  <2>1. o \in OpenLoads
    BY <1>3, <1>4, <1>9, TopOf, FrameFields DEF OpenLoads, TierInv, TierTypes, Asked, In
  <2>2. Held(o)
    BY <2>1 DEF TierInv, LoadsHeld
  <2>3. ASSUME NEW f \in Frames(calls), f.call \in {"settle", "finally"}, f.op = o
        PROVE  \E g \in Frames(calls') : g.call \in {"settle", "finally"} /\ g.op = o
    <3>1. calls # <<>>
      BY NoFrames
    <3>2. CASE f \in Frames(Rest)
      BY <2>3, <3>2
    <3>3. CASE f = Top /\ f.call = "settle"
      <4>1. FinallyCall(o) \in Frames(calls')
        BY <2>3, <3>1, <3>3 DEF In
      <4> QED BY <4>1, CallNames
    <3>4. CASE f = Top /\ f.call = "finally"
      <4>1. finals'[o] = finals[o] + 1 /\ finals[o] \in Nat
        BY <2>1, <2>3, <3>1, <3>4 DEF In, OpenLoads, Asked, TierInv, TierTypes
      <4> QED BY <1>9, <4>1 DEF OpenLoads
    <3> QED BY <1>3, <2>3, <3>1, <3>2, <3>3, <3>4, TopOf DEF Rest
  <2> QED BY <1>7, <2>2, <2>3 DEF Held
<1>10. LoadsHeld'
  BY <1>9 DEF LoadsHeld
<1>11. Settling' \subseteq Settling
  <2>1. ASSUME NEW o \in Settling' PROVE o \in Settling
    <3>1. PICK f \in Frames(calls') : f.call = "settle" /\ f.op = o
      BY <2>1 DEF Settling, SettlingIn, Frames
    <3>2. f \in Frames(calls)
      BY <1>3, <3>1, TurnSweeps
    <3> QED BY <2>1, <3>1, <3>2 DEF Settling, SettlingIn, Frames
  <2> QED BY <2>1
<1>12. Newest(Settling)'
  BY <1>4, <1>11 DEF TierInv, Newest
<1> QED BY <1>1, <1>2, <1>6, <1>8, <1>10, <1>12

\* BuildsOf reaches every registered build of a layer that is not cancelled.
LEMMA BuildsReached ==
  ASSUME KeyBooks, TierTypes, NEW o \in entries \ cancelled, op[o].kind \in Building
  PROVE  op[o].layer \in Layer /\ o \in BuildsOf({op[o].layer})
<1>1. o \in Asked /\ op[o] \in Request
  BY DEF KeyBooks, TierTypes
<1>2. op[o].layer \in Layer /\ op[o].key \in Key /\ op[o].key \in BuildKeys(op[o].layer)
  BY <1>1, RequestFields DEF Building, BuildKeys, TierKeys
<1>3. keyed[op[o].key] = o
  BY <1>2 DEF KeyBooks
<1>4. op[o].key \in UNION {BuildKeys(a) : a \in {op[o].layer}}
  BY <1>2
<1> QED BY <1>2, <1>3, <1>4 DEF BuildsOf, Current

\* What a cancel of a layer's keys reaches is the layer's.
LEMMA ReachedBy ==
  ASSUME KeyBooks, TierTypes, NEW A \in SUBSET Layer,
         NEW o \in BuildsOf(A) \cup UNION {Current(TierKeys(a)) : a \in A}, op[o].kind = "tier"
  PROVE  op[o].layer \in A
<1>1. o \in entries /\ op[o] \in Request
  BY DEF KeyBooks, TierTypes, BuildsOf, Current
<1>2. PICK a \in A : \E k \in BuildKeys(a) : o = keyed[k]
  BY DEF BuildsOf, Current, BuildKeys
<1>3. PICK k \in BuildKeys(a) : o = keyed[k]
  BY <1>2
<1>4. k \in Key
  BY <1>3, TiersAssumption DEF TiersAssumption, BuildKeys, TierKeys, Quality
<1>5. o # NoOp
  BY <1>1 DEF KeyBooks, Asked, OpId, NoOp
<1>6. op[o].key = k
  BY <1>3, <1>4, <1>5 DEF KeyBooks
<1>7. op[o].key = TierKey(op[o].layer, op[o].quality)
  BY <1>1, RequestFields
<1> QED BY <1>3, <1>6, <1>7, KeysApart DEF BuildKeys, TierKeys

\* No build of a layer that was taken off the map is still to come.
LEMMA TurnRecent ==
  ASSUME TierInv, Turn, RemovalTurn
  PROVE  Recent'
<1> USE DEF Turn
<1>1. StackInv /\ KeyBooks /\ TierTypes
  BY DEF TierInv
<1>2. ASSUME NEW o \in Asked, IsRecent(o),
             (o \in entries \ cancelled') \/ (\E f \in Frames(calls) : f.call \in {"settle", "complete"})
      PROVE  IsRecent(o)'
  <2> SUFFICES ASSUME op[o].kind \in Building PROVE o >= removed'[op[o].layer]
    BY DEF IsRecent
  <2>1. op[o].layer \in Layer
    BY <1>1, RequestFields DEF TierTypes, Building
  <2>2. CASE removed'[op[o].layer] = removed[op[o].layer]
    BY <1>2, <2>2 DEF IsRecent
  <2>3. CASE /\ BuildsOf({op[o].layer}) \subseteq cancelled'
             /\ \A f \in Frames(calls) : f.call \notin {"settle", "complete", "sweep"}
    BY <1>1, <1>2, <2>3, BuildsReached
  <2> QED BY <2>1, <2>2, <2>3 DEF RemovalTurn
<1>3. ASSUME NEW o \in Asked, IsRecent(o), removed' = removed PROVE IsRecent(o)'
  BY <1>3 DEF IsRecent
<1>4. \A o \in launched' \ cancelled' : IsRecent(o)'
  BY <1>1, <1>2 DEF TierInv, Recent, Registered, KeyBooks
<1>5. ASSUME NEW l \in Lane, NEW i \in 1..Len(waiting[l]), waiting[l][i] \notin cancelled'
      PROVE  IsRecent(waiting[l][i])'
  <2> DEFINE o == waiting[l][i]
  <2>1. o \in Asked /\ IsRecent(o)
    BY <1>5 DEF TierInv, Recent, LaneInv, QueuesApart, Asked
  <2>2. CASE SweepsOf(l) = {}
    BY <1>2, <1>5, <2>1, <2>2 DEF TierInv, Registered
  <2>3. CASE SweepsOf(l) # {}
    <3>1. PICK f \in Frames(calls) : f.call = "sweep"
      BY <2>3 DEF SweepsOf
    <3>2. \A a \in Layer : removed'[a] = removed[a]
      BY <3>1 DEF RemovalTurn
    <3>3. op[o].kind \in Building => op[o].layer \in Layer
      BY <1>1, <2>1, RequestFields DEF TierTypes, Building
    <3> QED BY <2>1, <3>2, <3>3 DEF IsRecent
  <2> QED BY <2>2, <2>3
<1>6. ASSUME NEW f \in Frames(calls'), f.call = "settle", f.op \notin cancelled'
      PROVE  IsRecent(f.op)'
  <2>1. f \in Frames(calls)
    BY <1>1, <1>6, TurnSweeps
  <2>2. f.op \in Asked /\ IsRecent(f.op)
    BY <1>1, <1>6, <2>1 DEF StackInv, FrameOk, TierInv, Recent
  <2> QED BY <1>2, <1>6, <2>1, <2>2
<1>7. ASSUME NEW f \in Frames(calls'), f.call = "complete" PROVE IsRecent(f.op)'
  <2>1. CASE f \in Frames(Rest)
    <3>1. f \in Frames(calls)
      BY <1>1, <2>1, TurnSweeps
    <3>2. f.op \in Asked /\ IsRecent(f.op)
      BY <1>1, <1>7, <3>1 DEF StackInv, FrameOk, TierInv, Recent
    <3> QED BY <1>2, <1>7, <3>1, <3>2
  <2>2. CASE f \notin Frames(Rest)
    <3>1. In("settle") /\ f.op = Top.op /\ Top.op \notin cancelled
      BY <1>7, <2>2 DEF Outer
    <3>2. Top \in Frames(calls) /\ Top.call = "settle"
      BY <1>1, <3>1, TopOf DEF In
    <3>3. f.op \in Asked /\ IsRecent(f.op)
      BY <1>1, <3>1, <3>2 DEF StackInv, FrameOk, TierInv, Recent
    <3> QED BY <1>2, <3>2, <3>3
  <2> QED BY <2>1, <2>2
<1> QED BY <1>4, <1>5, <1>6, <1>7 DEF Recent

\* Only what was a preview before the turn is one after it.
LEMMA FewerPreviews ==
  ASSUME TierInv, op' = op, nextId' = nextId, StageTurn, NEW o \in Asked, AsPreview(o)'
  PROVE  /\ AsPreview(o) /\ o \notin cancelled' \ cancelled
         /\ op[o].layer \in Layer /\ op[o].quality = Low /\ op[o].generation < generation
         /\ staged'[op[o].layer].awaiting
         /\ staged'[op[o].layer].generation = op[o].generation
<1> DEFINE a == op[o].layer
<1>1. op[o] \in Request /\ op[o].kind = "tier"
  BY DEF TierInv, TierTypes, AsPreview
<1>2. /\ a \in Layer /\ op[o].generation \in Nat /\ op[o].generation < generation
      /\ generation \in Nat
  BY <1>1, RequestFields DEF TierInv, TierTypes, Generations
<1>3. /\ staged'[a] # NotStaged /\ staged'[a].generation = op[o].generation
      /\ staged'[a].awaiting /\ op[o].quality = Low
  BY DEF AsPreview, IsPreview, OfStage, IsStaged
<1>4. staged'[a].generation # generation
  BY <1>2, <1>3
<1>5. staged'[a] = staged[a] \/ staged'[a] = [staged[a] EXCEPT !.awaiting = FALSE]
  BY <1>2, <1>3, <1>4 DEF StageTurn
<1>6. staged[a] \in Stage
  BY <1>2 DEF TierInv, TierTypes
<1>7. staged'[a] = staged[a]
  BY <1>3, <1>5, <1>6 DEF Stage
<1>8. AsPreview(o)
  BY <1>1, <1>3, <1>7 DEF AsPreview, IsPreview, OfStage, IsStaged
<1>9. o \notin cancelled' \ cancelled
  BY <1>1, <1>3, <1>4 DEF StageTurn
<1> QED BY <1>2, <1>3, <1>8, <1>9

\* Generations stay what they are.
LEMMA TurnGenerations ==
  ASSUME TierInv, Turn, StageTurn, staged' \in [Layer -> Stage], quality' \in Quality
  PROVE  Generations'
<1> USE DEF Turn
<1>1. /\ StackInv /\ Generations /\ generation \in Nat /\ Asked' = Asked
      /\ staged \in [Layer -> Stage]
  BY DEF TierInv, TierTypes, Asked
<1>2. generation' \in Nat /\ generation <= generation'
  BY <1>1 DEF StageTurn
<1>3. ASSUME NEW o \in Asked', op'[o].kind = "tier" PROVE op'[o].generation < generation'
  <2>1. op[o].generation < generation /\ op[o].generation \in Nat
    BY <1>1, <1>3, RequestFields DEF Generations, TierInv, TierTypes
  <2> QED BY <1>1, <1>2, <2>1
<1>4. ASSUME NEW f \in Frames(calls'), RunsTier(f) PROVE f.request.generation < generation'
  <2>1. CASE f \in Frames(Rest)
    <3>1. f \in Frames(calls) /\ f \in Frame
      BY <1>1, <2>1, TurnSweeps, FramesAre
    <3>2. f.request.generation < generation /\ f.request.generation \in Nat
      BY <1>1, <1>4, <3>1, FrameFields, RequestFields DEF Generations, RunsTier
    <3> QED BY <1>1, <1>2, <3>2
  <2>2. CASE f \notin Frames(Rest)
    BY <1>4, <2>2 DEF StageTurn
  <2> QED BY <2>1, <2>2
<1>5. ASSUME NEW a \in Layer
      PROVE  /\ staged'[a].generation < generation'
             /\ staged'[a] # NotStaged => staged'[a].target = quality'
             /\ staged'[a].awaiting => staged'[a].target = High
  <2>0. staged'[a] \in Stage /\ staged[a] \in Stage
    BY <1>1
  <2>1. CASE staged'[a] = NotStaged
    <3>1. 0 < generation
      <4>1. staged[a].generation \in Nat /\ staged[a].generation < generation
        BY <1>1, <2>0 DEF Generations, Stage
      <4> QED BY <1>1, <4>1
    <3> QED BY <1>1, <1>2, <2>1, <3>1 DEF NotStaged
  <2>2. CASE quality' = quality /\ staged'[a] = staged[a]
    <3>1. staged[a].generation \in Nat /\ staged[a].generation < generation
      BY <1>1, <2>0 DEF Generations, Stage
    <3>2. staged'[a].generation < generation'
      BY <1>1, <1>2, <2>2, <3>1
    <3> QED BY <1>1, <2>2, <3>2 DEF Generations
  <2>3. CASE /\ quality' = quality /\ staged[a] # NotStaged
             /\ staged'[a] = [staged[a] EXCEPT !.awaiting = FALSE]
    <3>1. staged[a].generation \in Nat /\ staged[a].generation < generation
      BY <1>1, <2>0 DEF Generations, Stage
    <3>2. /\ staged'[a].generation = staged[a].generation
          /\ staged'[a].target = staged[a].target /\ staged'[a].awaiting = FALSE
      BY <2>0, <2>3 DEF Stage
    <3>3. staged'[a].generation < generation'
      BY <1>1, <1>2, <3>1, <3>2
    <3> QED BY <1>1, <2>3, <3>2, <3>3 DEF Generations
  <2>4. CASE /\ generation' = generation + 1 /\ staged'[a].generation = generation
             /\ staged'[a].target = quality' /\ (staged'[a].awaiting => quality' = High)
    BY <1>1, <2>4
  <2> QED BY <2>1, <2>2, <2>3, <2>4 DEF StageTurn
<1> QED BY <1>3, <1>4, <1>5 DEF Generations

\* No preview that is waited for is lost.
LEMMA TurnPreviews ==
  ASSUME TierInv, Turn, StageTurn
  PROVE  Unpreviewed'
<1> USE DEF Turn
<1>1. StackInv /\ Unpreviewed /\ Asked' = Asked /\ LaneInv
  BY DEF TierInv, Asked
<1>2. ASSUME NEW l \in Lane, NEW i \in 1..Len(waiting[l]), NEW o, o = waiting[l][i],
             o \in cancelled', AsPreview(o)'
      PROVE  ToSweep(l)'
  <2>1. o \in Asked
    BY <1>1, <1>2 DEF LaneInv, QueuesApart, Asked
  <2>2. AsPreview(o) /\ o \in cancelled
    BY <1>2, <2>1, FewerPreviews
  <2>3. ToSweep(l)
    BY <1>1, <1>2, <2>2 DEF Unpreviewed
  <2> QED BY <1>1, <2>3, TurnSweeps DEF ToSweep
<1>3. ASSUME NEW f \in Frames(calls'), RunsLow(f), NEW o \in Asked, AsPreview(o)'
      PROVE  op[o].layer # f.request.layer
  <2>1. CASE f \in Frames(Rest)
    <3>1. calls # <<>>
      BY <2>1, NoFrames DEF Rest
    <3>2. Above(Top, f)
      BY <1>1, <2>1, <3>1, TopOf DEF Rest
    <3> QED BY <1>3, <3>2 DEF Above
  <2>2. CASE f \notin Frames(Rest)
    <3>1. \/ ~staged'[f.request.layer].awaiting
          \/ staged'[f.request.layer].generation = generation
      BY <1>3, <2>2 DEF StageTurn, RunsLow
    <3>2. /\ staged'[op[o].layer].awaiting
          /\ staged'[op[o].layer].generation = op[o].generation
          /\ op[o].generation < generation
      BY <1>3, FewerPreviews
    <3>3. op[o].generation \in Nat /\ generation \in Nat
      BY <1>3, RequestFields DEF TierInv, TierTypes, AsPreview
    <3> QED BY <3>1, <3>2, <3>3
  <2> QED BY <2>1, <2>2
<1>4. ~(In("finally")' /\ \E f \in Frames(calls') : f.call \in {"pump", "settle"})
  <2> SUFFICES ASSUME In("finally")', NEW f \in Frames(calls'), f.call \in {"pump", "settle"}
               PROVE  FALSE
    OBVIOUS
  <2>1. In("finally") /\ f \in Frames(Rest)
    BY <1>1, TurnSweeps
  <2>2. calls # <<>> /\ Top.call = "finally" /\ calls' # <<>> /\ Head(calls').call = "finally"
    BY <2>1 DEF In, Top
  <2>3. Head(calls') \in Frames(calls')
    BY <2>2, Peel
  <2>4. Head(calls') \in Frames(Rest)
    BY <2>1, <2>2, <2>3 DEF Outer, In
  <2>5. Above(Top, Head(calls'))
    BY <1>1, <2>2, <2>4, TopOf DEF Rest
  <2> QED BY <2>2, <2>5 DEF Above
<1>5. \A l \in Lane : \A i \in 1..Len(waiting'[l]) :
        waiting'[l][i] \in cancelled' /\ AsPreview(waiting[l][i])' => ToSweep(l)'
  <2> SUFFICES ASSUME NEW l \in Lane, NEW i \in 1..Len(waiting'[l]), waiting'[l][i] \in cancelled',
                      AsPreview(waiting[l][i])'
               PROVE  ToSweep(l)'
    OBVIOUS
  <2>1. PICK o : o = waiting[l][i] /\ waiting'[l][i] = o
    OBVIOUS
  <2>2. AsPreview(o)'
    BY <2>1 DEF AsPreview
  <2> QED BY <1>2, <2>1, <2>2
<1>6. \A f \in Frames(calls') : RunsLow(f) =>
        \A o \in Asked' : AsPreview(o)' => op'[o].layer # f.request.layer
  BY <1>1, <1>3
<1> QED BY <1>4, <1>5, <1>6 DEF Unpreviewed

\* The open loads can be counted.
LEMMA OpenFinite == IsFiniteSet(OpenLoads) /\ Cardinality(OpenLoads) \in Nat
<1>1. IsFiniteSet(OpId)
  BY OperationAssumption, FS_Interval, SMT DEF OpId, OperationAssumption
<1>2. OpenLoads \subseteq OpId
  BY DEF OpenLoads, Asked
<1> QED BY <1>1, <1>2, FS_Subset, FS_CardinalityType

\* The count of builds is kept.
LEMMA TurnCounts ==
  ASSUME TierInv, Turn, CountTurn, builds' \in Nat
  PROVE  Counted'
<1> USE DEF Turn
<1>1. /\ StackInv /\ TierTypes /\ Asked' = Asked
      /\ builds <= Cardinality(OpenLoads) + TopLoad /\ builds \in Nat
  BY DEF TierInv, TierTypes, Asked, Counted
<1>2. TopLoad = 0
  <2>1. ~(calls # <<>> /\ Head(calls).call = "run")
    BY DEF In, Top
  <2> QED BY <2>1 DEF TopLoad, RunsLoad
<1>3. OpenLoads' = OpenLoads
  <2>1. CASE In("finally")
    <3>1. Top.op \in OpId /\ op[Top.op].kind # "load"
      BY <1>1, <2>1, TopOf, FrameFields DEF CountTurn, In
    <3>2. \A o \in OpId : op[o].kind = "load" => finals'[o] = finals[o]
      BY <1>1, <2>1, <3>1 DEF TierTypes
    <3> QED BY <1>1, <3>2 DEF OpenLoads, Asked
  <2>2. CASE ~In("finally")
    BY <1>1, <2>2 DEF OpenLoads
  <2> QED BY <2>1, <2>2
<1>4. TopLoad' \in {0, 1}
  BY DEF TopLoad
<1>5. builds' <= builds + TopLoad' /\ (dataState' = "Loading" => builds' > 0)
  BY DEF CountTurn
<1>6. builds' <= Cardinality(OpenLoads) + TopLoad'
  <2>1. \A x, y, n \in Nat, t \in {0, 1} : x <= y + t /\ y <= n => x <= n + t
    OBVIOUS
  <2>2. builds <= Cardinality(OpenLoads)
    <3>1. Cardinality(OpenLoads) + 0 = Cardinality(OpenLoads)
      BY OpenFinite
    <3> QED BY <1>1, <1>2, <3>1
  <2>3. Cardinality(OpenLoads) \in Nat
    BY OpenFinite
  <2> QED BY <1>1, <1>4, <1>5, <2>1, <2>2, <2>3, Zenon
<1> QED BY <1>3, <1>5, <1>6 DEF Counted

\* What the controller keeps beside the manager's books.
ViewTypes ==
  /\ quality \in Quality /\ active \in Layer \cup {NoLayer} /\ loaded \subseteq Layer
  /\ staged \in [Layer -> Stage] /\ builds \in Nat
  /\ params \in [Layer -> Nat] /\ shown \in [Layer -> Nat]
  /\ removed \in [Layer -> Nat] /\ \A a \in Layer : removed[a] <= nextId

\* The types.
LEMMA TurnTypes ==
  ASSUME TierInv, Turn, StageTurn, ViewTypes'
  PROVE  TierTypes'
<1> USE DEF Turn
<1>1. /\ StackInv /\ TierTypes /\ Asked' = Asked /\ KeyBooks
  BY DEF TierInv, Asked
<1>2. finals' \in [OpId -> Nat] /\ \A o \in OpId \ Asked : finals'[o] = 0
  <2>1. CASE In("finally")
    <3>1. Top.op \in Asked /\ Top.op \in OpId
      BY <1>1, <2>1, TopOf DEF FrameOk, In, Asked
    <3> QED BY <1>1, <2>1, <3>1 DEF TierTypes
  <2>2. CASE ~In("finally")
    BY <1>1, <2>2 DEF TierTypes
  <2> QED BY <2>1, <2>2
<1>3. \A o \in Asked' : op'[o] \in Request
  BY <1>1 DEF TierTypes
<1>4. cancelled' \subseteq Asked
  BY <1>1 DEF TierTypes, KeyBooks
<1>5. generation' \in Nat
  BY <1>1 DEF StageTurn, TierTypes
<1> QED BY <1>1, <1>2, <1>3, <1>4, <1>5 DEF TierTypes, ViewTypes

\* A turn of the controller keeps the invariant.
LEMMA TurnKeeps ==
  ASSUME TierInv, Turn, RemovalTurn, StageTurn, CountTurn, ViewTypes'
  PROVE  TierInv'
<1>1. LaneInv' /\ KeyBooks' /\ StackInv' /\ Registered' /\ LoadsHeld' /\ Newest(Settling)'
  BY TurnBooks
<1>2. Recent' /\ Unpreviewed' /\ TierTypes'
  BY TurnRecent, TurnPreviews, TurnTypes
<1>3. Generations' /\ Counted'
  BY TurnGenerations, TurnCounts DEF ViewTypes
<1> QED BY <1>1, <1>2, <1>3 DEF TierInv
-----------------------------------------------------------------------------
(* The manager's steps.                                                    *)

\* What the map keeps while the manager works.
MapStays ==
  /\ quality' = quality /\ active' = active /\ loaded' = loaded /\ staged' = staged
  /\ generation' = generation /\ builds' = builds /\ dataState' = dataState
  /\ params' = params /\ shown' = shown /\ removed' = removed

\* The views of the map, taken apart.
LEMMA MapUnchanged == viewVars' = viewVars => MapStays
BY DEF MapStays, viewVars, selectVars, mapVars, stageVars, busyVars, askVars

\* A queue that grows.
LEMMA Appended ==
  ASSUME NEW q \in Seq(OpId), NEW n \in OpId
  PROVE  /\ \A x : InQueue(x, Append(q, n)) <=> InQueue(x, q) \/ x = n
         /\ \A i \in 1..Len(Append(q, n)) :
              Append(q, n)[i] = n \/ \E j \in 1..Len(q) : Append(q, n)[i] = q[j]
<1>1. /\ Len(Append(q, n)) = Len(q) + 1 /\ Len(q) \in Nat /\ Append(q, n)[Len(q) + 1] = n
      /\ \A i \in 1..Len(q) : Append(q, n)[i] = q[i]
      /\ \A i \in 1..(Len(q) + 1) : i \in 1..Len(q) \/ i = Len(q) + 1
      /\ Len(q) + 1 \in 1..(Len(q) + 1) /\ 1..Len(q) \subseteq 1..(Len(q) + 1)
  OBVIOUS
<1>2. \A i \in 1..Len(Append(q, n)) :
        Append(q, n)[i] = n \/ \E j \in 1..Len(q) : Append(q, n)[i] = q[j]
  BY <1>1
<1>3. ASSUME NEW x PROVE InQueue(x, Append(q, n)) <=> InQueue(x, q) \/ x = n
  BY <1>1, <1>2 DEF InQueue
<1> QED BY <1>2, <1>3

\* What run does to the books, and to the frames below it.
LEMMA RunFacts ==
  ASSUME TierInv, RunNext
  PROVE  LET r == Top.request IN
         /\ r \in Request /\ nextId \in OpId /\ nextId \notin Asked /\ Asked' = Asked \cup {nextId}
         /\ op'[nextId] = r /\ \A o \in Asked : op'[o] = op[o] /\ o < nextId
         /\ finals' = finals /\ finals[nextId] = 0 /\ nextId' = nextId + 1
         /\ entries' = entries \cup {nextId} /\ launched \subseteq launched'
         /\ cancelled' = cancelled \cup Superseded(r)
         /\ Superseded(r) \subseteq entries /\ entries \subseteq Asked /\ cancelled \subseteq Asked
         /\ launched' \subseteq launched \cup {nextId}
         /\ Frames(calls) = {Top} \cup Frames(calls') /\ Stacked(calls')
         /\ \A f \in Frames(calls') : /\ Above(Top, f) /\ FrameOk(f)
                                      /\ f.call \notin {"pump", "settle"}
                                      /\ ~RunsLoad(f) /\ ~RunsLow(f)
         /\ \A l \in Lane : SweepsOf(l)' = SweepsOf(l)
<1> DEFINE r == Top.request
<1>1. calls # <<>> /\ Top.call = "run" /\ calls' = Tail(calls)
  BY DEF RunNext, In, Return
<1>2. /\ Top \in Frame /\ Frames(calls) = {Top} \cup Frames(calls') /\ Stacked(calls')
      /\ \A f \in Frames(calls') : Above(Top, f) /\ FrameOk(f)
  BY <1>1, TopOf DEF TierInv
<1>3. r \in Request
  BY <1>1, <1>2, FrameFields
<1>4. \A f \in Frames(calls') : f.call \notin {"pump", "settle"} /\ ~RunsLoad(f) /\ ~RunsLow(f)
  BY <1>1, <1>2 DEF Above
<1>5. \A l \in Lane : SweepsOf(l)' = SweepsOf(l)
  BY <1>1, <1>2 DEF SweepsOf
<1>6. /\ nextId \in OpId /\ nextId' = nextId + 1 /\ op' = [op EXCEPT ![nextId] = r]
      /\ finals' = finals /\ entries' = entries \cup {nextId} /\ launched \subseteq launched'
      /\ cancelled' = cancelled \cup Superseded(r) /\ launched' \subseteq launched \cup {nextId}
  BY OperationAssumption DEF RunNext, TierInv, LaneInv, LaneTypes, OpId, OperationAssumption
<1>7. /\ nextId \notin Asked /\ Asked' = Asked \cup {nextId} /\ \A o \in Asked : o < nextId
      /\ Asked \subseteq OpId
  BY <1>6 DEF Asked, OpId
<1>8. op'[nextId] = r /\ \A o \in Asked : op'[o] = op[o]
  BY <1>6, <1>7 DEF TierInv, LaneInv, LaneTypes
<1>9. finals[nextId] = 0 /\ cancelled \subseteq Asked /\ entries \subseteq Asked
  BY <1>6, <1>7 DEF TierInv, TierTypes, KeyBooks
<1>10. Superseded(r) \subseteq entries
  BY DEF Superseded
<1> QED BY <1>2, <1>3, <1>4, <1>5, <1>6, <1>7, <1>8, <1>9, <1>10

\* A queue when run puts its operation there.
LEMMA RunQueues ==
  ASSUME TierInv, RunNext, NEW l \in Lane
  PROVE  /\ \A x : InQueue(x, waiting[l]) => InQueue(x, waiting'[l])
         /\ \A i \in 1..Len(waiting'[l]) :
              waiting'[l][i] = nextId \/ \E j \in 1..Len(waiting[l]) : waiting'[l][i] = waiting[l][j]
         /\ nextId \in launched' \/ \E k \in Lane : InQueue(nextId, waiting'[k])
<1> DEFINE r == Top.request
<1>1. waiting \in [Lane -> Seq(OpId)] /\ nextId \in OpId
  BY RunFacts DEF TierInv, LaneInv, LaneTypes
<1>2. CASE Waits(r)
  <2>1. waiting' = [waiting EXCEPT ![r.lane] = Append(@, nextId)] /\ r.lane \in Lane
    BY <1>2 DEF RunNext, Waits
  <2>2. waiting'[r.lane] = Append(waiting[r.lane], nextId) /\ waiting[r.lane] \in Seq(OpId)
    BY <1>1, <2>1
  <2>3. l # r.lane => waiting'[l] = waiting[l]
    BY <1>1, <2>1
  <2>4. InQueue(nextId, waiting'[r.lane])
    BY <1>1, <2>2, Appended
  <2>5. CASE l = r.lane
    BY <1>1, <2>1, <2>2, <2>4, <2>5, Appended
  <2>6. CASE l # r.lane
    BY <2>1, <2>3, <2>4, <2>6
  <2> QED BY <2>5, <2>6
<1>3. CASE ~Waits(r)
  BY <1>3 DEF RunNext
<1> QED BY <1>2, <1>3

\* run adds an operation that is newer than all, and asks no more of the map.
LEMMA RunKeepsTiers ==
  ASSUME TierInv, RunNext, MapStays
  PROVE  TierInv'
<1> DEFINE r == Top.request
<1>1. /\ r \in Request /\ nextId \in OpId /\ nextId \notin Asked /\ Asked' = Asked \cup {nextId}
      /\ op'[nextId] = r /\ \A o \in Asked : op'[o] = op[o] /\ o < nextId
      /\ finals' = finals /\ finals[nextId] = 0 /\ nextId' = nextId + 1
      /\ entries' = entries \cup {nextId} /\ launched \subseteq launched'
      /\ cancelled' = cancelled \cup Superseded(r)
      /\ Superseded(r) \subseteq entries /\ entries \subseteq Asked /\ cancelled \subseteq Asked
      /\ launched' \subseteq launched \cup {nextId}
  BY RunFacts
<1>2. /\ Frames(calls) = {Top} \cup Frames(calls') /\ Stacked(calls')
      /\ \A f \in Frames(calls') : /\ Above(Top, f) /\ FrameOk(f)
                                   /\ f.call \notin {"pump", "settle"}
                                   /\ ~RunsLoad(f) /\ ~RunsLow(f)
      /\ \A l \in Lane : SweepsOf(l)' = SweepsOf(l)
  BY RunFacts
<1>3. /\ \A l \in Lane : \A x : InQueue(x, waiting[l]) => InQueue(x, waiting'[l])
      /\ \A l \in Lane : \A i \in 1..Len(waiting'[l]) :
           waiting'[l][i] = nextId \/ \E j \in 1..Len(waiting[l]) : waiting'[l][i] = waiting[l][j]
      /\ nextId \in launched' \/ \E k \in Lane : InQueue(nextId, waiting'[k])
  <2>1. \E l : l \in Lane
    BY TiersAssumption DEF TiersAssumption
  <2> QED BY <2>1, RunQueues
<1>4. LaneInv' /\ KeyBooks'
  BY RunKeeps, KeyRun DEF TierInv, LaneInv
<1>5. TierTypes /\ StackInv /\ KeyBooks /\ LaneInv
  BY DEF TierInv
<1>6. nextId \in Nat
  BY <1>1 DEF OpId
<1>7. \A l \in Lane : \A i \in 1..Len(waiting[l]) : waiting[l][i] \in Asked
  BY <1>5 DEF LaneInv, QueuesApart, Asked
<1>8. TierTypes'
  <2>1. \A o \in Asked' : op'[o] \in Request
    BY <1>1, <1>5 DEF TierTypes
  <2>2. finals' \in [OpId -> Nat] /\ \A o \in OpId \ Asked' : finals'[o] = 0
    BY <1>1, <1>5 DEF TierTypes
  <2>3. cancelled' \subseteq Asked'
    BY <1>1
  <2>4. \A a \in Layer : removed'[a] <= nextId'
    BY <1>1, <1>5, <1>6 DEF TierTypes, MapStays
  <2> QED BY <1>5, <2>1, <2>2, <2>3, <2>4 DEF TierTypes, MapStays
<1>9. StackInv'
  <2>1. ASSUME NEW f \in Frames(calls') PROVE FrameOk(f)'
    <3>1. f \in Frame /\ FrameOk(f)
      BY <1>2, <1>5, FramesAre
    <3>2. f.call \in {"settle", "finally", "complete"} => f.op \in Asked' /\ op'[f.op] = op[f.op]
      BY <1>1, <3>1 DEF FrameOk
    <3>3. f.call = "sweep" => /\ \A i \in 1..Len(f.todo) : InQueue(f.todo[i], waiting'[f.lane])
                              /\ f.lane \notin f.lanes
      BY <1>3, <3>1, FrameFields DEF FrameOk
    <3> QED BY <3>1, <3>2, <3>3 DEF FrameOk
  <2> QED BY <1>2, <2>1 DEF StackInv
<1>10. Registered'
  <2>1. ASSUME NEW l \in Lane, SweepsOf(l)' = {}, NEW i \in 1..Len(waiting'[l])
        PROVE  waiting'[l][i] \in entries'
    BY <1>1, <1>2, <1>3, <2>1 DEF TierInv, Registered
  <2> QED BY <1>1, <2>1 DEF TierInv, Registered
<1>11. \A o \in Asked : IsRecent(o) => IsRecent(o)'
  BY <1>1 DEF IsRecent, MapStays
<1>12. ASSUME NEW n, n = nextId PROVE IsRecent(n)'
  <2>1. op'[n] = r /\ n \in Nat
    BY <1>1, <1>6, <1>12
  <2>2. ASSUME r.kind \in Building PROVE removed'[r.layer] <= n /\ removed'[r.layer] \in Nat
    <3>1. r.layer \in Layer
      BY <1>1, <2>2, RequestFields DEF Building
    <3> QED BY <1>5, <1>12, <3>1 DEF TierTypes, MapStays
  <2> QED BY <2>1, <2>2 DEF IsRecent
<1>13. Recent'
  <2> USE DEF TierInv, Recent
  <2>1. ASSUME NEW o \in launched' \ cancelled' PROVE IsRecent(o)'
    BY <1>1, <1>11, <1>12 DEF Registered
  <2>2. ASSUME NEW l \in Lane, NEW i \in 1..Len(waiting'[l]), NEW o, o = waiting'[l][i],
               o \notin cancelled'
        PROVE  IsRecent(o)'
    BY <1>1, <1>3, <1>7, <1>11, <1>12, <2>2
  <2>3. ASSUME NEW l \in Lane, NEW i \in 1..Len(waiting'[l]), waiting'[l][i] \notin cancelled'
        PROVE  IsRecent(waiting[l][i])'
    <3>1. PICK o : o = waiting'[l][i]
      OBVIOUS
    <3>2. IsRecent(o)'
      BY <2>2, <2>3, <3>1
    <3> QED BY <3>1, <3>2 DEF IsRecent
  <2>4. ASSUME NEW f \in Frames(calls'), f.call = "complete" PROVE IsRecent(f.op)'
    BY <1>2, <1>11, <2>4 DEF FrameOk
  <2> QED BY <1>2, <2>1, <2>3, <2>4
<1>14. Top.call = "run" /\ calls # <<>>
  BY DEF RunNext, In
<1>15. LoadsHeld'
  <2>1. ASSUME NEW o \in OpenLoads' PROVE Held(o)'
    <3>1. CASE o = nextId
      <4>1. RunsLoad(Top)
        BY <1>1, <1>14, <2>1, <3>1 DEF OpenLoads, RunsLoad
      <4>2. \A l \in Lane : SweepsOf(l)' = {}
        BY <1>2, <4>1 DEF Above, SweepsOf
      <4> QED BY <1>3, <3>1, <4>2 DEF Held
    <3>2. CASE o # nextId
      <4>1. o \in OpenLoads
        BY <1>1, <2>1, <3>2 DEF OpenLoads
      <4>2. Held(o)
        BY <4>1 DEF TierInv, LoadsHeld
      <4> QED BY <1>1, <1>2, <1>3, <1>14, <4>2 DEF Held
    <3> QED BY <3>1, <3>2
  <2> QED BY <2>1 DEF LoadsHeld
<1>16. Counted'
  <2>1. TopLoad' = 0
    <3>1. calls' # <<>> => Head(calls') \in Frames(calls')
      BY <1>2, Peel
    <3> QED BY <1>2, <3>1 DEF TopLoad
  <2>2. builds' <= Cardinality(OpenLoads') + 0 /\ (dataState' = "Loading" => builds' > 0)
    <3>1. /\ builds' = builds /\ dataState' = dataState /\ builds \in Nat
          /\ builds <= Cardinality(OpenLoads) + TopLoad /\ (dataState = "Loading" => builds > 0)
      BY DEF TierInv, TierTypes, Counted, MapStays
    <3>2. IsFiniteSet(OpenLoads) /\ Cardinality(OpenLoads) \in Nat
      BY OpenFinite
    <3>3. CASE r.kind = "load"
      <4>1. TopLoad = 1
        BY <1>14, <3>3 DEF TopLoad, RunsLoad, Top
      <4>2. OpenLoads' = OpenLoads \cup {nextId} /\ nextId \notin OpenLoads
        BY <1>1, <3>3 DEF OpenLoads
      <4>3. Cardinality(OpenLoads') = Cardinality(OpenLoads) + 1
        BY <3>2, <4>2, FS_AddElement
      <4> QED BY <3>1, <3>2, <4>1, <4>3
    <3>4. CASE r.kind # "load"
      <4>1. TopLoad = 0
        BY <1>14, <3>4 DEF TopLoad, RunsLoad, Top
      <4>2. OpenLoads' = OpenLoads
        BY <1>1, <3>4 DEF OpenLoads
      <4> QED BY <3>1, <3>2, <4>1, <4>2
    <3> QED BY <3>3, <3>4
  <2> QED BY <2>1, <2>2 DEF Counted
<1>17. Generations'
  <2>1. Generations
    BY DEF TierInv
  <2>2. \A o \in Asked' : op'[o].kind = "tier" => op'[o].generation < generation
    BY <1>1, <1>2, <1>14, <2>1 DEF Generations, RunsTier
  <2> QED BY <1>2, <2>1, <2>2 DEF Generations, MapStays
<1>18. Unpreviewed'
  <2>1. Unpreviewed
    BY DEF TierInv
  <2>2. \A o \in Asked : AsPreview(o)' => AsPreview(o)
    BY <1>1 DEF AsPreview, IsPreview, OfStage, IsStaged, MapStays
  <2>3. \A l \in Lane : ToSweep(l) => ToSweep(l)'
    BY <1>2, <1>14 DEF ToSweep
  <2>4. ASSUME NEW o \in Superseded(r) PROVE ~AsPreview(o)
    <3>1. r.key \in Key /\ o = keyed[r.key] /\ o \in entries /\ o \in Asked
      BY <1>1, <2>4 DEF Superseded
    <3>2. op[o].key = r.key /\ op[o] \in Request
      <4>1. o # NoOp
        BY <3>1 DEF Asked, OpId, NoOp
      <4> QED BY <1>5, <3>1, <4>1 DEF KeyBooks, TierTypes
    <3>3. ASSUME op[o].kind = "tier", op[o].quality = Low
          PROVE  r.kind = "tier" /\ r.quality = Low /\ r.layer = op[o].layer
      <4>1. r.key = TierKey(op[o].layer, Low)
        BY <3>2, <3>3, RequestFields
      <4>2. PICK a : a = op[o].layer /\ r.key = TierKey(a, Low)
        BY <4>1
      <4>3. /\ \A b : TierKey(a, Low) # LoadKey(b)
            /\ TierKey(a, Low) # RasterKey /\ \A b, q : TierKey(a, Low) # WriteKey(b, q)
        BY KeysApart
      <4>4. r.kind = "tier"
        BY <1>1, <4>2, <4>3, RequestFields
      <4>5. TierKey(r.layer, r.quality) = TierKey(a, Low)
        BY <1>1, <4>2, <4>4, RequestFields
      <4> QED BY <4>2, <4>4, <4>5, KeysApart
    <3>4. RunsLow(Top) /\ AsPreview(o) => op[o].layer # r.layer
      BY <1>2, <2>1, <3>1 DEF Unpreviewed
    <3> QED BY <1>14, <3>3, <3>4 DEF AsPreview, IsPreview, RunsLow, RunsTier
  <2>5. ASSUME NEW l \in Lane, NEW i \in 1..Len(waiting'[l]), NEW o, o = waiting'[l][i],
               o \in cancelled', AsPreview(o)'
        PROVE  ToSweep(l)'
    <3>1. o \in Asked
      BY <1>1, <2>5
    <3>2. PICK j \in 1..Len(waiting[l]) : o = waiting[l][j]
      BY <1>1, <1>3, <2>5, <3>1
    <3>3. AsPreview(o) /\ o \in cancelled
      BY <1>1, <2>2, <2>4, <2>5, <3>1
    <3> QED BY <2>1, <2>3, <3>2, <3>3 DEF Unpreviewed
  <2>6. ASSUME NEW l \in Lane, NEW i \in 1..Len(waiting'[l]), waiting'[l][i] \in cancelled',
               AsPreview(waiting[l][i])'
        PROVE  ToSweep(l)'
    <3>1. PICK o : o = waiting'[l][i]
      OBVIOUS
    <3>2. AsPreview(o)'
      BY <2>6, <3>1 DEF AsPreview
    <3> QED BY <2>5, <2>6, <3>1, <3>2
  <2> QED BY <1>2, <2>6 DEF Unpreviewed
<1>19. Newest(Settling)'
  <2>1. Settling' = {}
    BY <1>2 DEF Settling, SettlingIn, Frames
  <2> QED BY <2>1 DEF Newest
<1> QED BY <1>4, <1>8, <1>9, <1>10, <1>13, <1>15, <1>16, <1>17, <1>18, <1>19 DEF TierInv

\* A step of the manager other than run asks for nothing and moves no operation from lane
\* to lane, so of the frames, the queues and the pool only a little has to be shown.
QuietStep ==
  /\ ~In("run")
  /\ nextId' = nextId /\ op' = op /\ finals' = finals
  /\ cancelled \subseteq cancelled' /\ cancelled' \subseteq cancelled \cup entries
  /\ \A o \in launched' : o \in launched \/ \E l \in Lane : InQueue(o, waiting[l])
  /\ \A l \in Lane : \A i \in 1..Len(waiting'[l]) : InQueue(waiting'[l][i], waiting[l])
  /\ \A f \in Frames(calls') : /\ f.call \in {"run", "complete"} => f \in Frames(calls)
                               /\ f.call = "settle" => f \in Frames(calls) \/ f.op \in launched
  /\ \A l \in Lane : (ToSweep(l) \/ cancelled' # cancelled) /\ waiting'[l] # <<>> => ToSweep(l)'

\* A quiet step keeps what is said of the map.
LEMMA QuietKeeps ==
  ASSUME TierInv, MapStays, QuietStep,
         LaneInv', KeyBooks', StackInv', Registered', LoadsHeld',
         (In("finally") /\ \E f \in Frames(calls) : f.call \in {"pump", "settle"})' =>
           ~AsPreview(Top.op)'
  PROVE  TierInv'
<1> USE DEF QuietStep
<1>1. TierTypes /\ StackInv /\ KeyBooks /\ LaneInv /\ Asked' = Asked
  BY DEF TierInv, Asked
<1>2. TierTypes'
  BY <1>1 DEF TierTypes, MapStays, KeyBooks
<1>3. \A o : IsRecent(o)' <=> IsRecent(o)
  BY DEF IsRecent, MapStays
<1>4. \A o : o \notin cancelled /\ (o \in launched \/ \E l \in Lane : InQueue(o, waiting[l])) => IsRecent(o)
  <2>1. ASSUME NEW l \in Lane, NEW o, InQueue(o, waiting[l]), o \notin cancelled PROVE IsRecent(o)
    <3>1. PICK i \in 1..Len(waiting[l]) : waiting[l][i] = o
      BY <2>1 DEF InQueue
    <3> QED BY <2>1, <3>1 DEF TierInv, Recent
  <2> QED BY <2>1 DEF TierInv, Recent
<1>5. Recent'
  <2>1. ASSUME NEW o \in launched' \ cancelled' PROVE IsRecent(o)'
    BY <1>3, <1>4
  <2>2. ASSUME NEW l \in Lane, NEW i \in 1..Len(waiting'[l]), waiting'[l][i] \notin cancelled'
        PROVE  IsRecent(waiting[l][i])'
    <3>1. PICK o : o = waiting'[l][i]
      OBVIOUS
    <3>2. InQueue(o, waiting[l])
      BY <3>1
    <3>3. o \notin cancelled
      BY <2>2, <3>1
    <3>4. IsRecent(o)'
      BY <1>3, <1>4, <3>2, <3>3
    <3> QED BY <3>1, <3>4 DEF IsRecent
  <2>3. ASSUME NEW f \in Frames(calls'), f.call = "settle", f.op \notin cancelled'
        PROVE  IsRecent(f.op)'
    BY <1>3, <1>4, <2>3 DEF TierInv, Recent
  <2>4. ASSUME NEW f \in Frames(calls'), f.call = "complete" PROVE IsRecent(f.op)'
    BY <1>3, <2>4 DEF TierInv, Recent
  <2> QED BY <2>1, <2>2, <2>3, <2>4 DEF Recent
<1>6. Counted'
  <2>1. OpenLoads' = OpenLoads /\ TopLoad = 0 /\ TopLoad' \in {0, 1}
    BY <1>1 DEF OpenLoads, TopLoad, RunsLoad, In, Top
  <2>2. /\ builds' = builds /\ dataState' = dataState /\ builds \in Nat
        /\ builds <= Cardinality(OpenLoads) + TopLoad /\ (dataState = "Loading" => builds > 0)
    BY DEF TierInv, TierTypes, Counted, MapStays
  <2>3. \A x, n \in Nat, t \in {0, 1} : x <= n + 0 => x <= n + t
    OBVIOUS
  <2>4. builds' <= Cardinality(OpenLoads') + TopLoad'
    BY <2>1, <2>2, <2>3, OpenFinite
  <2> QED BY <2>2, <2>4 DEF Counted
<1>7. Generations'
  BY <1>1 DEF TierInv, Generations, MapStays, RunsTier
<1>8. Newest(Settling)'
  <2>1. ASSUME NEW o \in Settling' PROVE o \in Settling \/ o \in entries
    <3>1. PICK f \in Frames(calls') : f.call = "settle" /\ f.op = o
      BY <2>1 DEF Settling, SettlingIn, Frames
    <3> QED BY <2>1, <3>1 DEF Settling, SettlingIn, Frames, TierInv, Registered
  <2>2. Newest(Settling) /\ Newest(entries)
    BY DEF TierInv, KeyBooks
  <2> QED BY <1>1, <2>1, <2>2 DEF Newest
<1>9. Unpreviewed'
  <2>1. Unpreviewed
    BY DEF TierInv
  <2>2. \A o : AsPreview(o)' <=> AsPreview(o)
    BY DEF AsPreview, IsPreview, OfStage, IsStaged, MapStays
  <2>3. ASSUME NEW l \in Lane, NEW i \in 1..Len(waiting'[l]), waiting'[l][i] \in cancelled',
               AsPreview(waiting[l][i])'
        PROVE  ToSweep(l)'
    <3>1. PICK o : o = waiting'[l][i]
      OBVIOUS
    <3>2. AsPreview(o)' /\ InQueue(o, waiting[l])
      BY <2>3, <3>1 DEF AsPreview
    <3>3. PICK j \in 1..Len(waiting[l]) : waiting[l][j] = o
      BY <3>2 DEF InQueue
    <3>4. waiting'[l] # <<>>
      <4>1. Len(<<>>) = 0
        OBVIOUS
      <4> QED BY <2>3, <4>1
    <3>5. CASE cancelled' = cancelled
      BY <2>1, <2>2, <2>3, <3>1, <3>2, <3>3, <3>4, <3>5 DEF Unpreviewed
    <3>6. CASE cancelled' # cancelled
      BY <3>4, <3>6
    <3> QED BY <3>5, <3>6
  <2>4. \A f \in Frames(calls') : RunsLow(f) =>
          \A o \in Asked' : AsPreview(o)' => op'[o].layer # f.request.layer
    BY <1>1, <2>1, <2>2 DEF Unpreviewed, RunsLow, RunsTier
  <2> QED BY <2>3, <2>4 DEF Unpreviewed
<1> QED BY <1>2, <1>5, <1>6, <1>7, <1>8, <1>9 DEF TierInv

\* Nothing is in two queues, or in a queue and on the pool.
LEMMA QueuedOnce ==
  ASSUME LaneInv, NEW k \in Lane, NEW l \in Lane, NEW o, InQueue(o, waiting[k])
  PROVE  /\ o \in Asked /\ o \notin launched
         /\ InQueue(o, waiting[l]) => k = l
<1>1. PICK i \in 1..Len(waiting[k]) : waiting[k][i] = o
  BY DEF InQueue
<1>2. o \in Asked /\ o \notin launched /\ op[o].lane = k
  BY <1>1 DEF LaneInv, QueuesApart, Asked
<1>3. ASSUME NEW j \in 1..Len(waiting[l]), waiting[l][j] = o PROVE op[o].lane = l
  BY <1>3 DEF LaneInv, QueuesApart
<1> QED BY <1>2, <1>3 DEF InQueue

\* A finished handler that finds its operation cancelled.
LEMMA SettleCancelledKeeps ==
  ASSUME TierInv, SettleCancelled, MapStays
  PROVE  TierInv'
<1>1. /\ In("settle") /\ calls # <<>> /\ Top.call = "settle"
      /\ calls' = <<FinallyCall(Top.op)>> \o Tail(calls) /\ Rest = Tail(calls)
      /\ nextId' = nextId /\ op' = op /\ entries' = entries /\ keyed' = keyed
      /\ cancelled' = cancelled /\ running' = running /\ waiting' = waiting
      /\ launched' = launched /\ finals' = finals
  BY DEF SettleCancelled, Become, In, Rest
<1>2. /\ StackInv /\ Top \in Frame /\ FrameOk(Top) /\ Stacked(Tail(calls))
      /\ \A y \in Frames(Tail(calls)) : Above(Top, y)
  BY <1>1, TopOf DEF TierInv
<1>3. FinallyCall(Top.op) \in Frame /\ FinallyCall(Top.op).call = "finally"
      /\ FinallyCall(Top.op).op = Top.op
  BY <1>1, <1>2, FrameFields, FramesMade, CallNames
<1>4. /\ Stacked(calls') /\ Frames(calls') = {FinallyCall(Top.op)} \cup Frames(Rest)
  <2>1. \A y \in Frames(Tail(calls)) : Above(FinallyCall(Top.op), y)
    BY <1>1, <1>2, <1>3 DEF Above, Outer, RunsLoad, RunsLow, RunsTier
  <2> QED BY <1>1, <1>2, <1>3, <2>1, Pile
<1>5. Turn
  BY <1>1, <1>3, <1>4 DEF Turn, In
<1>6. RemovalTurn
  BY DEF RemovalTurn, MapStays
<1>7. StageTurn
  BY <1>1, <1>3, <1>4 DEF StageTurn, MapStays, RunsTier
<1>8. CountTurn
  <2>1. TopLoad' = 0
    <3>1. Head(calls') = FinallyCall(Top.op)
      BY <1>1, <1>3
    <3> QED BY <1>3, <3>1 DEF TopLoad, RunsLoad
  <2>2. builds \in Nat /\ builds' = builds /\ dataState' = dataState
        /\ (dataState = "Loading" => builds > 0)
    BY DEF TierInv, TierTypes, Counted, MapStays
  <2> QED BY <1>1, <2>1, <2>2 DEF CountTurn, In
<1>9. ViewTypes'
  BY <1>1 DEF TierInv, TierTypes, ViewTypes, MapStays
<1> QED BY <1>5, <1>6, <1>7, <1>8, <1>9, TurnKeeps

\* What is below a pump: finished handlers, and calls that make none.
LEMMA UnderPump ==
  ASSUME StackInv, In("pump")
  PROVE  /\ calls # <<>> /\ Top.call = "pump" /\ Top \in Frame /\ Stacked(Tail(calls))
         /\ Frames(calls) = {Top} \cup Frames(Tail(calls))
         /\ \A y \in Frames(Tail(calls)) : Above(Top, y)
         /\ \A y \in Frames(calls) : y.call \notin {"sweep", "finally", "run"} /\ ~RunsLoad(y) /\ ~RunsLow(y)
         /\ \A l \in Lane : SweepsOf(l) = {} /\ ~ToSweep(l)
<1>1. calls # <<>> /\ Top.call = "pump"
  BY DEF In
<1>2. /\ Top \in Frame /\ Stacked(Tail(calls)) /\ Frames(calls) = {Top} \cup Frames(Tail(calls))
      /\ \A y \in Frames(Tail(calls)) : Above(Top, y)
  BY <1>1, TopOf
<1>3. \A y \in Frames(calls) : y.call \notin {"sweep", "finally", "run"} /\ ~RunsLoad(y) /\ ~RunsLow(y)
  BY <1>1, <1>2 DEF Above, RunsLoad, RunsLow, RunsTier
<1>4. \A l \in Lane : SweepsOf(l) = {} /\ ~ToSweep(l)
  BY <1>3 DEF SweepsOf, ToSweep
<1> QED BY <1>1, <1>2, <1>3, <1>4

\* A stack of frames that are all right.
LEMMA StackOk ==
  ASSUME TierInv, nextId' = nextId, op' = op, Stacked(calls'),
         \A f \in Frames(calls') :
           \/ f \in Frames(calls) /\ f.call # "sweep"
           \/ f.call \in {"settle", "finally"} /\ f.op \in Asked
           \/ f.call = "sweep" /\ FrameOk(f)'
           \/ f.call \in {"pump", "cancelAll"}
  PROVE  StackInv'
<1>1. ASSUME NEW f \in Frames(calls') PROVE FrameOk(f)'
  <2>1. Asked' = Asked
    BY DEF Asked
  <2>2. f \in Frames(calls) => FrameOk(f)
    BY DEF TierInv, StackInv
  <2> QED BY <2>1, <2>2 DEF FrameOk
<1> QED BY <1>1 DEF StackInv

\* pumpLane takes the head of a queue.
LEMMA PumpHead ==
  ASSUME TierInv, NEW l \in Lane, CanPump(l), NEW o, o = Head(waiting[l]),
         waiting' = [waiting EXCEPT ![l] = Tail(@)]
  PROVE  /\ In("pump") /\ Top = PumpCall(l) /\ InQueue(o, waiting[l])
         /\ o \in Asked \cap OpId /\ o \in entries /\ o \notin launched
         /\ \A k \in Lane : \A x : InQueue(x, waiting'[k]) <=> InQueue(x, waiting[k]) /\ x # o
         /\ \A k \in Lane : \A i \in 1..Len(waiting'[k]) : InQueue(waiting'[k][i], waiting'[k])
<1>1. In("pump") /\ Top = PumpCall(l) /\ waiting[l] # <<>>
  BY CallNames DEF CanPump, In
<1>2. LaneInv /\ StackInv /\ Registered /\ waiting \in [Lane -> Seq(OpId)]
  BY DEF TierInv, LaneInv, LaneTypes
<1>3. /\ o \in OpId /\ InQueue(o, waiting[l])
      /\ \A x : InQueue(x, Tail(waiting[l])) <=> InQueue(x, waiting[l]) /\ x # o
  <2>1. \A i, j \in 1..Len(waiting[l]) : waiting[l][i] = waiting[l][j] => i = j
    BY <1>2 DEF LaneInv, QueuesApart
  <2> QED BY <1>1, <1>2, <2>1, TailQueue
<1>4. o \in Asked /\ o \notin launched
  BY <1>2, <1>3, QueuedOnce
<1>5. o \in entries
  <2>1. SweepsOf(l) = {}
    BY <1>1, <1>2, UnderPump
  <2>2. PICK i \in 1..Len(waiting[l]) : waiting[l][i] = o
    BY <1>3 DEF InQueue
  <2> QED BY <1>2, <2>1, <2>2 DEF Registered
<1>6. ASSUME NEW k \in Lane, NEW x
      PROVE  InQueue(x, waiting'[k]) <=> InQueue(x, waiting[k]) /\ x # o
  <2>1. CASE k = l
    BY <1>2, <1>3, <2>1
  <2>2. CASE k # l
    <3>1. waiting'[k] = waiting[k]
      BY <1>2, <2>2
    <3>2. ~InQueue(o, waiting[k])
      BY <1>2, <1>3, <2>2, QueuedOnce
    <3> QED BY <3>1, <3>2
  <2> QED BY <2>1, <2>2
<1>7. \A k \in Lane : \A i \in 1..Len(waiting'[k]) : InQueue(waiting'[k][i], waiting'[k])
  BY DEF InQueue
<1> QED BY <1>1, <1>3, <1>4, <1>5, <1>6, <1>7

\* pumpLane drops a cancelled head; it is no preview that is waited for.
LEMMA DropKeepsTiers ==
  ASSUME TierInv, NEW l \in Lane, PumpDrop(l), MapStays
  PROVE  TierInv'
<1>1. PICK o : o = Head(waiting[l])
  OBVIOUS
<1>2. /\ CanPump(l) /\ o \in cancelled /\ waiting' = [waiting EXCEPT ![l] = Tail(@)]
      /\ entries' = entries \ {o} /\ calls' = <<FinallyCall(o)>> \o calls
      /\ nextId' = nextId /\ op' = op /\ cancelled' = cancelled /\ running' = running
      /\ launched' = launched /\ finals' = finals
  BY <1>1 DEF PumpDrop, Push
<1>3. /\ In("pump") /\ Top = PumpCall(l) /\ InQueue(o, waiting[l])
      /\ o \in Asked /\ o \in OpId /\ o \notin launched
      /\ \A k \in Lane : \A x : InQueue(x, waiting'[k]) <=> InQueue(x, waiting[k]) /\ x # o
      /\ \A k \in Lane : \A i \in 1..Len(waiting'[k]) : InQueue(waiting'[k][i], waiting'[k])
  BY <1>1, <1>2, PumpHead
<1>4. StackInv /\ Stacked(calls) /\ LaneInv /\ KeyBooks
  BY DEF TierInv, StackInv
<1>5. /\ Top.call = "pump"
      /\ \A y \in Frames(calls) : y.call \notin {"sweep", "finally", "run"} /\ ~RunsLoad(y) /\ ~RunsLow(y)
      /\ \A k \in Lane : SweepsOf(k) = {} /\ ~ToSweep(k)
  BY <1>3, <1>4, UnderPump
<1>6. FinallyCall(o) \in Frame /\ FinallyCall(o).call = "finally" /\ FinallyCall(o).op = o
  BY <1>3, FramesMade, CallNames
<1>7. /\ Stacked(calls') /\ Frames(calls') = {FinallyCall(o)} \cup Frames(calls)
      /\ calls' # <<>> /\ Top' = FinallyCall(o)
  <2>1. \A y \in Frames(calls) : Above(FinallyCall(o), y)
    BY <1>5, <1>6 DEF Above, Outer
  <2> QED BY <1>2, <1>4, <1>6, <2>1, Pile DEF Top
<1>8. LaneInv' /\ KeyBooks'
  BY <1>4, ManagerKeeps, KeyManager DEF ManagerStep, LaneInv
<1>9. StackInv'
  BY <1>2, <1>3, <1>5, <1>6, <1>7, StackOk
<1>10. \A k \in Lane : SweepsOf(k)' = {}
  BY <1>5, <1>6, <1>7 DEF SweepsOf
<1>11. Registered'
  <2>1. ASSUME NEW k \in Lane, NEW i \in 1..Len(waiting'[k]) PROVE waiting'[k][i] \in entries'
    <3>1. PICK x : x = waiting'[k][i]
      OBVIOUS
    <3>2. InQueue(x, waiting[k]) /\ x # o
      BY <1>3, <3>1
    <3>3. PICK j \in 1..Len(waiting[k]) : waiting[k][j] = x
      BY <3>2 DEF InQueue
    <3> QED BY <1>2, <1>5, <3>1, <3>2, <3>3 DEF TierInv, Registered
  <2> QED BY <1>2, <1>3, <2>1 DEF TierInv, Registered
<1>12. LoadsHeld'
  <2>1. OpenLoads' = OpenLoads
    BY <1>2 DEF OpenLoads, Asked
  <2>2. ASSUME NEW x \in OpenLoads PROVE Held(x)'
    <3>1. Held(x)
      BY <2>2 DEF TierInv, LoadsHeld
    <3>2. CASE x = o
      BY <1>6, <1>7, <3>2 DEF Held
    <3>3. CASE x # o
      BY <1>2, <1>3, <1>7, <1>10, <3>1, <3>3 DEF Held
    <3> QED BY <3>2, <3>3
  <2> QED BY <2>1, <2>2 DEF LoadsHeld
<1>13. QuietStep
  <2>1. ~In("run")
    BY <1>5 DEF In
  <2> QED BY <1>2, <1>3, <1>5, <1>6, <1>7, <2>1 DEF QuietStep
<1>14. ~AsPreview(Top.op)'
  <2>1. ~AsPreview(o)
    <3>1. PICK i \in 1..Len(waiting[l]) : waiting[l][i] = o
      BY <1>3 DEF InQueue
    <3> QED BY <1>2, <1>5, <3>1 DEF TierInv, Unpreviewed
  <2>2. Top'.op = o
    BY <1>6, <1>7
  <2>3. staged' = staged /\ op' = op
    BY <1>2 DEF MapStays
  <2> QED BY <2>1, <2>2, <2>3 DEF AsPreview, IsPreview, OfStage, IsStaged
<1> QED BY <1>8, <1>9, <1>11, <1>12, <1>13, <1>14, QuietKeeps

\* pumpLane starts the head.
LEMMA StartKeepsTiers ==
  ASSUME TierInv, NEW l \in Lane, PumpStart(l), MapStays
  PROVE  TierInv'
<1>1. PICK o : o = Head(waiting[l])
  OBVIOUS
<1>2. /\ CanPump(l) /\ waiting' = [waiting EXCEPT ![l] = Tail(@)]
      /\ launched' = launched \cup {o} /\ entries' = entries /\ calls' = calls
      /\ nextId' = nextId /\ op' = op /\ cancelled' = cancelled /\ finals' = finals
  BY <1>1 DEF PumpStart
<1>3. /\ In("pump") /\ InQueue(o, waiting[l]) /\ o \in entries
      /\ \A k \in Lane : \A x : InQueue(x, waiting'[k]) <=> InQueue(x, waiting[k]) /\ x # o
      /\ \A k \in Lane : \A i \in 1..Len(waiting'[k]) : InQueue(waiting'[k][i], waiting'[k])
  BY <1>1, <1>2, PumpHead
<1>4. StackInv /\ Stacked(calls) /\ LaneInv /\ KeyBooks
  BY DEF TierInv, StackInv
<1>5. /\ Top.call = "pump"
      /\ \A y \in Frames(calls) : y.call \notin {"sweep", "finally"}
      /\ \A k \in Lane : SweepsOf(k) = {} /\ ~ToSweep(k)
  BY <1>3, <1>4, UnderPump
<1>6. LaneInv' /\ KeyBooks'
  BY <1>4, ManagerKeeps, KeyManager DEF ManagerStep, LaneInv
<1>7. StackInv'
  BY <1>2, <1>4, <1>5, StackOk
<1>8. \A k \in Lane : SweepsOf(k)' = {}
  BY <1>2, <1>5 DEF SweepsOf
<1>9. Registered'
  <2>1. ASSUME NEW k \in Lane, NEW i \in 1..Len(waiting'[k]) PROVE waiting'[k][i] \in entries'
    <3>1. PICK x : x = waiting'[k][i]
      OBVIOUS
    <3>2. InQueue(x, waiting[k])
      BY <1>3, <3>1
    <3>3. PICK j \in 1..Len(waiting[k]) : waiting[k][j] = x
      BY <3>2 DEF InQueue
    <3> QED BY <1>2, <1>5, <3>1, <3>3 DEF TierInv, Registered
  <2> QED BY <1>2, <1>3, <2>1 DEF TierInv, Registered
<1>10. LoadsHeld'
  <2>1. OpenLoads' = OpenLoads
    BY <1>2 DEF OpenLoads, Asked
  <2>2. ASSUME NEW x \in OpenLoads PROVE Held(x)'
    <3>1. Held(x)
      BY <2>2 DEF TierInv, LoadsHeld
    <3> QED BY <1>2, <1>3, <1>8, <3>1 DEF Held
  <2> QED BY <2>1, <2>2 DEF LoadsHeld
<1>11. QuietStep
  <2>1. ~In("run")
    BY <1>5 DEF In
  <2> QED BY <1>2, <1>3, <1>5, <2>1 DEF QuietStep
<1>12. ~In("finally")'
  BY <1>2, <1>5 DEF In, Top
<1> QED BY <1>6, <1>7, <1>9, <1>10, <1>11, <1>12, QuietKeeps

\* pumpLane ends.
LEMMA PumpDoneKeepsTiers ==
  ASSUME TierInv, PumpDone, MapStays
  PROVE  TierInv'
<1>1. /\ In("pump") /\ calls' = Tail(calls)
      /\ nextId' = nextId /\ op' = op /\ entries' = entries /\ cancelled' = cancelled
      /\ waiting' = waiting /\ launched' = launched /\ finals' = finals
  BY DEF PumpDone, Return
<1>2. StackInv /\ Stacked(calls) /\ LaneInv /\ KeyBooks
  BY DEF TierInv, StackInv
<1>3. /\ Top.call = "pump" /\ Stacked(calls') /\ Frames(calls) = {Top} \cup Frames(calls')
      /\ \A y \in Frames(calls) : y.call \notin {"sweep", "finally"}
      /\ \A k \in Lane : SweepsOf(k) = {} /\ ~ToSweep(k)
  BY <1>1, <1>2, UnderPump
<1>4. LaneInv' /\ KeyBooks'
  BY <1>2, ManagerKeeps, KeyManager DEF ManagerStep, LaneInv
<1>5. StackInv'
  BY <1>1, <1>3, StackOk
<1>6. \A k \in Lane : SweepsOf(k)' = {}
  BY <1>3 DEF SweepsOf
<1>7. Registered'
  BY <1>1, <1>3 DEF TierInv, Registered
<1>8. LoadsHeld'
  <2>1. OpenLoads' = OpenLoads
    BY <1>1 DEF OpenLoads, Asked
  <2>2. ASSUME NEW x \in OpenLoads PROVE Held(x)'
    <3>1. Held(x)
      BY <2>2 DEF TierInv, LoadsHeld
    <3> QED BY <1>1, <1>3, <1>6, <3>1 DEF Held
  <2> QED BY <2>1, <2>2 DEF LoadsHeld
<1>9. QuietStep
  <2>1. ~In("run")
    BY <1>3 DEF In
  <2>2. \A l \in Lane : \A i \in 1..Len(waiting'[l]) : InQueue(waiting'[l][i], waiting[l])
    BY <1>1 DEF InQueue
  <2> QED BY <1>1, <1>3, <2>1, <2>2 DEF QuietStep
<1>10. ~In("finally")'
  <2>1. calls' # <<>> => Head(calls') \in Frames(calls')
    BY <1>3, Peel
  <2> QED BY <1>3, <2>1 DEF In, Top
<1> QED BY <1>4, <1>5, <1>7, <1>8, <1>9, <1>10, QuietKeeps

\* What is below cancelAll and its sweeps: calls that close the project.
LEMMA UnderSweep ==
  ASSUME StackInv, In("cancelAll") \/ In("sweep")
  PROVE  /\ calls # <<>> /\ Top \in Frame /\ FrameOk(Top) /\ Stacked(Tail(calls))
         /\ Top.call \in {"cancelAll", "sweep"}
         /\ Frames(calls) = {Top} \cup Frames(Tail(calls))
         /\ \A y \in Frames(Tail(calls)) : Above(Top, y) /\ y.call \in Outer
<1>1. calls # <<>> /\ Top.call \in {"cancelAll", "sweep"}
  BY DEF In
<1>2. /\ Top \in Frame /\ FrameOk(Top) /\ Stacked(Tail(calls))
      /\ Frames(calls) = {Top} \cup Frames(Tail(calls))
      /\ \A y \in Frames(Tail(calls)) : Above(Top, y)
  BY <1>1, TopOf
<1>3. \A y \in Frames(Tail(calls)) : y.call \in Outer
  BY <1>1, <1>2 DEF Above, Outer
<1> QED BY <1>1, <1>2, <1>3

\* The next lane's sweep has all of its queue to do.
LEMMA SweepsNext ==
  ASSUME StackInv, LaneTypes, In("cancelAll") \/ In("sweep"), NEW ls \in SUBSET Lane, NextSweep(ls)
  PROVE  /\ Stacked(calls')
         /\ \A f \in Frames(calls') :
              \/ f \in Frames(Tail(calls)) /\ f.call \in Outer
              \/ /\ f.call = "sweep" /\ f.lane \in ls /\ f.lanes = ls \ {f.lane}
                 /\ f.todo = waiting[f.lane]
         /\ \A l \in Lane : ToSweep(l)' <=> l \in ls
<1>1. /\ calls # <<>> /\ Top \in Frame /\ Stacked(Tail(calls))
      /\ Top.call \in {"cancelAll", "sweep"}
      /\ \A y \in Frames(Tail(calls)) : Above(Top, y) /\ y.call \in Outer
  BY UnderSweep
<1>2. CASE ls = {}
  <2>1. calls' = Tail(calls)
    BY <1>2 DEF NextSweep, Return
  <2>2. \A l \in Lane : ~ToSweep(l)'
    BY <1>1, <2>1 DEF ToSweep, Outer
  <2> QED BY <1>1, <1>2, <2>1, <2>2
<1>3. CASE ls # {}
  <2>1. PICK k \in ls : calls' = <<SweepCall(k, waiting[k], ls \ {k})>> \o Tail(calls)
    BY <1>3 DEF NextSweep, Become
  <2>2. PICK x : x = SweepCall(k, waiting[k], ls \ {k})
    OBVIOUS
  <2>3. /\ x \in Frame /\ x.call = "sweep" /\ x.lane = k /\ x.todo = waiting[k]
        /\ x.lanes = ls \ {k}
    <3>1. waiting[k] \in Seq(OpId) /\ k \in Lane /\ ls \ {k} \in SUBSET Lane
      BY DEF LaneTypes
    <3>2. x \in Frame
      BY <2>2, <3>1, FramesMade
    <3> QED BY <2>2, <3>2, CallNames
  <2>4. \A y \in Frames(Tail(calls)) : Above(x, y)
    BY <1>1, <2>3 DEF Above, Outer, RunsLoad, RunsLow, RunsTier
  <2>5. Stacked(calls') /\ Frames(calls') = {x} \cup Frames(Tail(calls))
    <3>1. Stacked(<<x>> \o Tail(calls)) /\ Frames(<<x>> \o Tail(calls)) = {x} \cup Frames(Tail(calls))
      BY <1>1, <2>3, <2>4, Pile
    <3> QED BY <2>1, <2>2, <3>1
  <2>6. ASSUME NEW l \in Lane PROVE ToSweep(l)' <=> l \in ls
    <3>1. \A f \in Frames(calls') : f.call = "sweep" => f = x
      BY <1>1, <2>5 DEF Outer
    <3> QED BY <2>3, <2>5, <3>1 DEF ToSweep
  <2> QED BY <1>1, <2>3, <2>5, <2>6
<1> QED BY <1>2, <1>3

\* cancelAll cancels what is registered; what waits in a lane is now to be swept.
LEMMA CancelAllKeepsTiers ==
  ASSUME TierInv, CancelAll, MapStays
  PROVE  TierInv'
<1>1. PICK ls : ls = {l \in Lane : waiting[l] # <<>>}
  OBVIOUS
<1>2. /\ In("cancelAll") /\ cancelled' = cancelled \cup entries /\ NextSweep(ls)
      /\ nextId' = nextId /\ op' = op /\ entries' = entries
      /\ waiting' = waiting /\ launched' = launched /\ finals' = finals
  BY <1>1 DEF CancelAll
<1>3. StackInv /\ LaneInv /\ LaneTypes /\ KeyBooks /\ ls \in SUBSET Lane
  BY <1>1 DEF TierInv, LaneInv
<1>4. /\ calls # <<>> /\ Top.call = "cancelAll" /\ Frames(calls) = {Top} \cup Frames(Tail(calls))
      /\ \A y \in Frames(Tail(calls)) : y.call \in Outer
  BY <1>2, <1>3, UnderSweep DEF In
<1>5. /\ Stacked(calls')
      /\ \A f \in Frames(calls') :
           \/ f \in Frames(Tail(calls)) /\ f.call \in Outer
           \/ /\ f.call = "sweep" /\ f.lane \in ls /\ f.lanes = ls \ {f.lane}
              /\ f.todo = waiting[f.lane]
      /\ \A l \in Lane : ToSweep(l)' <=> l \in ls
  BY <1>2, <1>3, SweepsNext
<1>6. LaneInv' /\ KeyBooks'
  BY <1>3, ManagerKeeps, KeyManager DEF ManagerStep
<1>7. \A l \in Lane : SweepsOf(l) = {} /\ \A f \in SweepsOf(l)' : f.todo = waiting[l]
  BY <1>4, <1>5 DEF SweepsOf, Outer
<1>8. StackInv'
  <2>1. ASSUME NEW f \in Frames(calls'), f.call = "sweep" PROVE FrameOk(f)'
    BY <1>2, <1>5, <2>1 DEF FrameOk, Outer, InQueue
  <2>2. \A f \in Frames(calls') : f.call \in Outer => f \in Frames(calls) /\ f.call # "sweep"
    BY <1>4, <1>5 DEF Outer
  <2> QED BY <1>2, <1>5, <2>1, <2>2, StackOk
<1>9. Registered'
  BY <1>2, <1>7 DEF TierInv, Registered
<1>10. LoadsHeld'
  <2>1. OpenLoads' = OpenLoads
    BY <1>2 DEF OpenLoads, Asked
  <2>2. ASSUME NEW x \in OpenLoads PROVE Held(x)'
    <3>1. Held(x)
      BY <2>2 DEF TierInv, LoadsHeld
    <3>2. \A f \in Frames(calls) : f.call \notin {"settle", "finally"}
      BY <1>4 DEF Outer
    <3> QED BY <1>2, <1>7, <3>1, <3>2 DEF Held
  <2> QED BY <2>1, <2>2 DEF LoadsHeld
<1>11. QuietStep
  <2>1. ~In("run")
    BY <1>4 DEF In
  <2>2. \A l \in Lane : \A i \in 1..Len(waiting'[l]) : InQueue(waiting'[l][i], waiting[l])
    BY <1>2 DEF InQueue
  <2>3. \A l \in Lane : waiting'[l] # <<>> => ToSweep(l)'
    BY <1>1, <1>2, <1>5
  <2>4. \A f \in Frames(calls') : f.call \notin {"run", "complete", "settle"}
    BY <1>5 DEF Outer
  <2> QED BY <1>2, <2>1, <2>2, <2>3, <2>4 DEF QuietStep
<1>12. ~In("finally")'
  <2>1. calls' # <<>> => Head(calls') \in Frames(calls')
    BY <1>5, Peel
  <2> QED BY <1>5, <2>1 DEF In, Top, Outer
<1> QED BY <1>6, <1>8, <1>9, <1>10, <1>11, <1>12, QuietKeeps

\* A sweep has passed the whole queue, and clears it.
LEMMA ClearKeepsTiers ==
  ASSUME TierInv, SweepClear, MapStays
  PROVE  TierInv'
<1>1. PICK ls, l : ls = Top.lanes /\ l = Top.lane
  OBVIOUS
<1>2. /\ In("sweep") /\ Top.todo = <<>> /\ waiting' = [waiting EXCEPT ![l] = <<>>]
      /\ NextSweep(ls)
      /\ nextId' = nextId /\ op' = op /\ entries' = entries /\ cancelled' = cancelled
      /\ launched' = launched /\ finals' = finals
  BY <1>1 DEF SweepClear
<1>3. StackInv /\ LaneInv /\ LaneTypes /\ KeyBooks /\ waiting \in [Lane -> Seq(OpId)]
  BY DEF TierInv, LaneInv, LaneTypes
<1>4. /\ calls # <<>> /\ Top.call = "sweep" /\ Frames(calls) = {Top} \cup Frames(Tail(calls))
      /\ \A y \in Frames(Tail(calls)) : y.call \in Outer
      /\ l \in Lane /\ ls \in SUBSET Lane /\ l \notin ls
  BY <1>1, <1>2, <1>3, UnderSweep, FrameFields DEF In, FrameOk
<1>5. /\ Stacked(calls')
      /\ \A f \in Frames(calls') :
           \/ f \in Frames(Tail(calls)) /\ f.call \in Outer
           \/ /\ f.call = "sweep" /\ f.lane \in ls /\ f.lanes = ls \ {f.lane}
              /\ f.todo = waiting[f.lane]
      /\ \A k \in Lane : ToSweep(k)' <=> k \in ls
  BY <1>2, <1>3, <1>4, SweepsNext
<1>6. LaneInv' /\ KeyBooks'
  BY <1>3, ManagerKeeps, KeyManager DEF ManagerStep
<1>7. /\ waiting'[l] = <<>> /\ \A k \in Lane \ {l} : waiting'[k] = waiting[k]
      /\ Len(<<>>) = 0 /\ \A x : ~InQueue(x, <<>>)
  BY <1>2, <1>3, <1>4 DEF InQueue
<1>8. /\ \A k \in Lane \ {l} : SweepsOf(k) = {} /\ \A f \in SweepsOf(k)' : f.todo = waiting[k]
      /\ \A k \in Lane : ToSweep(k) <=> k \in ls \cup {l}
      /\ Top \in SweepsOf(l)
  BY <1>1, <1>4, <1>5 DEF SweepsOf, ToSweep, Outer
<1>9. StackInv'
  <2>1. ASSUME NEW f \in Frames(calls'), f.call = "sweep" PROVE FrameOk(f)'
    <3>1. f.lane \in ls /\ f.lanes = ls \ {f.lane} /\ f.todo = waiting[f.lane]
      BY <1>5, <2>1 DEF Outer
    <3>2. f.lane \in Lane /\ waiting'[f.lane] = waiting[f.lane]
      BY <1>4, <1>7, <3>1
    <3> QED BY <2>1, <3>1, <3>2 DEF FrameOk, InQueue
  <2>2. \A f \in Frames(calls') : f.call \in Outer => f \in Frames(calls) /\ f.call # "sweep"
    BY <1>4, <1>5 DEF Outer
  <2> QED BY <1>2, <1>5, <2>1, <2>2, StackOk
<1>10. Registered'
  BY <1>2, <1>7, <1>8 DEF TierInv, Registered
<1>11. LoadsHeld'
  <2>1. OpenLoads' = OpenLoads
    BY <1>2 DEF OpenLoads, Asked
  <2>2. ASSUME NEW x \in OpenLoads PROVE Held(x)'
    <3>1. Held(x)
      BY <2>2 DEF TierInv, LoadsHeld
    <3>2. \A f \in Frames(calls) : f.call \notin {"settle", "finally"}
      BY <1>4 DEF Outer
    <3>3. CASE x \in launched
      BY <1>2, <3>3 DEF Held
    <3>4. ASSUME NEW k \in Lane, InQueue(x, waiting[k]), \A f \in SweepsOf(k) : InQueue(x, f.todo)
          PROVE  Held(x)'
      <4>1. k # l
        BY <1>2, <1>7, <1>8, <3>4
      <4> QED BY <1>7, <1>8, <3>4, <4>1 DEF Held
    <3> QED BY <3>1, <3>2, <3>3, <3>4 DEF Held
  <2> QED BY <2>1, <2>2 DEF LoadsHeld
<1>12. QuietStep
  <2>1. ~In("run")
    BY <1>4 DEF In
  <2>2. ASSUME NEW k \in Lane, NEW i \in 1..Len(waiting'[k])
        PROVE  InQueue(waiting'[k][i], waiting[k])
    <3>1. k # l
      BY <1>7, <2>2
    <3> QED BY <1>7, <2>2, <3>1 DEF InQueue
  <2>3. \A k \in Lane : ToSweep(k) /\ waiting'[k] # <<>> => ToSweep(k)'
    BY <1>5, <1>7, <1>8
  <2>4. \A f \in Frames(calls') : f.call \notin {"run", "complete", "settle"}
    BY <1>5 DEF Outer
  <2> QED BY <1>2, <2>1, <2>2, <2>3, <2>4 DEF QuietStep
<1>13. ~In("finally")'
  <2>1. calls' # <<>> => Head(calls') \in Frames(calls')
    BY <1>5, Peel
  <2> QED BY <1>5, <2>1 DEF In, Top, Outer
<1> QED BY <1>6, <1>9, <1>10, <1>11, <1>12, <1>13, QuietKeeps

\* A sweep drops the next operation of its queue.
LEMMA SweepKeepsTiers ==
  ASSUME TierInv, SweepNext, MapStays
  PROVE  TierInv'
<1>1. PICK o, l, s : o = Head(Top.todo) /\ l = Top.lane /\ s = SweepCall(l, Tail(Top.todo), Top.lanes)
  OBVIOUS
<1>2. /\ In("sweep") /\ Top.todo # <<>> /\ entries' = entries \ {o}
      /\ calls' = <<FinallyCall(o), s>> \o Tail(calls)
      /\ nextId' = nextId /\ op' = op /\ cancelled' = cancelled
      /\ waiting' = waiting /\ launched' = launched /\ finals' = finals
  BY <1>1 DEF SweepNext, Become
<1>3. StackInv /\ LaneInv /\ LaneTypes /\ KeyBooks
  BY DEF TierInv, LaneInv
<1>4. /\ calls # <<>> /\ Top.call = "sweep" /\ Frames(calls) = {Top} \cup Frames(Tail(calls))
      /\ \A y \in Frames(Tail(calls)) : y.call \in Outer
      /\ Stacked(Tail(calls)) /\ FrameOk(Top) /\ Top \in Frame
      /\ l \in Lane /\ Top.lanes \in SUBSET Lane /\ Top.todo \in Seq(OpId)
  BY <1>1, <1>2, <1>3, UnderSweep, FrameFields DEF In
<1>5. /\ o \in OpId /\ Tail(Top.todo) \in Seq(OpId) /\ InQueue(o, Top.todo)
      /\ \A x : InQueue(x, Top.todo) => x = o \/ InQueue(x, Tail(Top.todo))
      /\ \A x : InQueue(x, Tail(Top.todo)) => InQueue(x, Top.todo)
      /\ \A i \in 1..Len(Tail(Top.todo)) : InQueue(Tail(Top.todo)[i], Top.todo)
  <2>1. PICK q \in Seq(OpId) : q = Top.todo
    BY <1>4
  <2>2. /\ Head(q) = q[1] /\ Head(q) \in OpId /\ Tail(q) \in Seq(OpId)
        /\ Len(q) \in Nat \ {0} /\ Len(Tail(q)) = Len(q) - 1
        /\ \A i \in 1..Len(Tail(q)) : i + 1 \in 1..Len(q) /\ Tail(q)[i] = q[i + 1]
    BY <1>2, <2>1, QueueTail
  <2>3. InQueue(Head(q), q)
    BY <2>2 DEF InQueue
  <2>4. ASSUME NEW x, InQueue(x, q) PROVE x = Head(q) \/ InQueue(x, Tail(q))
    <3>1. PICK i \in 1..Len(q) : q[i] = x
      BY <2>4 DEF InQueue
    <3>2. CASE i = 1
      BY <2>2, <3>1, <3>2
    <3>3. CASE i # 1
      <4>1. i - 1 \in 1..Len(Tail(q)) /\ Tail(q)[i - 1] = q[i]
        BY <2>2, <3>3
      <4> QED BY <3>1, <4>1 DEF InQueue
    <3> QED BY <3>2, <3>3
  <2>5. \A i \in 1..Len(Tail(q)) : InQueue(Tail(q)[i], q)
    BY <2>2 DEF InQueue
  <2>6. \A x : InQueue(x, Tail(q)) => InQueue(x, q)
    BY <2>5 DEF InQueue
  <2> QED BY <1>1, <2>1, <2>2, <2>3, <2>4, <2>5, <2>6
<1>6. /\ InQueue(o, waiting[l]) /\ l \notin Top.lanes
      /\ \A i \in 1..Len(Top.todo) : InQueue(Top.todo[i], waiting[l])
      /\ o \in Asked /\ o \notin launched
      /\ \A k \in Lane \ {l} : ~InQueue(o, waiting[k])
  <2>1. /\ \A i \in 1..Len(Top.todo) : InQueue(Top.todo[i], waiting[l])
        /\ l \notin Top.lanes
    BY <1>1, <1>4 DEF FrameOk
  <2>2. InQueue(o, waiting[l])
    BY <1>5, <2>1 DEF InQueue
  <2> QED BY <1>3, <1>4, <2>1, <2>2, QueuedOnce
<1>7. /\ s \in Frame /\ s.call = "sweep" /\ s.lane = l /\ s.todo = Tail(Top.todo)
      /\ s.lanes = Top.lanes
      /\ FinallyCall(o) \in Frame /\ FinallyCall(o).call = "finally" /\ FinallyCall(o).op = o
  <2>1. PICK q, ls : q = Tail(Top.todo) /\ ls = Top.lanes
    OBVIOUS
  <2>2. s = SweepCall(l, q, ls) /\ l \in Lane /\ q \in Seq(OpId) /\ ls \in SUBSET Lane
    BY <1>1, <1>4, <1>5, <2>1
  <2>3. s \in Frame
    BY <2>2, FramesMade
  <2>4. s.call = "sweep" /\ s.lane = l /\ s.todo = q /\ s.lanes = ls
    BY <2>2, CallNames
  <2> QED BY <1>5, <2>1, <2>3, <2>4, FramesMade, CallNames
<1>8. /\ Stacked(calls') /\ Frames(calls') = {FinallyCall(o), s} \cup Frames(Tail(calls))
  <2>1. PICK x : x = FinallyCall(o)
    OBVIOUS
  <2>2. Above(x, s) /\ \A y \in Frames(Tail(calls)) : Above(x, y) /\ Above(s, y)
    BY <1>4, <1>7, <2>1 DEF Above, Outer, RunsLoad, RunsLow, RunsTier
  <2>3. /\ Stacked(<<x, s>> \o Tail(calls))
        /\ Frames(<<x, s>> \o Tail(calls)) = {x, s} \cup Frames(Tail(calls))
    BY <1>4, <1>7, <2>1, <2>2, PileTwo
  <2> QED BY <1>2, <2>1, <2>3
<1>9. LaneInv' /\ KeyBooks'
  BY <1>3, ManagerKeeps, KeyManager DEF ManagerStep
<1>10. /\ \A k \in Lane \ {l} : SweepsOf(k) = {} /\ SweepsOf(k)' = {}
       /\ SweepsOf(l)' = {s} /\ Top \in SweepsOf(l)
       /\ \A k \in Lane : ToSweep(k) => ToSweep(k)'
  BY <1>1, <1>4, <1>7, <1>8 DEF SweepsOf, ToSweep, Outer
<1>11. StackInv'
  <2>1. FrameOk(s)'
    <3>1. \A i \in 1..Len(s.todo) : InQueue(s.todo[i], waiting[l])
      <4>1. ASSUME NEW i \in 1..Len(s.todo) PROVE InQueue(s.todo[i], waiting[l])
        <5>1. InQueue(s.todo[i], Top.todo)
          BY <1>5, <1>7
        <5> QED BY <1>6, <5>1 DEF InQueue
      <4> QED BY <4>1
    <3> QED BY <1>2, <1>6, <1>7, <3>1 DEF FrameOk
  <2>2. \A f \in Frames(Tail(calls)) : f \in Frames(calls) /\ f.call # "sweep"
    BY <1>4 DEF Outer
  <2> QED BY <1>2, <1>6, <1>7, <1>8, <2>1, <2>2, StackOk
<1>12. Registered'
  <2>1. ASSUME NEW k \in Lane, SweepsOf(k)' = {}, NEW i \in 1..Len(waiting'[k])
        PROVE  waiting'[k][i] \in entries'
    <3>1. k # l
      BY <1>10, <2>1
    <3>2. waiting[k][i] # o
      BY <1>2, <1>6, <2>1, <3>1 DEF InQueue
    <3> QED BY <1>2, <1>10, <2>1, <3>1, <3>2 DEF TierInv, Registered
  <2>2. launched' \subseteq entries'
    BY <1>2, <1>6 DEF TierInv, Registered
  <2> QED BY <2>1, <2>2 DEF Registered
<1>13. LoadsHeld'
  <2>1. OpenLoads' = OpenLoads
    BY <1>2 DEF OpenLoads, Asked
  <2>2. ASSUME NEW x \in OpenLoads PROVE Held(x)'
    <3>1. Held(x)
      BY <2>2 DEF TierInv, LoadsHeld
    <3>2. \A f \in Frames(calls) : f.call \notin {"settle", "finally"}
      BY <1>4 DEF Outer
    <3>3. CASE x \in launched
      BY <1>2, <3>3 DEF Held
    <3>4. CASE x = o
      BY <1>7, <1>8, <3>4 DEF Held
    <3>5. ASSUME NEW k \in Lane, InQueue(x, waiting[k]), \A f \in SweepsOf(k) : InQueue(x, f.todo),
                 x # o
          PROVE  Held(x)'
      <4>1. CASE k = l
        BY <1>2, <1>5, <1>7, <1>10, <3>5, <4>1 DEF Held
      <4>2. CASE k # l
        BY <1>2, <1>10, <3>5, <4>2 DEF Held
      <4> QED BY <4>1, <4>2
    <3> QED BY <3>1, <3>2, <3>3, <3>4, <3>5 DEF Held
  <2> QED BY <2>1, <2>2 DEF LoadsHeld
<1>14. \A f \in Frames(calls') : f.call \notin {"run", "complete", "settle", "pump"}
  BY <1>4, <1>7, <1>8 DEF Outer
<1>15. QuietStep
  <2>1. ~In("run")
    BY <1>4 DEF In
  <2>2. \A k \in Lane : \A i \in 1..Len(waiting'[k]) : InQueue(waiting'[k][i], waiting[k])
    BY <1>2 DEF InQueue
  <2> QED BY <1>2, <1>10, <1>14, <2>1, <2>2 DEF QuietStep
<1> QED BY <1>9, <1>11, <1>12, <1>13, <1>14, <1>15, QuietKeeps

\* A background function returns; the event loop, or a dialog's, gets to know.
LEMMA FinishKeepsTiers ==
  ASSUME TierInv, NEW o \in OpId, Finish(o), AtRest \/ In("dialog"), MapStays
  PROVE  TierInv'
<1>1. PICK l : l = op[o].lane
  OBVIOUS
<1>2. /\ o \in launched /\ launched' = launched \ {o} /\ entries' = entries \ {o}
      /\ calls' = (IF l \in Lane THEN <<PumpCall(l), SettleCall(o)>> ELSE <<SettleCall(o)>>) \o calls
      /\ nextId' = nextId /\ op' = op /\ cancelled' = cancelled
      /\ waiting' = waiting /\ finals' = finals
  BY <1>1 DEF Finish, Push
<1>3. StackInv /\ Stacked(calls) /\ LaneInv /\ KeyBooks /\ o \in Asked
  BY <1>2 DEF TierInv, StackInv, LaneInv, LaneTypes, Asked
<1>4. \A y \in Frames(calls) : y.call \in Outer /\ y.call # "sweep"
  <2>1. CASE AtRest
    BY <2>1, RestCalls
  <2>2. CASE In("dialog")
    <3>1. calls # <<>> /\ Top.call = "dialog"
      BY <2>2 DEF In
    <3> QED BY <1>3, <3>1, TopOf DEF Above, Outer
  <2> QED BY <2>1, <2>2
<1>5. PICK s : s = SettleCall(o)
  OBVIOUS
<1>6. /\ s \in Frame /\ s.call = "settle" /\ s.op = o
      /\ \A y \in Frames(calls) : Above(s, y)
  BY <1>4, <1>5, FramesMade, CallNames DEF Above, Outer, RunsLoad, RunsLow, RunsTier
<1>7. /\ Stacked(calls') /\ Frames(calls) \cup {s} \subseteq Frames(calls')
      /\ \A f \in Frames(calls') : f \in Frames(calls) \/ f = s \/ f.call = "pump"
      /\ ~In("finally")'
  <2>1. CASE l \in Lane
    <3>1. PICK p : p = PumpCall(l)
      OBVIOUS
    <3>2. p \in Frame /\ p.call = "pump"
      BY <2>1, <3>1, FramesMade, CallNames
    <3>3. Above(p, s) /\ \A y \in Frames(calls) : Above(p, y) /\ Above(s, y)
      BY <1>4, <1>6, <3>2 DEF Above, Outer, RunsLoad, RunsLow, RunsTier
    <3>4. /\ Stacked(<<p, s>> \o calls) /\ Frames(<<p, s>> \o calls) = {p, s} \cup Frames(calls)
          /\ Head(<<p, s>> \o calls) = p
      BY <1>3, <1>6, <3>2, <3>3, PileTwo
    <3>5. calls' = <<p, s>> \o calls
      BY <1>2, <1>5, <2>1, <3>1
    <3> QED BY <3>2, <3>4, <3>5 DEF In, Top
  <2>2. CASE l \notin Lane
    <3>1. /\ Stacked(<<s>> \o calls) /\ Frames(<<s>> \o calls) = {s} \cup Frames(calls)
          /\ Head(<<s>> \o calls) = s
      BY <1>3, <1>6, Pile
    <3>2. calls' = <<s>> \o calls
      BY <1>2, <1>5, <2>2
    <3> QED BY <1>6, <3>1, <3>2 DEF In, Top
  <2> QED BY <2>1, <2>2
<1>8. LaneInv' /\ KeyBooks'
  BY <1>3, FinishKeeps, KeyFinish
<1>9. StackInv'
  BY <1>2, <1>3, <1>4, <1>6, <1>7, StackOk
<1>10. \A k \in Lane : SweepsOf(k)' = {} /\ SweepsOf(k) = {} /\ ~ToSweep(k)
  BY <1>4, <1>6, <1>7 DEF SweepsOf, ToSweep, Outer
<1>11. Registered'
  <2>1. ASSUME NEW k \in Lane, NEW i \in 1..Len(waiting[k]) PROVE waiting[k][i] \in entries \ {o}
    <3>1. waiting[k][i] # o
      BY <1>2, <1>3 DEF LaneInv, QueuesApart
    <3> QED BY <1>10, <3>1 DEF TierInv, Registered
  <2> QED BY <1>2, <2>1 DEF TierInv, Registered
<1>12. LoadsHeld'
  <2>1. OpenLoads' = OpenLoads
    BY <1>2 DEF OpenLoads, Asked
  <2>2. ASSUME NEW x \in OpenLoads PROVE Held(x)'
    <3>1. Held(x)
      BY <2>2 DEF TierInv, LoadsHeld
    <3>2. CASE x = o
      BY <1>6, <1>7, <3>2 DEF Held
    <3>3. CASE x # o
      BY <1>2, <1>7, <1>10, <3>1, <3>3 DEF Held
    <3> QED BY <3>2, <3>3
  <2> QED BY <2>1, <2>2 DEF LoadsHeld
<1>13. QuietStep
  <2>1. ~In("run")
    BY RestCalls DEF In
  <2>2. \A k \in Lane : \A i \in 1..Len(waiting'[k]) : InQueue(waiting'[k][i], waiting[k])
    BY <1>2 DEF InQueue
  <2>3. \A f \in Frames(calls') : /\ f.call \in {"run", "complete"} => f \in Frames(calls)
                                  /\ f.call = "settle" => f \in Frames(calls) \/ f.op \in launched
    BY <1>2, <1>6, <1>7
  <2> QED BY <1>2, <1>10, <2>1, <2>2, <2>3 DEF QuietStep
<1> QED BY <1>7, <1>8, <1>9, <1>11, <1>12, <1>13, QuietKeeps

\* A step of the manager, and one of the pool.
LEMMA ManagerKeepsTiers == TierInv /\ Manager => TierInv'
<1> SUFFICES ASSUME TierInv, ManagerStep, UNCHANGED <<viewVars, left>> PROVE TierInv'
  BY DEF Manager
<1>1. MapStays
  BY MapUnchanged
<1>2. CASE RunNext         BY <1>1, <1>2, RunKeepsTiers
<1>3. CASE SettleCancelled BY <1>1, <1>3, SettleCancelledKeeps
<1>4. ASSUME NEW l \in Lane, PumpDrop(l) PROVE TierInv'
  BY <1>1, <1>4, DropKeepsTiers
<1>5. ASSUME NEW l \in Lane, PumpStart(l) PROVE TierInv'
  BY <1>1, <1>5, StartKeepsTiers
<1>6. CASE PumpDone        BY <1>1, <1>6, PumpDoneKeepsTiers
<1>7. CASE CancelAll       BY <1>1, <1>7, CancelAllKeepsTiers
<1>8. CASE SweepNext       BY <1>1, <1>8, SweepKeepsTiers
<1>9. CASE SweepClear      BY <1>1, <1>9, ClearKeepsTiers
<1> QED BY <1>2, <1>3, <1>4, <1>5, <1>6, <1>7, <1>8, <1>9 DEF ManagerStep

\* The pool delivers to a finished handler.
LEMMA PoolKeepsTiers == ASSUME TierInv, NEW o \in OpId, PoolFinishes(o) PROVE TierInv'
BY MapUnchanged, FinishKeepsTiers DEF PoolFinishes
-----------------------------------------------------------------------------
(* The operator's steps and the controller's, as turns.                    *)

\* The steps that deliver no outcome and finalise none.
Plain == ~In("run") /\ ~In("pump") /\ ~In("sweep") /\ ~In("settle") /\ ~In("finally")

\* The books after a cancel.
LEMMA CancelTurn ==
  ASSUME NEW C \in SUBSET entries, Cancel(C)
  PROVE  /\ nextId' = nextId /\ op' = op /\ entries' = entries /\ keyed' = keyed
         /\ running' = running /\ waiting' = waiting /\ launched' = launched
         /\ cancelled \subseteq cancelled' /\ cancelled' \subseteq cancelled \cup entries
         /\ finals' = finals /\ cancelled' = cancelled \cup C
BY DEF Cancel

\* What is below the call on top.
LEMMA RestStacked ==
  ASSUME StackInv
  PROVE  Stacked(Rest) /\ Frames(Rest) \subseteq Frame
<1>1. CASE calls = <<>>
  BY <1>1, NoFrames DEF Rest
<1>2. CASE calls # <<>>
  BY <1>2, TopOf DEF Rest
<1> QED BY <1>1, <1>2

\* A call returns.
LEMMA TurnNone ==
  ASSUME TierInv, Plain, NEW C \in SUBSET entries, Cancel(C), calls' = Rest
  PROVE  Turn /\ \A f \in Frames(calls') \ Frames(Rest) : FALSE
<1>1. Stacked(calls') /\ Frames(Rest) \subseteq Frames(calls')
  BY RestStacked DEF TierInv
<1> QED BY <1>1, CancelTurn DEF Turn, Plain

\* A call returns and another is made.
LEMMA TurnOne ==
  ASSUME TierInv, Plain, NEW C \in SUBSET entries, Cancel(C),
         NEW f \in Frame, f.call \in {"run", "reload"} \cup Outer,
         \A y \in Frames(Rest) : Above(f, y), calls' = <<f>> \o Rest
  PROVE  /\ Turn /\ \A g \in Frames(calls') \ Frames(Rest) : g = f
         /\ TopLoad' = IF RunsLoad(f) THEN 1 ELSE 0
<1>1. Stacked(Rest)
  BY RestStacked DEF TierInv
<1>2. /\ Stacked(calls') /\ Frames(calls') = {f} \cup Frames(Rest)
      /\ calls' # <<>> /\ Head(calls') = f
  BY <1>1, Pile
<1>3. \A g \in Frames(calls') \ Frames(Rest) : g = f
  BY <1>2
<1>4. TopLoad' = IF RunsLoad(f) THEN 1 ELSE 0
  BY <1>2 DEF TopLoad
<1> QED BY <1>2, <1>3, <1>4, CancelTurn DEF Turn, Plain

\* The count of builds is left alone.
LEMMA CountStays ==
  ASSUME TierInv, ~(In("finally") /\ op[Top.op].kind = "load"),
         builds' = builds, dataState' = dataState
  PROVE  CountTurn
<1>1. builds \in Nat /\ (dataState = "Loading" => builds > 0)
  BY DEF TierInv, TierTypes, Counted
<1>2. TopLoad' \in {0, 1}
  BY DEF TopLoad
<1>3. \A n \in Nat, t \in {0, 1} : n <= n + t
  OBVIOUS
<1> QED BY <1>1, <1>2, <1>3 DEF CountTurn

\* The stages and the map are left alone, and no preview is asked for.
LEMMA StageStays ==
  ASSUME TierInv, staged' = staged, generation' = generation, quality' = quality,
         cancelled' = cancelled,
         \A f \in Frames(calls') \ Frames(Rest) : RunsTier(f) =>
           f.request.generation < generation /\ ~RunsLow(f)
  PROVE  StageTurn
BY DEF StageTurn

\* A turn that changes nothing of the map and asks for no build.
LEMMA TurnStays ==
  ASSUME TierInv, MapStays, Turn, cancelled' = cancelled,
         ~(In("finally") /\ op[Top.op].kind = "load"),
         \A f \in Frames(calls') \ Frames(Rest) : ~RunsTier(f)
  PROVE  TierInv'
<1>1. StageTurn
  BY StageStays DEF MapStays
<1>2. CountTurn
  BY CountStays DEF MapStays
<1>3. RemovalTurn
  BY DEF RemovalTurn, MapStays
<1>4. ViewTypes'
  BY DEF TierInv, TierTypes, ViewTypes, MapStays, Turn
<1> QED BY <1>1, <1>2, <1>3, <1>4, TurnKeeps

\* A reload that has no layer left returns.
LEMMA ReloadDoneKeeps == TierInv /\ ReloadDone => TierInv'
<1> SUFFICES ASSUME TierInv, ReloadDone PROVE TierInv'
  OBVIOUS
<1>1. MapStays /\ calls' = Rest /\ Cancel({}) /\ Plain
  BY MapUnchanged DEF ReloadDone, Rest, Return, Plain, In
<1>2. Turn /\ \A f \in Frames(calls') \ Frames(Rest) : FALSE
  BY <1>1, TurnNone
<1> QED BY <1>1, <1>2, TurnStays DEF Cancel, Plain

\* A dialog is closed.
LEMMA CloseDialogKeeps == TierInv /\ CloseDialog => TierInv'
<1> SUFFICES ASSUME TierInv, CloseDialog PROVE TierInv'
  OBVIOUS
<1>1. MapStays /\ calls' = Rest /\ Cancel({}) /\ Plain
  BY MapUnchanged DEF CloseDialog, Rest, Return, Plain, In
<1>2. Turn /\ \A f \in Frames(calls') \ Frames(Rest) : FALSE
  BY <1>1, TurnNone
<1> QED BY <1>1, <1>2, TurnStays DEF Cancel, Plain

\* At rest nothing is below.
LEMMA AtRestPlain ==
  ASSUME AtRest
  PROVE  Plain /\ Rest = <<>> /\ calls = <<>> /\ Frames(Rest) = {} /\ Frames(calls) = {}
BY RestCalls DEF Plain, Rest, AtRest

\* The raster is no build of a layer.
LEMMA DisplayRasterKeeps == TierInv /\ DisplayRaster => TierInv'
<1> SUFFICES ASSUME TierInv, DisplayRaster PROVE TierInv'
  OBVIOUS
<1>1. PICK f : f = RunCall(RasterLoad)
  OBVIOUS
<1>2. /\ MapStays /\ Plain /\ calls' = <<f>> \o Rest /\ Cancel({}) /\ Frames(Rest) = {}
  BY <1>1, AtRestPlain, MapUnchanged DEF DisplayRaster, Push
<1>3. f \in Frame /\ f.call = "run" /\ f.request.kind = "raster"
  <2>1. RasterLoad \in Request /\ RasterLoad.kind = "raster"
    BY DEF RasterLoad, Request, OtherRequest
  <2> QED BY <1>1, <2>1, FramesMade, CallNames
<1>4. Turn /\ \A g \in Frames(calls') \ Frames(Rest) : g = f
  BY <1>2, <1>3, TurnOne
<1> QED BY <1>2, <1>3, <1>4, TurnStays DEF Cancel, Plain, RunsTier

\* What closes the project; the map is cleared by the last of these calls.
OuterFrame   == {f \in Frame : f.call \in Outer}
LeavingFrame == {f \in OuterFrame : ~(f.call = "deactivate" /\ f.clear)}

\* Such a stack may start from rest.
LEMMA OuterKeeps ==
  ASSUME TierInv, AtRest, MapStays, Cancel({}),
         NEW p \in Seq(LeavingFrame), NEW e \in OuterFrame, calls' = p \o <<e>>
  PROVE  TierInv' /\ e \in Frames(calls') /\ \A f \in Frames(calls') : f.call \in Outer
<1>1. Plain /\ Rest = <<>> /\ Frames(Rest) = {}
  BY AtRestPlain
<1>2. /\ p \in Seq(OuterFrame) /\ <<e>> \in Seq(OuterFrame) /\ calls' \in Seq(OuterFrame)
      /\ Len(p) \in Nat /\ Len(calls') = Len(p) + 1 /\ calls'[Len(p) + 1] = e
      /\ \A i \in 1..(Len(p) + 1) : i # Len(p) + 1 => calls'[i] = p[i] /\ p[i] \in LeavingFrame
  <2>1. p \in Seq(OuterFrame) /\ <<e>> \in Seq(OuterFrame)
    BY DEF LeavingFrame
  <2> QED BY <2>1
<1>3. \A f \in Frames(calls') : f \in Frame /\ f.call \in Outer
  BY <1>2 DEF Frames, OuterFrame
<1>4. Stacked(calls')
  <2>1. \A x \in LeavingFrame, y \in OuterFrame : Above(x, y)
    BY DEF LeavingFrame, OuterFrame, Above, Outer, RunsLoad, RunsLow, RunsTier
  <2>2. calls' \in Seq(Frame)
    BY <1>2 DEF OuterFrame
  <2>3. \A i, j \in 1..Len(calls') : i < j => calls'[i] \in LeavingFrame /\ calls'[j] \in OuterFrame
    BY <1>2
  <2> QED BY <2>1, <2>2, <2>3 DEF Stacked
<1>5. Turn
  BY <1>1, <1>3, <1>4, CancelTurn DEF Turn, Plain
<1>6. \A f \in Frames(calls') : ~RunsTier(f)
  BY <1>3 DEF Outer, RunsTier
<1>7. e \in Frames(calls')
  BY <1>2 DEF Frames
<1> QED BY <1>1, <1>3, <1>5, <1>6, <1>7, TurnStays DEF Cancel, Plain

\* Short sequences.
LEMMA Tuples ==
  ASSUME NEW S
  PROVE  /\ <<>> \in Seq(S) /\ \A x \in S : <<x>> \in Seq(S) /\ \A y \in S : <<x, y>> \in Seq(S)
         /\ \A p, q \in Seq(S) : p \o q \in Seq(S)
OBVIOUS

\* A project is switched or deleted: all calls are of the outer kind, and the map is
\* cleared last.
LEMMA ClosingCalls ==
  ASSUME TierInv, SwitchProject \/ DeleteProject
  PROVE  /\ AtRest /\ MapStays /\ Cancel({})
         /\ \E p \in Seq(LeavingFrame) : calls' = p \o <<DeactivateCall(TRUE)>>
<1>1. AtRest /\ MapStays /\ Cancel({}) /\ calls = <<>>
  BY MapUnchanged DEF SwitchProject, DeleteProject, AtRest
<1>2. PICK c, d, e, g \in OuterFrame :
        /\ c = CancelAllCall /\ d = DeactivateCall(FALSE) /\ e = DeactivateCall(TRUE)
        /\ g = DialogCall /\ c \in LeavingFrame /\ d \in LeavingFrame /\ g \in LeavingFrame
  <2>1. /\ CancelAllCall \in LeavingFrame /\ DialogCall \in LeavingFrame
        /\ DeactivateCall(FALSE) \in LeavingFrame /\ DeactivateCall(TRUE) \in OuterFrame
    BY FramesMade, CallNames DEF OuterFrame, LeavingFrame, Outer
  <2>2. LeavingFrame \subseteq OuterFrame
    BY DEF LeavingFrame
  <2> QED BY <2>1, <2>2
<1>3. /\ <<>> \in Seq(LeavingFrame) /\ <<c>> \in Seq(LeavingFrame) /\ <<d>> \in Seq(LeavingFrame)
      /\ <<g>> \in Seq(LeavingFrame) /\ <<d, c>> \in Seq(LeavingFrame)
      /\ Rebind = <<c>> \o <<e>>
      /\ \A p, q \in Seq(LeavingFrame) : p \o q \in Seq(LeavingFrame)
  BY <1>2, Tuples, Joined DEF Rebind
<1>4. \A p \in Seq(LeavingFrame) : (p \o Rebind) \o calls = (p \o <<c>>) \o <<e>>
  <2>1. \A p \in Seq(LeavingFrame) : p \in Seq(OuterFrame)
    BY DEF LeavingFrame
  <2>2. <<c>> \in Seq(OuterFrame) /\ <<e>> \in Seq(OuterFrame) /\ Rebind \in Seq(OuterFrame)
    BY <1>3, Tuples
  <2>3. ASSUME NEW p \in Seq(LeavingFrame) PROVE (p \o Rebind) \o calls = (p \o <<c>>) \o <<e>>
    <3>1. p \o Rebind \in Seq(OuterFrame)
      BY <2>1, <2>2
    <3>2. (p \o Rebind) \o calls = p \o Rebind
      BY <1>1, <3>1, ConcatEmptySeq
    <3> QED BY <1>3, <2>1, <2>2, <3>2, ConcatAssociative
  <2> QED BY <2>3
<1>5. CASE SwitchProject
  <2>1. calls' = (<<d, c>> \o Rebind) \o calls
    BY <1>2, <1>5 DEF SwitchProject, Push
  <2>2. calls' = (<<d, c>> \o <<c>>) \o <<e>> /\ <<d, c>> \o <<c>> \in Seq(LeavingFrame)
    BY <1>3, <1>4, <2>1
  <2> QED BY <1>1, <1>2, <2>2
<1>6. CASE DeleteProject
  <2>1. PICK dialog \in {<<>>, <<g>>} : calls' = (((<<c>> \o dialog) \o <<d>>) \o Rebind) \o calls
    BY <1>2, <1>6 DEF DeleteProject, Push
  <2>2. PICK p \in Seq(LeavingFrame) : p = (<<c>> \o dialog) \o <<d>>
    <3>1. <<c>> \o dialog \in Seq(LeavingFrame)
      BY <1>3
    <3> QED BY <1>3, <3>1
  <2>3. calls' = (p \o <<c>>) \o <<e>> /\ p \o <<c>> \in Seq(LeavingFrame)
    BY <1>3, <1>4, <2>1, <2>2
  <2> QED BY <1>1, <1>2, <2>3
<1> QED BY <1>5, <1>6

\* So it is, and only the last of them clears the map.
LEMMA ClosingEnds ==
  ASSUME TierInv, SwitchProject \/ DeleteProject
  PROVE  /\ TierInv' /\ DeactivateCall(TRUE) \in Frames(calls')
         /\ \A f \in Frames(calls') : f.call \in Outer
<1>1. PICK e \in OuterFrame : e = DeactivateCall(TRUE)
  BY FramesMade, CallNames DEF OuterFrame, Outer
<1> QED BY <1>1, ClosingCalls, OuterKeeps

LEMMA ClosingKeeps == TierInv /\ (SwitchProject \/ DeleteProject) => TierInv'
BY ClosingEnds
-----------------------------------------------------------------------------
(* What the operator asks for.                                             *)

\* Parameters are versions.
LEMMA StoredVersions ==
  ASSUME params \in [Layer -> Nat], NEW A, Stored(A)
  PROVE  params' \in [Layer -> Nat]
BY DEF Stored

\* Generations start at one.
LEMMA GenerationCounts ==
  ASSUME TierInv, NEW a \in Layer
  PROVE  /\ generation \in Nat /\ 0 < generation /\ staged[a] \in Stage
         /\ staged[a].generation < generation
         /\ staged[a] # NotStaged => staged[a].target = quality
         /\ staged[a].awaiting => staged[a].target = High /\ staged[a] # NotStaged
<1>1. generation \in Nat /\ staged[a] \in Stage /\ staged[a].generation < generation
  BY DEF TierInv, TierTypes, Generations
<1>2. staged[a].generation \in Nat
  BY <1>1 DEF Stage
<1>3. staged[a].awaiting => staged[a] # NotStaged
  BY DEF NotStaged
<1> QED BY <1>1, <1>2, <1>3 DEF TierInv, Generations

\* A request for one tier.
LEMMA TierCalls ==
  ASSUME params \in [Layer -> Nat], NEW a \in Layer, NEW q \in Quality,
         NEW l \in {"map", "apply"}, NEW g \in Nat,
         NEW f, f = RunCall(TierOf(a, q, l, g)) \/ f = RunCall(AfterStore(TierOf(a, q, l, g)))
  PROVE  /\ f \in Frame /\ f.call = "run" /\ ~RunsLoad(f)
         /\ f.request.layer = a /\ f.request.generation = g
         /\ RunsLow(f) <=> q = Low
<1>1. PICK r \in Request : /\ f = RunCall(r)
                           /\ r = TierOf(a, q, l, g) \/ r = AfterStore(TierOf(a, q, l, g))
  BY RequestsMade
<1>2. r.kind = "tier" /\ r.layer = a /\ r.generation = g /\ r.quality = q
  BY <1>1 DEF TierOf, AfterStore
<1>3. f \in Frame /\ f.call = "run" /\ f.request = r
  BY <1>1, FramesMade, CallNames
<1> QED BY <1>2, <1>3 DEF RunsLoad, RunsLow, RunsTier

\* An edit of a layer that is not loaded asks for nothing.
LEMMA EditUnloadedKeeps == ASSUME TierInv, NEW a \in Layer, EditUnloaded(a) PROVE TierInv'
<1>1. /\ quality' = quality /\ active' = active /\ loaded' = loaded /\ shown' = shown
      /\ staged' = staged /\ generation' = generation /\ builds' = builds
      /\ dataState' = dataState /\ removed' = removed /\ nextId' = nextId
      /\ params' \in [Layer -> Nat] /\ Cancel({}) /\ calls' = calls /\ AtRest
  BY StoredVersions DEF EditUnloaded, selectVars, mapVars, stageVars, busyVars, managerVars, Cancel,
                        TierInv, TierTypes
<1>2. Turn /\ \A f \in Frames(calls') \ Frames(Rest) : FALSE
  BY <1>1, AtRestPlain, TurnNone
<1>3. StageTurn
  BY <1>1, <1>2, StageStays DEF Cancel
<1>4. CountTurn
  BY <1>1, AtRestPlain, CountStays DEF Plain
<1>5. RemovalTurn /\ ViewTypes'
  BY <1>1 DEF RemovalTurn, ViewTypes, TierInv, TierTypes
<1> QED BY <1>2, <1>3, <1>4, <1>5, TurnKeeps

\* A live correction asks for a tier of generation 0, which no refresh waits for.
LEMMA EditLiveKeeps == ASSUME TierInv, NEW a \in Layer, EditLive(a) PROVE TierInv'
<1>1. PICK f, q : f = RunCall(AfterStore(TierOf(a, q, "apply", 0))) /\ q = quality
  OBVIOUS
<1>2. /\ quality' = quality /\ active' = active /\ loaded' = loaded /\ shown' = shown
      /\ staged' = staged /\ generation' = generation /\ builds' = builds
      /\ dataState' = dataState /\ removed' = removed
      /\ params' \in [Layer -> Nat] /\ Cancel({}) /\ calls' = <<f>> \o calls /\ AtRest
      /\ params \in [Layer -> Nat] /\ q \in Quality
  BY <1>1, StoredVersions DEF EditLive, selectVars, mapVars, stageVars, busyVars, Push,
                        TierInv, TierTypes
<1>3. /\ f \in Frame /\ f.call = "run" /\ ~RunsLoad(f) /\ f.request.layer = a
      /\ f.request.generation = 0 /\ (RunsLow(f) <=> q = Low)
  BY <1>1, <1>2, TierCalls
<1>4. Turn /\ \A g \in Frames(calls') \ Frames(Rest) : g = f
  BY <1>2, <1>3, AtRestPlain, TurnOne
<1>5. StageTurn
  <2>1. q = Low => ~staged[a].awaiting
    BY <1>1, GenerationCounts DEF High, Low
  <2>2. 0 < generation
    BY GenerationCounts
  <2> QED BY <1>2, <1>3, <1>4, <2>1, <2>2 DEF StageTurn, Cancel
<1>6. CountTurn
  BY <1>2, AtRestPlain, CountStays DEF Plain
<1>7. RemovalTurn /\ ViewTypes'
  BY <1>2, CancelTurn DEF RemovalTurn, ViewTypes, TierInv, TierTypes
<1> QED BY <1>4, <1>5, <1>6, <1>7, TurnKeeps

\* A refresh is staged after its layer's tiers were cancelled.
LEMMA StagedKeeps ==
  ASSUME TierInv, AtRest, NEW a \in Layer, StageRefresh(a),
         NEW C \in SUBSET entries, Cancel(C), C \subseteq BuildsOf({a}) \cup Current(TierKeys(a)),
         quality' = quality, active' = active, loaded' = loaded, shown' = shown, builds' = builds,
         dataState' = dataState, removed' = removed
  PROVE  TierInv'
<1>1. PICK f, q, g : /\ q = IF quality > Low THEN Low ELSE quality
                     /\ g = generation /\ f = RunCall(AfterStore(TierOf(a, q, "apply", g)))
  OBVIOUS
<1>2. /\ generation' = generation + 1
      /\ staged' = [staged EXCEPT ![a] = [generation |-> generation, target |-> quality,
                                          awaiting |-> quality > Low]]
      /\ params' \in [Layer -> Nat] /\ calls' = <<f>> \o calls
      /\ params \in [Layer -> Nat] /\ q \in Quality /\ g \in Nat /\ quality \in Quality
      /\ staged \in [Layer -> Stage]
  BY <1>1, StoredVersions DEF StageRefresh, Push, TierInv, TierTypes, Quality, Low
<1>3. /\ f \in Frame /\ f.call = "run" /\ ~RunsLoad(f) /\ f.request.layer = a
      /\ f.request.generation = g
  BY <1>1, <1>2, TierCalls
<1>4. Turn /\ \A x \in Frames(calls') \ Frames(Rest) : x = f
  BY <1>2, <1>3, AtRestPlain, TurnOne
<1>5. /\ staged'[a].generation = generation /\ staged'[a].target = quality
      /\ staged'[a].awaiting => quality = High
      /\ \A b \in Layer \ {a} : staged'[b] = staged[b]
      /\ staged'[a] \in Stage
  <2>1. staged'[a] = [generation |-> generation, target |-> quality, awaiting |-> quality > Low]
    BY <1>2
  <2>2. quality > Low => quality = High
    BY <1>2 DEF Quality, Off, Low, High
  <2>3. generation \in Nat /\ (quality > Low) \in BOOLEAN
    BY <1>1, <1>2
  <2> QED BY <1>2, <2>1, <2>2, <2>3 DEF Stage
<1>6. StageTurn
  <2>1. ASSUME NEW o \in cancelled' \ cancelled, op[o].kind = "tier" PROVE op[o].layer = a
    <3>1. o \in BuildsOf({a}) \cup UNION {Current(TierKeys(b)) : b \in {a}}
      BY <2>1 DEF Cancel
    <3>2. op[o].layer \in {a}
      BY <2>1, <3>1, ReachedBy DEF TierInv
    <3> QED BY <3>2
  <2>2. generation < generation'
    BY <1>1, <1>2
  <2>3. ASSUME NEW b \in Layer
        PROVE  \/ quality' = quality /\ staged'[b] = staged[b]
               \/ /\ generation' = generation + 1 /\ staged'[b].generation = generation
                  /\ staged'[b].target = quality' /\ (staged'[b].awaiting => quality' = High)
    BY <1>2, <1>5
  <2>4. \A x \in Frames(calls') \ Frames(Rest) :
          x.request.generation = generation /\ x.request.layer = a
    BY <1>1, <1>3, <1>4
  <2>5. \A x \in Frames(calls') \ Frames(Rest) :
          x.request.generation < generation' /\ staged'[x.request.layer].generation = generation
    BY <1>5, <2>2, <2>4
  <2>6. \A o \in cancelled' \ cancelled : op[o].kind = "tier" =>
          staged'[op[o].layer].generation = generation
    BY <1>5, <2>1
  <2> QED BY <1>2, <2>3, <2>5, <2>6 DEF StageTurn
<1>7. CountTurn
  BY AtRestPlain, CountStays DEF Plain
<1>8. RemovalTurn /\ ViewTypes'
  BY <1>2, <1>5, CancelTurn DEF RemovalTurn, ViewTypes, TierInv, TierTypes
<1> QED BY <1>4, <1>6, <1>7, <1>8, TurnKeeps

\* A geometry edit cancels the tiers of the layer whose refresh it replaces.
LEMMA EditGeometryKeeps == ASSUME TierInv, NEW a \in Layer, EditGeometry(a) PROVE TierInv'
<1>1. PICK C : C = Current(TierKeys(a))
  OBVIOUS
<1>2. C \in SUBSET entries /\ Cancel(C) /\ C \subseteq BuildsOf({a}) \cup Current(TierKeys(a))
  BY <1>1 DEF EditGeometry, Current
<1> QED BY <1>2, StagedKeeps DEF EditGeometry, selectVars, mapVars, busyVars

\* A replaced store cancels the layer's load as well.
LEMMA DataChangedKeeps == ASSUME TierInv, NEW a \in Layer, DataChanged(a) PROVE TierInv'
<1>1. PICK C : C = BuildsOf({a})
  OBVIOUS
<1>2. C \in SUBSET entries /\ Cancel(C) /\ C \subseteq BuildsOf({a}) \cup Current(TierKeys(a))
  BY <1>1 DEF DataChanged, BuildsOf, Current
<1> QED BY <1>2, StagedKeeps DEF DataChanged, selectVars, busyVars

\* A load is counted and asked for, unless sonar is off.
LEMMA LoadStarts ==
  ASSUME TierInv, AtRest, NEW C \in SUBSET entries, Cancel(C),
         NEW a \in Layer, NEW selected, StartLoad(a, selected, calls)
  PROVE  /\ Turn /\ CountTurn /\ builds' \in Nat
         /\ \A f \in Frames(calls') \ Frames(Rest) : ~RunsTier(f)
<1>1. Plain /\ Rest = <<>> /\ calls = <<>> /\ Frames(Rest) = {}
  BY AtRestPlain
<1>2. CASE quality = Off
  <2>1. calls' = Rest /\ builds' = builds /\ dataState' = dataState
    BY <1>1, <1>2 DEF StartLoad, busyVars
  <2>2. CountTurn
    BY <1>1, <2>1, CountStays DEF Plain
  <2> QED BY <1>1, <2>1, <2>2, TurnNone DEF TierInv, TierTypes
<1>3. CASE quality # Off
  <2>1. PICK f : f = RunCall(LoadOf(a, selected))
    OBVIOUS
  <2>2. calls' = <<f>> \o Rest /\ builds' = builds + 1 /\ builds \in Nat
    BY <1>1, <1>3, <2>1 DEF StartLoad, TierInv, TierTypes
  <2>3. f \in Frame /\ f.call = "run" /\ RunsLoad(f) /\ ~RunsTier(f)
    <3>1. LoadOf(a, selected) \in Request
      BY RequestsMade DEF TierInv, TierTypes
    <3>2. LoadOf(a, selected).kind = "load"
      BY DEF LoadOf
    <3> QED BY <2>1, <3>1, <3>2, FramesMade, CallNames DEF RunsLoad, RunsTier
  <2>4. Turn /\ TopLoad' = 1 /\ \A g \in Frames(calls') \ Frames(Rest) : g = f
    BY <1>1, <2>2, <2>3, TurnOne
  <2>5. CountTurn
    BY <1>1, <2>2, <2>4 DEF CountTurn, Plain
  <2> QED BY <2>2, <2>3, <2>4, <2>5
<1> QED BY <1>2, <1>3

\* A selection loads the layer or upgrades it.
LEMMA SelectKeeps == ASSUME TierInv, NEW a \in Layer, Select(a) PROVE TierInv'
<1>1. /\ AtRest /\ active' = a /\ quality' = quality /\ loaded' = loaded /\ shown' = shown
      /\ staged' = staged /\ generation' = generation /\ params' = params
      /\ removed' = removed /\ Cancel({})
      /\ params \in [Layer -> Nat] /\ quality \in Quality
  BY DEF Select, mapVars, stageVars, TierInv, TierTypes
<1>2. Plain /\ Rest = <<>> /\ calls = <<>> /\ Frames(Rest) = {}
  BY <1>1, AtRestPlain
<1>3. /\ Turn /\ CountTurn /\ builds' \in Nat
      /\ \A f \in Frames(calls') \ Frames(Rest) : RunsTier(f) => f.request.generation = 0 /\ ~RunsLow(f)
  <2>1. CASE a \notin loaded
    BY <1>1, <2>1, LoadStarts DEF Select
  <2>2. CASE a \in loaded
    <3>1. builds' = builds /\ dataState' = dataState /\ builds \in Nat
      BY <2>2 DEF Select, busyVars, TierInv, TierTypes
    <3>2. CountTurn
      BY <1>2, <3>1, CountStays DEF Plain
    <3>3. CASE resident[a] # quality /\ quality > Low
      <4>1. PICK f, q : f = RunCall(TierOf(a, q, "map", 0)) /\ q = quality
        OBVIOUS
      <4>2. calls' = <<f>> \o Rest
        BY <1>2, <2>2, <3>3, <4>1 DEF Select, Push
      <4>3. q \in Quality /\ q # Low
        BY <1>1, <3>3, <4>1 DEF Low
      <4>4. f \in Frame /\ f.call = "run" /\ ~RunsLow(f) /\ f.request.generation = 0
        BY <1>1, <4>1, <4>3, TierCalls
      <4>5. Turn /\ \A g \in Frames(calls') \ Frames(Rest) : g = f
        BY <1>1, <1>2, <4>2, <4>4, TurnOne
      <4> QED BY <3>1, <3>2, <4>4, <4>5
    <3>4. CASE ~(resident[a] # quality /\ quality > Low)
      <4>1. calls' = <<>> \o calls
        BY <2>2, <3>4 DEF Select, Push
      <4>2. calls' = Rest
        BY <1>2, <4>1
      <4> QED BY <1>1, <1>2, <3>1, <3>2, <4>2, TurnNone
    <3> QED BY <3>3, <3>4
  <2> QED BY <2>1, <2>2
<1>4. StageTurn
  <2>1. 0 < generation
    BY GenerationCounts
  <2> QED BY <1>1, <1>3, <2>1, StageStays DEF Cancel
<1>5. RemovalTurn /\ ViewTypes'
  BY <1>1, <1>3, CancelTurn DEF RemovalTurn, ViewTypes, TierInv, TierTypes
<1> QED BY <1>3, <1>4, <1>5, TurnKeeps

\* A layer shown with the survey is loaded.
LEMMA OverviewKeeps == ASSUME TierInv, NEW a \in Layer, Overview(a) PROVE TierInv'
<1>1. /\ AtRest /\ quality' = quality /\ active' = active /\ loaded' = loaded /\ shown' = shown
      /\ staged' = staged /\ generation' = generation /\ params' = params
      /\ removed' = removed /\ Cancel({}) /\ StartLoad(a, FALSE, calls)
  BY DEF Overview, mapVars, stageVars, askVars
<1>2. /\ Turn /\ CountTurn /\ builds' \in Nat
      /\ \A f \in Frames(calls') \ Frames(Rest) : ~RunsTier(f)
  BY <1>1, LoadStarts
<1>3. StageTurn
  BY <1>1, <1>2, StageStays DEF Cancel
<1>4. RemovalTurn /\ ViewTypes'
  BY <1>1, <1>2, CancelTurn DEF RemovalTurn, ViewTypes, TierInv, TierTypes
<1> QED BY <1>2, <1>3, <1>4, TurnKeeps

\* What was cancelled of layers that are no longer staged.
LEMMA StageEnds ==
  ASSUME TierInv, NEW A \in SUBSET Layer, Cancel(BuildsOf(A)), quality' = quality \/ A = Layer,
         generation' = generation,
         \A a \in Layer : IF a \in A THEN staged'[a] = NotStaged ELSE staged'[a] = staged[a],
         \A f \in Frames(calls') \ Frames(Rest) : ~RunsTier(f)
  PROVE  StageTurn
<1>1. ASSUME NEW o \in cancelled' \ cancelled, op[o].kind = "tier"
      PROVE  staged'[op[o].layer] = NotStaged
  <2>1. op[o].layer \in A
    BY <1>1, ReachedBy DEF TierInv, Cancel
  <2> QED BY <2>1
<1>2. \A a \in Layer : staged'[a] = NotStaged \/ (quality' = quality /\ staged'[a] = staged[a])
  OBVIOUS
<1> QED BY <1>1, <1>2 DEF StageTurn

\* A stage that is empty.
LEMMA EmptyStage == NotStaged \in Stage
BY DEF NotStaged, Stage, Quality, Off

\* An unloaded layer leaves the map with all its builds cancelled.
LEMMA UnloadKeeps == ASSUME TierInv, NEW a \in Layer, Unload(a) PROVE TierInv'
<1>1. /\ AtRest /\ quality' = quality /\ generation' = generation /\ builds' = builds
      /\ dataState' = dataState /\ params' = params /\ calls' = calls
      /\ loaded' = loaded \ {a} /\ active' \in {active, NoLayer} /\ Cancel(BuildsOf({a}))
      /\ staged' = [staged EXCEPT ![a] = NotStaged]
      /\ shown' = [b \in Layer |-> IF b \in {a} THEN 0 ELSE shown[b]]
      /\ removed' = [b \in Layer |-> IF b \in {a} THEN nextId ELSE removed[b]]
      /\ nextId' = nextId
  BY DEF Unload, busyVars, Clear, Dropped, Cancel
<1>2. Plain /\ Rest = <<>> /\ calls = <<>> /\ Frames(calls) = {}
  BY <1>1, AtRestPlain
<1>3. PICK C \in SUBSET entries : C = BuildsOf({a})
  BY DEF BuildsOf, Current
<1>4. Turn /\ \A f \in Frames(calls') \ Frames(Rest) : FALSE
  BY <1>1, <1>2, <1>3, TurnNone
<1>5. StageTurn
  BY <1>1, <1>4, StageEnds DEF TierInv, TierTypes
<1>6. CountTurn
  BY <1>1, <1>2, CountStays DEF Plain
<1>7. RemovalTurn
  <2>1. BuildsOf({a}) \subseteq cancelled'
    BY <1>1 DEF Cancel
  <2> QED BY <1>1, <1>2, <2>1 DEF RemovalTurn
<1>8. ViewTypes'
  <2>1. nextId \in Nat
    BY DEF TierInv, LaneInv, LaneTypes
  <2>2. removed' \in [Layer -> Nat] /\ \A b \in Layer : removed'[b] <= nextId
    BY <1>1, <2>1 DEF TierInv, TierTypes
  <2> QED BY <1>1, <2>2, EmptyStage DEF ViewTypes, TierInv, TierTypes
<1> QED BY <1>4, <1>5, <1>6, <1>7, <1>8, TurnKeeps

\* A reloaded layer stays on the map; its builds are cancelled.
LEMMA ReloadKeeps == ASSUME TierInv, NEW a \in Layer, Reload(a) PROVE TierInv'
<1>1. PICK selected : selected = (a = active)
  OBVIOUS
<1>2. PICK C \in SUBSET entries : C = BuildsOf({a})
  BY DEF BuildsOf, Current
<1>3. /\ AtRest /\ quality' = quality /\ active' = active /\ generation' = generation
      /\ params' = params /\ removed' = removed /\ shown' = shown /\ loaded' = loaded \ {a}
      /\ Cancel(BuildsOf({a})) /\ Cancel(C) /\ StartLoad(a, selected, calls)
      /\ staged' = [staged EXCEPT ![a] = NotStaged] /\ nextId' = nextId
  BY <1>1, <1>2 DEF Reload, selectVars, Cancel
<1>4. /\ Turn /\ CountTurn /\ builds' \in Nat
      /\ \A f \in Frames(calls') \ Frames(Rest) : ~RunsTier(f)
  BY <1>3, LoadStarts
<1>5. StageTurn
  BY <1>3, <1>4, StageEnds DEF TierInv, TierTypes
<1>6. RemovalTurn /\ ViewTypes'
  BY <1>3, <1>4, EmptyStage DEF RemovalTurn, ViewTypes, TierInv, TierTypes
<1> QED BY <1>4, <1>5, <1>6, TurnKeeps

\* The layers in some order.
LEMMA LayerSeqs ==
  ASSUME NEW S \in SUBSET Layer, NEW s \in SetToSeqs(S)
  PROVE  s \in Seq(Layer)
<1>1. IsFiniteSet(S)
  BY TiersAssumption, FS_Subset DEF TiersAssumption
<1>2. PICK n \in Nat : n = Cardinality(S)
  BY <1>1, FS_CardinalityType
<1>3. s \in [1..n -> S]
  BY <1>2 DEF SetToSeqs
<1> QED BY <1>2, <1>3

\* The layers are reloaded one by one.
LEMMA ReloadStarts ==
  ASSUME TierInv, AtRest, NEW C \in SUBSET entries, Cancel(C),
         NEW todo \in Seq(Layer), calls' = <<ReloadCall(todo)>>
  PROVE  Turn /\ \A f \in Frames(calls') \ Frames(Rest) : ~RunsTier(f)
<1>1. Plain /\ Rest = <<>> /\ Frames(Rest) = {}
  BY AtRestPlain
<1>2. PICK f \in Frame : f = ReloadCall(todo) /\ f.call = "reload"
  BY FramesMade, CallNames
<1>3. <<f>> \o <<>> = <<f>>
  <2>1. <<f>> \in Seq({f})
    OBVIOUS
  <2> QED BY <2>1, ConcatEmptySeq
<1>4. calls' = <<f>> \o Rest
  BY <1>1, <1>2, <1>3
<1>5. Turn /\ \A g \in Frames(calls') \ Frames(Rest) : g = f
  BY <1>1, <1>2, <1>4, TurnOne
<1> QED BY <1>2, <1>5 DEF RunsTier

\* A new quality ends every refresh; Off empties the map.
LEMMA SetQualityKeeps == ASSUME TierInv, NEW q \in Quality, SetQuality(q) PROVE TierInv'
<1>1. PICK C \in SUBSET entries : C = BuildsOf(Layer)
  BY DEF BuildsOf, Current
<1>2. /\ AtRest /\ quality' = q /\ loaded' = {} /\ Cancel(BuildsOf(Layer)) /\ Cancel(C)
      /\ staged' = [a \in Layer |-> NotStaged] /\ active' = active /\ generation' = generation
      /\ builds' = builds /\ dataState' = dataState /\ params' = params /\ nextId' = nextId
      /\ BuildsOf(Layer) \subseteq cancelled'
  BY <1>1 DEF SetQuality, Forget, busyVars, Cancel
<1>3. Plain /\ Rest = <<>> /\ calls = <<>> /\ Frames(calls) = {} /\ Frames(Rest) = {}
  BY <1>2, AtRestPlain
<1>4. CASE q = Off
  <2>1. /\ calls' = Rest
        /\ shown' = [b \in Layer |-> IF b \in loaded THEN 0 ELSE shown[b]]
        /\ removed' = [b \in Layer |-> IF b \in loaded THEN nextId ELSE removed[b]]
    BY <1>3, <1>4 DEF SetQuality, Clear, Dropped
  <2>2. Turn /\ \A f \in Frames(calls') \ Frames(Rest) : ~RunsTier(f)
    BY <1>2, <1>3, <2>1, TurnNone
  <2>3. StageTurn
    BY <1>2, <2>2, StageEnds
  <2>4. CountTurn
    BY <1>2, <1>3, CountStays DEF Plain
  <2>5. RemovalTurn
    <3>1. ASSUME NEW a \in Layer PROVE BuildsOf({a}) \subseteq BuildsOf(Layer)
      BY DEF BuildsOf, Current
    <3> QED BY <1>2, <1>3, <3>1 DEF RemovalTurn
  <2>6. ViewTypes'
    <3>1. nextId \in Nat
      BY DEF TierInv, LaneInv, LaneTypes
    <3>2. removed' \in [Layer -> Nat] /\ \A b \in Layer : removed'[b] <= nextId
      BY <2>1, <3>1 DEF TierInv, TierTypes
    <3> QED BY <1>2, <2>1, <3>2, EmptyStage DEF ViewTypes, TierInv, TierTypes
  <2> QED BY <2>2, <2>3, <2>4, <2>5, <2>6, TurnKeeps
<1>5. CASE q # Off
  <2>1. PICK first : first = IF active = NoLayer THEN <<>> ELSE <<active>>
    OBVIOUS
  <2>2. PICK others \in SetToSeqs(loaded \ {active}) : calls' = <<ReloadCall(first \o others)>>
    BY <1>5, <2>1 DEF SetQuality
  <2>3. first \o others \in Seq(Layer)
    <3>1. loaded \ {active} \in SUBSET Layer /\ active \in Layer \cup {NoLayer}
      BY DEF TierInv, TierTypes
    <3>2. others \in Seq(Layer)
      BY <2>2, <3>1, LayerSeqs
    <3>3. first \in Seq(Layer)
      BY <2>1, <3>1, Tuples
    <3> QED BY <3>2, <3>3
  <2>4. shown' = shown /\ removed' = removed
    BY <1>5 DEF SetQuality
  <2>5. Turn /\ \A f \in Frames(calls') \ Frames(Rest) : ~RunsTier(f)
    BY <1>2, <2>2, <2>3, ReloadStarts
  <2>6. StageTurn
    BY <1>2, <2>5, StageEnds
  <2>7. CountTurn
    BY <1>2, <1>3, CountStays DEF Plain
  <2>8. RemovalTurn /\ ViewTypes'
    BY <1>2, <2>4, EmptyStage DEF RemovalTurn, ViewTypes, TierInv, TierTypes
  <2> QED BY <2>5, <2>6, <2>7, <2>8, TurnKeeps
<1> QED BY <1>4, <1>5

\* A new CRS ends every refresh and reloads the layers.
LEMMA ChangeCrsKeeps == TierInv /\ ChangeCrs => TierInv'
<1> SUFFICES ASSUME TierInv, ChangeCrs PROVE TierInv'
  OBVIOUS
<1>1. PICK C \in SUBSET entries : C = BuildsOf(Layer)
  BY DEF BuildsOf, Current
<1>2. /\ AtRest /\ quality' = quality /\ loaded' = {} /\ Cancel(BuildsOf(Layer)) /\ Cancel(C)
      /\ staged' = [a \in Layer |-> NotStaged] /\ active' = active /\ generation' = generation
      /\ builds' = builds /\ dataState' = dataState /\ nextId' = nextId
      /\ params' \in [Layer -> Nat] /\ shown' = shown /\ removed' = removed
  BY <1>1, StoredVersions DEF ChangeCrs, Forget, busyVars, selectVars, Cancel, TierInv, TierTypes
<1>3. PICK todo \in SetToSeqs(loaded \cup {active}) : calls' = <<ReloadCall(todo)>>
  BY DEF ChangeCrs
<1>4. todo \in Seq(Layer)
  <2>1. loaded \cup {active} \in SUBSET Layer
    BY DEF ChangeCrs, TierInv, TierTypes
  <2> QED BY <2>1, LayerSeqs
<1>5. Turn /\ \A f \in Frames(calls') \ Frames(Rest) : ~RunsTier(f)
  BY <1>2, <1>3, <1>4, ReloadStarts
<1>6. StageTurn
  BY <1>2, <1>5, StageEnds
<1>7. CountTurn
  BY <1>2, AtRestPlain, CountStays DEF Plain
<1>8. RemovalTurn /\ ViewTypes'
  BY <1>2, EmptyStage DEF RemovalTurn, ViewTypes, TierInv, TierTypes
<1> QED BY <1>5, <1>6, <1>7, <1>8, TurnKeeps

\* A new palette reloads layers and leaves the refreshes alone.
LEMMA RepaletteKeeps == TierInv /\ Repalette => TierInv'
<1> SUFFICES ASSUME TierInv, Repalette PROVE TierInv'
  OBVIOUS
<1>1. /\ AtRest /\ quality' = quality /\ loaded' \subseteq loaded /\ Cancel({})
      /\ staged' = staged /\ active' = active /\ generation' = generation
      /\ builds' = builds /\ dataState' = dataState /\ nextId' = nextId
      /\ params' = params /\ shown' = shown /\ removed' = removed
  BY DEF Repalette, busyVars, selectVars, stageVars, Cancel
<1>2. PICK todo \in SetToSeqs(loaded \ intensity) : calls' = <<ReloadCall(todo)>>
  BY DEF Repalette
<1>3. todo \in Seq(Layer)
  <2>1. loaded \ intensity \in SUBSET Layer
    BY DEF TierInv, TierTypes
  <2> QED BY <2>1, LayerSeqs
<1>4. Turn /\ \A f \in Frames(calls') \ Frames(Rest) : ~RunsTier(f)
  BY <1>1, <1>2, <1>3, ReloadStarts
<1>5. StageTurn
  BY <1>1, <1>4, StageStays DEF Cancel
<1>6. CountTurn
  BY <1>1, AtRestPlain, CountStays DEF Plain
<1>7. RemovalTurn /\ ViewTypes'
  BY <1>1 DEF RemovalTurn, ViewTypes, TierInv, TierTypes
<1> QED BY <1>4, <1>5, <1>6, <1>7, TurnKeeps

\* Whatever the operator asks for.
LEMMA OperatorKeepsTiers == TierInv /\ Operator => TierInv'
<1> SUFFICES ASSUME TierInv, Operator PROVE TierInv'
  OBVIOUS
<1>1. ASSUME NEW a \in Layer,
             \/ EditUnloaded(a) \/ EditLive(a) \/ EditGeometry(a) \/ DataChanged(a)
             \/ Select(a) \/ Overview(a) \/ Unload(a) \/ Reload(a)
      PROVE  TierInv'
  BY <1>1, EditUnloadedKeeps, EditLiveKeeps, EditGeometryKeeps, DataChangedKeeps, SelectKeeps,
     OverviewKeeps, UnloadKeeps, ReloadKeeps
<1>2. ASSUME NEW q \in Quality, SetQuality(q) PROVE TierInv'
  BY <1>2, SetQualityKeeps
<1>3. CASE ChangeCrs \/ Repalette
  BY <1>3, ChangeCrsKeeps, RepaletteKeeps
<1>4. CASE DisplayRaster \/ SwitchProject \/ DeleteProject
  BY <1>4, DisplayRasterKeeps, ClosingKeeps
<1> QED BY <1>1, <1>2, <1>3, <1>4 DEF Operator
-----------------------------------------------------------------------------
(* The controller's frames.                                                *)

\* The call on top is the one that is in progress.
LEMMA TopIn ==
  ASSUME StackInv, NEW n, In(n)
  PROVE  /\ calls # <<>> /\ Top.call = n /\ Rest = Tail(calls) /\ Stacked(Rest)
         /\ Top \in Frame /\ FrameOk(Top) /\ Frames(calls) = {Top} \cup Frames(Rest)
         /\ \A y \in Frames(Rest) : Above(Top, y)
<1>1. calls # <<>> /\ Top.call = n /\ Rest = Tail(calls)
  BY DEF In, Rest
<1> QED BY <1>1, TopOf

\* A reload goes on to its next layer.
LEMMA ReloadNextKeeps == TierInv /\ ReloadNext => TierInv'
<1> SUFFICES ASSUME TierInv, ReloadNext PROVE TierInv'
  OBVIOUS
<1>1. StackInv /\ In("reload") /\ Plain
  BY DEF TierInv, ReloadNext, Plain, In
<1>2. /\ Top.call = "reload" /\ Rest = Tail(calls) /\ Stacked(Rest) /\ Top \in Frame
      /\ \A y \in Frames(Rest) : Above(Top, y)
  BY <1>1, TopIn
<1>3. PICK a \in Layer, todo \in Seq(Layer) : a = Head(Top.todo) /\ todo = Tail(Top.todo)
  <2>1. PICK s \in Seq(Layer) : s = Top.todo
    BY <1>2, FrameFields
  <2>2. s # <<>>
    BY <2>1 DEF ReloadNext
  <2>3. Head(s) \in Layer /\ Tail(s) \in Seq(Layer)
    BY <2>2
  <2> QED BY <2>1, <2>3
<1>4. PICK selected : selected = (a = active)
  OBVIOUS
<1>5. PICK k : k = ReloadCall(todo)
  OBVIOUS
<1>6. /\ StartLoad(a, selected, <<k>> \o Rest) /\ Cancel({})
      /\ quality' = quality /\ active' = active /\ loaded' = loaded /\ shown' = shown
      /\ staged' = staged /\ generation' = generation /\ params' = params
      /\ removed' = removed /\ nextId' = nextId
  BY <1>2, <1>3, <1>4, <1>5 DEF ReloadNext, selectVars, mapVars, stageVars, askVars, Cancel
<1>7. /\ k \in Frame /\ k.call = "reload" /\ ~RunsTier(k) /\ ~RunsLoad(k)
      /\ \A y \in Frames(Rest) : Above(k, y)
  <2>1. k \in Frame /\ k.call = "reload"
    BY <1>5, FramesMade, CallNames
  <2> QED BY <1>2, <2>1 DEF Above, Outer, RunsTier, RunsLoad
<1>8. /\ Turn /\ CountTurn /\ builds' \in Nat
      /\ \A f \in Frames(calls') \ Frames(Rest) : ~RunsTier(f)
  <2>1. CASE quality = Off
    <3>1. calls' = <<k>> \o Rest /\ builds' = builds /\ dataState' = dataState
      BY <1>6, <2>1 DEF StartLoad, busyVars
    <3>2. CountTurn
      BY <1>1, <3>1, CountStays DEF Plain
    <3>3. Turn /\ \A g \in Frames(calls') \ Frames(Rest) : g = k
      BY <1>1, <1>6, <1>7, <3>1, TurnOne
    <3> QED BY <1>7, <3>1, <3>2, <3>3 DEF TierInv, TierTypes
  <2>2. CASE quality # Off
    <3>1. PICK f : f = RunCall(LoadOf(a, selected))
      OBVIOUS
    <3>2. calls' = <<f>> \o (<<k>> \o Rest) /\ builds' = builds + 1 /\ builds \in Nat
      BY <1>6, <2>2, <3>1 DEF StartLoad, TierInv, TierTypes
    <3>3. f \in Frame /\ f.call = "run" /\ RunsLoad(f) /\ ~RunsTier(f)
      <4>1. LoadOf(a, selected) \in Request
        BY RequestsMade DEF TierInv, TierTypes
      <4>2. LoadOf(a, selected).kind = "load"
        BY DEF LoadOf
      <4> QED BY <3>1, <4>1, <4>2, FramesMade, CallNames DEF RunsLoad, RunsTier
    <3>4. Above(f, k) /\ \A y \in Frames(Rest) : Above(f, y)
      BY <1>2, <1>7, <3>3 DEF Above, Outer, RunsLow
    <3>5. /\ Stacked(<<f, k>> \o Rest) /\ Frames(<<f, k>> \o Rest) = {f, k} \cup Frames(Rest)
          /\ <<f, k>> \o Rest # <<>> /\ Head(<<f, k>> \o Rest) = f
      BY <1>2, <1>7, <3>3, <3>4, PileTwo
    <3>6. calls' = <<f, k>> \o Rest
      BY <1>2, <1>7, <3>2, <3>3, JoinedTwo DEF Stacked
    <3>7. TopLoad' = 1
      BY <3>3, <3>5, <3>6 DEF TopLoad
    <3>8. Turn
      BY <1>1, <1>6, <1>7, <3>3, <3>5, <3>6, CancelTurn DEF Turn, Plain
    <3>9. CountTurn
      BY <1>1, <3>2, <3>7 DEF CountTurn, Plain
    <3>10. \A g \in Frames(calls') \ Frames(Rest) : ~RunsTier(g)
      BY <1>7, <3>3, <3>5, <3>6
    <3>11. builds' \in Nat
      BY <3>2
    <3> QED BY <3>8, <3>9, <3>10, <3>11
  <2> QED BY <2>1, <2>2
<1>9. StageTurn
  BY <1>6, <1>8, StageStays DEF Cancel
<1>10. RemovalTurn /\ ViewTypes'
  BY <1>6, <1>8 DEF RemovalTurn, ViewTypes, TierInv, TierTypes
<1> QED BY <1>8, <1>9, <1>10, TurnKeeps

\* A project that closes ends every refresh and every count.
LEMMA DeactivateKeeps == TierInv /\ Deactivate => TierInv'
<1> SUFFICES ASSUME TierInv, Deactivate PROVE TierInv'
  OBVIOUS
<1>1. StackInv /\ In("deactivate") /\ Plain
  BY DEF TierInv, Deactivate, Plain, In
<1>2. /\ Top.call = "deactivate" /\ Rest = Tail(calls) /\ Frames(calls) = {Top} \cup Frames(Rest)
      /\ \A y \in Frames(Rest) : Above(Top, y)
  BY <1>1, TopIn
<1>3. PICK C \in SUBSET entries : C = BuildsOf(Layer)
  BY DEF BuildsOf, Current
<1>4. /\ Cancel(BuildsOf(Layer)) /\ Cancel(C) /\ calls' = Rest
      /\ staged' = [a \in Layer |-> NotStaged] /\ builds' = 0 /\ dataState' = "Idle"
      /\ active' = NoLayer /\ quality' = quality /\ generation' = generation
      /\ params' = params /\ loaded' \subseteq loaded
      /\ nextId' = nextId
  BY <1>2, <1>3 DEF Deactivate, Forget, Return, Cancel
<1>5. /\ shown' \in [Layer -> Nat] /\ removed' \in [Layer -> Nat]
      /\ \A a \in Layer : removed'[a] <= nextId
  <2>1. nextId \in Nat
    BY DEF TierInv, LaneInv, LaneTypes
  <2>2. \/ shown' = shown /\ removed' = removed
        \/ /\ shown' = [b \in Layer |-> IF b \in Layer THEN 0 ELSE shown[b]]
           /\ removed' = [b \in Layer |-> IF b \in Layer THEN nextId ELSE removed[b]]
    BY DEF Deactivate, Clear, Dropped
  <2> QED BY <2>1, <2>2 DEF TierInv, TierTypes
<1>6. Turn /\ \A f \in Frames(calls') \ Frames(Rest) : FALSE
  BY <1>1, <1>4, TurnNone
<1>7. StageTurn
  BY <1>4, <1>6, StageEnds
<1>8. CountTurn
  <2>1. TopLoad' \in {0, 1} /\ builds \in Nat
    BY DEF TopLoad, TierInv, TierTypes
  <2>2. \A n \in Nat, t \in {0, 1} : 0 <= n + t
    OBVIOUS
  <2> QED BY <1>1, <1>4, <2>1, <2>2 DEF CountTurn, Plain
<1>9. RemovalTurn
  <2>1. \A f \in Frames(calls) : f.call \notin {"settle", "complete", "sweep"}
    BY <1>2 DEF Above, Outer
  <2>2. \A a \in Layer : BuildsOf({a}) \subseteq BuildsOf(Layer)
    BY DEF BuildsOf, Current
  <2>3. BuildsOf(Layer) \subseteq cancelled'
    BY <1>4 DEF Cancel
  <2> QED BY <2>1, <2>2, <2>3 DEF RemovalTurn
<1>10. ViewTypes'
  BY <1>4, <1>5, EmptyStage DEF ViewTypes, TierInv, TierTypes
<1> QED BY <1>6, <1>7, <1>8, <1>9, <1>10, TurnKeeps
-----------------------------------------------------------------------------
(* on_done.                                                                *)

\* What a finished handler calls, after a write of the raster to the disk cache or not.
LEMMA SettleTurn ==
  ASSUME TierInv, In("settle"), Cancel({}), NEW more \in Seq(Frame), NEW F \in SUBSET Frame,
         Stacked(more \o Rest), Frames(more \o Rest) = F \cup Frames(Rest),
         FinallyCall(Top.op) \in F,
         \A f \in F :
           /\ \/ f.call = "run"
              \/ /\ f.call \in {"finally", "complete"} /\ f.op = Top.op
                 /\ f.call = "complete" => Top.op \notin cancelled /\ op[Top.op].kind = "tier"
           /\ ~RunsLoad(f) /\ ~RunsLow(f),
         NEW a \in Layer, NEW q \in Quality,
         calls' = more \o Rest \/ calls' = (<<RunCall(WriteOf(a, q))>> \o more) \o Rest
  PROVE  Turn /\ \A f \in Frames(calls') \ Frames(Rest) : RunsTier(f) => f \in F
<1>1. /\ Top.call = "settle" /\ Rest = Tail(calls) /\ Stacked(Rest)
      /\ \A y \in Frames(Rest) : Above(Top, y)
  BY TopIn DEF TierInv
<1>2. PICK w \in Frame : w = RunCall(WriteOf(a, q)) /\ w.call = "run" /\ ~RunsTier(w) /\ ~RunsLoad(w)
  <2>1. WriteOf(a, q) \in Request /\ WriteOf(a, q).kind = "write"
    BY RequestsMade DEF TierInv, TierTypes, WriteOf
  <2> QED BY <2>1, FramesMade, CallNames DEF RunsTier, RunsLoad
<1>3. \A y \in Frames(more \o Rest) : Above(w, y)
  <2>1. \A y \in Frames(Rest) : Above(w, y)
    BY <1>1, <1>2 DEF Above, Outer
  <2>2. \A y \in F : Above(w, y)
    BY <1>2 DEF Above, Outer
  <2> QED BY <2>1, <2>2
<1>4. CASE calls' = more \o Rest
  <2>1. Turn
    BY <1>4, CancelTurn DEF Turn, In
  <2> QED BY <1>4, <2>1
<1>5. CASE calls' = (<<w>> \o more) \o Rest
  <2>1. <<w>> \in Seq(Frame) /\ Rest \in Seq(Frame)
    BY <1>1 DEF Stacked
  <2>2. calls' = <<w>> \o (more \o Rest)
    BY <1>5, <2>1, ConcatAssociative
  <2>3. PICK d : d = more \o Rest
    OBVIOUS
  <2>4. Stacked(<<w>> \o d) /\ Frames(<<w>> \o d) = {w} \cup Frames(d)
    BY <1>3, <2>3, Pile
  <2>5. Stacked(calls') /\ Frames(calls') = ({w} \cup F) \cup Frames(Rest)
    BY <2>2, <2>3, <2>4
  <2>6. Turn
    BY <1>2, <2>5, CancelTurn DEF Turn, In
  <2> QED BY <1>2, <2>5, <2>6
<1> QED BY <1>2, <1>4, <1>5

\* What an outcome may be of.
LEMMA Outcome ==
  ASSUME TierInv, NEW n \in {"settle", "complete", "finally"}, In(n)
  PROVE  /\ Top.op \in Asked /\ op[Top.op] \in Request /\ Rest = Tail(calls) /\ Stacked(Rest)
         /\ \A k : k \in {"load", "tier"} /\ op[Top.op].kind = k =>
              op[Top.op].layer \in Layer /\ op[Top.op].version \in Nat
<1>1. Top.op \in Asked /\ Rest = Tail(calls) /\ Stacked(Rest)
  BY TopIn DEF TierInv, FrameOk
<1>2. op[Top.op] \in Request
  BY <1>1 DEF TierInv, TierTypes
<1> QED BY <1>1, <1>2, RequestFields

\* A finished handler that goes on to on_finally.
LEMMA SettleEnds ==
  ASSUME TierInv, In("settle"), Cancel({}), calls' = <<FinallyCall(Top.op)>> \o Rest
  PROVE  Turn /\ \A f \in Frames(calls') \ Frames(Rest) : ~RunsTier(f)
<1>1. /\ Top.call = "settle" /\ Stacked(Rest) /\ Top \in Frame
      /\ \A y \in Frames(Rest) : Above(Top, y)
  BY TopIn DEF TierInv
<1>2. PICK c \in Frame : c = FinallyCall(Top.op) /\ c.call = "finally" /\ c.op = Top.op
  BY <1>1, FrameFields, FramesMade, CallNames
<1>3. \A y \in Frames(Rest) : Above(c, y)
  BY <1>1, <1>2 DEF Above, Outer, RunsLoad, RunsLow, RunsTier
<1>4. Stacked(calls') /\ Frames(calls') = {c} \cup Frames(Rest)
  BY <1>1, <1>2, <1>3, Pile
<1>5. Turn
  BY <1>2, <1>4, CancelTurn DEF Turn, In
<1> QED BY <1>2, <1>4, <1>5 DEF RunsTier

\* A tier goes on to its completion, then to on_finally.
LEMMA TierSettledKeeps == TierInv /\ TierSettled => TierInv'
<1> SUFFICES ASSUME TierInv, TierSettled PROVE TierInv'
  OBVIOUS
<1>1. PICK o, a, q : o = Top.op /\ a = op[o].layer /\ q = op[o].quality
  OBVIOUS
<1>2. /\ In("settle") /\ Top.op \notin cancelled /\ op[o].kind = "tier" /\ Cancel({}) /\ MapStays
      /\ Top.op \in Asked /\ op[o] \in Request /\ Rest = Tail(calls) /\ Stacked(Rest)
  BY <1>1, Outcome, MapUnchanged DEF TierSettled, Settles, Discarded
<1>3. a \in Layer /\ q \in Quality
  BY <1>1, <1>2, RequestFields
<1>4. PICK x, c \in Frame :
        /\ x = CompleteCall(o) /\ x.call = "complete" /\ x.op = o
        /\ c = FinallyCall(o) /\ c.call = "finally" /\ c.op = o
  BY <1>1, <1>2, FramesMade, CallNames DEF Asked
<1>5. /\ \A y \in Frames(Rest) : Above(x, y) /\ Above(c, y)
      /\ Above(x, c)
  <2>1. Top.call = "settle" /\ \A y \in Frames(Rest) : Above(Top, y)
    BY <1>2, TopIn DEF TierInv
  <2> QED BY <1>4, <2>1 DEF Above, Outer, RunsLoad, RunsLow, RunsTier
<1>6. Stacked(<<x, c>> \o Rest) /\ Frames(<<x, c>> \o Rest) = {x, c} \cup Frames(Rest)
  BY <1>2, <1>4, <1>5, PileTwo
<1>7. <<x, c>> \in Seq(Frame) /\ {x, c} \in SUBSET Frame
  OBVIOUS
<1>8. calls' = <<x, c>> \o Rest \/ calls' = (<<RunCall(WriteOf(a, q))>> \o <<x, c>>) \o Rest
  BY <1>1, <1>2, <1>4 DEF TierSettled, MaybeWrite, Become
<1>9. \A f \in {x, c} : ~RunsLoad(f) /\ ~RunsLow(f) /\ ~RunsTier(f)
  BY <1>4 DEF RunsLoad, RunsLow, RunsTier
<1>10. Turn /\ \A f \in Frames(calls') \ Frames(Rest) : RunsTier(f) => f \in {x, c}
  <2>1. PICK more \in Seq(Frame), F \in SUBSET Frame : more = <<x, c>> /\ F = {x, c}
    BY <1>7
  <2>2. /\ Stacked(more \o Rest) /\ Frames(more \o Rest) = F \cup Frames(Rest)
        /\ FinallyCall(Top.op) \in F
        /\ calls' = more \o Rest \/ calls' = (<<RunCall(WriteOf(a, q))>> \o more) \o Rest
    BY <1>1, <1>4, <1>6, <1>8, <2>1
  <2>3. \A f \in F :
          /\ \/ f.call = "run"
             \/ /\ f.call \in {"finally", "complete"} /\ f.op = Top.op
                /\ f.call = "complete" => Top.op \notin cancelled /\ op[Top.op].kind = "tier"
          /\ ~RunsLoad(f) /\ ~RunsLow(f)
    BY <1>1, <1>2, <1>4, <1>9, <2>1
  <2>4. Turn /\ \A f \in Frames(calls') \ Frames(Rest) : RunsTier(f) => f \in F
    BY <1>2, <1>3, <2>2, <2>3, SettleTurn
  <2> QED BY <2>1, <2>4
<1> QED BY <1>2, <1>9, <1>10, TurnStays DEF Cancel, In

\* A raster or a write has nothing to complete.
LEMMA OtherSettledKeeps == TierInv /\ OtherSettled => TierInv'
<1> SUFFICES ASSUME TierInv, OtherSettled PROVE TierInv'
  OBVIOUS
<1>1. In("settle") /\ Cancel({}) /\ MapStays /\ Rest = Tail(calls)
  BY MapUnchanged, Outcome DEF OtherSettled, Settles
<1>2. calls' = <<FinallyCall(Top.op)>> \o Rest
  BY <1>1 DEF OtherSettled, Become
<1>3. Turn /\ \A f \in Frames(calls') \ Frames(Rest) : ~RunsTier(f)
  BY <1>1, <1>2, SettleEnds
<1> QED BY <1>1, <1>3, TurnStays DEF Cancel, In

\* A load shows its raster and may ask for the upgrade it staged.
LEMMA LoadSettledKeeps == TierInv /\ LoadSettled => TierInv'
<1> SUFFICES ASSUME TierInv, LoadSettled PROVE TierInv'
  OBVIOUS
<1>1. PICK o, r, a : o = Top.op /\ r = op[o] /\ a = r.layer
  OBVIOUS
<1>2. /\ In("settle") /\ r.kind = "load" /\ Cancel({}) /\ Top.op \in Asked /\ r \in Request
      /\ Rest = Tail(calls) /\ Stacked(Rest)
      /\ quality' = quality /\ active' = active /\ staged' = staged /\ generation' = generation
      /\ builds' = builds /\ dataState' = dataState /\ params' = params /\ removed' = removed
      /\ shown' = [shown EXCEPT ![a] = r.version] /\ loaded' = loaded \cup {a}
  BY <1>1, Outcome DEF LoadSettled, Settles, Show, selectVars, stageVars, busyVars, askVars
<1>3. a \in Layer /\ r.version \in Nat /\ r.next \in {Off, High}
  BY <1>1, <1>2, RequestFields
<1>4. Low \in Quality /\ High \in Quality /\ High # Low /\ Off # High
  BY DEF Quality, High, Low, Off
<1>5. Top.call = "settle" /\ \A y \in Frames(Rest) : Above(Top, y)
  BY <1>2, TopIn DEF TierInv
<1>6. PICK c \in Frame : c = FinallyCall(o) /\ c.call = "finally" /\ c.op = o
  BY <1>1, <1>2, FramesMade, CallNames DEF Asked
<1>7. /\ \A y \in Frames(Rest) : Above(c, y)
      /\ ~RunsLoad(c) /\ ~RunsLow(c) /\ ~RunsTier(c)
  BY <1>5, <1>6 DEF Above, Outer, RunsLoad, RunsLow, RunsTier
<1>8. PICK t : t = RunCall(TierOf(a, High, "map", 0))
  OBVIOUS
<1>9. /\ t \in Frame /\ t.call = "run" /\ ~RunsLoad(t) /\ ~RunsLow(t) /\ t.request.generation = 0
      /\ Above(t, c) /\ \A y \in Frames(Rest) : Above(t, y)
  <2>1. t \in Frame /\ t.call = "run" /\ ~RunsLoad(t) /\ ~RunsLow(t) /\ t.request.generation = 0
    BY <1>3, <1>4, <1>8, TierCalls DEF TierInv, TierTypes
  <2> QED BY <1>5, <1>6, <1>7, <2>1 DEF Above, Outer
<1>10. PICK more \in Seq(Frame), F \in SUBSET Frame :
         /\ F = {c} \/ F = {t, c}
         /\ Stacked(more \o Rest) /\ Frames(more \o Rest) = F \cup Frames(Rest)
         /\ calls' = more \o Rest \/ calls' = (<<RunCall(WriteOf(a, Low))>> \o more) \o Rest
  <2>1. PICK upgrades, more : /\ upgrades = (r.next # Off /\ project /\ quality = r.next)
                              /\ more = (IF upgrades THEN <<t>> ELSE <<>>) \o <<c>>
    OBVIOUS
  <2>2. calls' = more \o Rest \/ calls' = (<<RunCall(WriteOf(a, Low))>> \o more) \o Rest
    <3>1. upgrades => r.next = High
      BY <1>3, <2>1
    <3>2. more = (IF r.next # Off /\ project /\ quality = r.next
                  THEN <<RunCall(TierOf(a, r.next, "map", 0))>> ELSE <<>>) \o <<FinallyCall(o)>>
      BY <1>6, <1>8, <2>1, <3>1
    <3> QED BY <1>1, <1>2, <3>2 DEF LoadSettled, MaybeWrite, Become
  <2>3. CASE upgrades
    <3>1. more = <<t, c>>
      BY <2>1, <2>3, Joined
    <3>2. <<t, c>> \in Seq(Frame) /\ {t, c} \in SUBSET Frame
      BY <1>9
    <3>3. Stacked(<<t, c>> \o Rest) /\ Frames(<<t, c>> \o Rest) = {t, c} \cup Frames(Rest)
      BY <1>2, <1>7, <1>9, PileTwo
    <3> QED BY <2>2, <3>1, <3>2, <3>3
  <2>4. CASE ~upgrades
    <3>1. <<c>> \in Seq(Frame) /\ {c} \in SUBSET Frame
      OBVIOUS
    <3>2. more = <<c>>
      BY <2>1, <2>4, <3>1, ConcatEmptySeq
    <3>3. Stacked(<<c>> \o Rest) /\ Frames(<<c>> \o Rest) = {c} \cup Frames(Rest)
      BY <1>2, <1>7, Pile
    <3> QED BY <2>2, <3>1, <3>2, <3>3
  <2> QED BY <2>3, <2>4
<1>11. Turn /\ \A f \in Frames(calls') \ Frames(Rest) : RunsTier(f) => f \in F
  <2>1. FinallyCall(Top.op) \in F
    BY <1>1, <1>6, <1>10
  <2>2. \A f \in F :
          /\ \/ f.call = "run"
             \/ /\ f.call \in {"finally", "complete"} /\ f.op = Top.op
                /\ f.call = "complete" => Top.op \notin cancelled /\ op[Top.op].kind = "tier"
          /\ ~RunsLoad(f) /\ ~RunsLow(f)
    BY <1>1, <1>6, <1>7, <1>9, <1>10
  <2> QED BY <1>2, <1>3, <1>4, <1>10, <2>1, <2>2, SettleTurn
<1>12. StageTurn
  <2>1. 0 < generation
    BY <1>3, GenerationCounts
  <2>2. \A f \in Frames(calls') \ Frames(Rest) : RunsTier(f) =>
          f.request.generation < generation /\ ~RunsLow(f)
    BY <1>7, <1>9, <1>10, <1>11, <2>1
  <2> QED BY <1>2, <2>2, StageStays DEF Cancel
<1>13. CountTurn
  BY <1>2, <1>5, CountStays DEF In
<1>14. RemovalTurn /\ ViewTypes'
  BY <1>2, <1>3, CancelTurn DEF RemovalTurn, ViewTypes, TierInv, TierTypes
<1> QED BY <1>11, <1>12, <1>13, <1>14, TurnKeeps

\* A failed build completes nothing.
LEMMA BuildFailsKeeps == TierInv /\ BuildFails => TierInv'
<1> SUFFICES ASSUME TierInv, BuildFails PROVE TierInv'
  OBVIOUS
<1>1. In("settle") /\ Cancel({}) /\ MapStays /\ Rest = Tail(calls)
  BY Outcome DEF BuildFails, Settles, MapStays, selectVars, mapVars, stageVars, busyVars
<1>2. calls' = <<FinallyCall(Top.op)>> \o Rest
  BY <1>1 DEF BuildFails, Become
<1>3. Turn /\ \A f \in Frames(calls') \ Frames(Rest) : ~RunsTier(f)
  BY <1>1, <1>2, SettleEnds
<1> QED BY <1>1, <1>3, TurnStays DEF Cancel, In
-----------------------------------------------------------------------------
(* A tier is complete.                                                     *)

\* The step leaves all but the stages and the rasters alone.
LEMMA CompleteKeeps ==
  ASSUME TierInv, Plain, Turn, StageTurn, cancelled' = cancelled,
         quality' = quality, active' = active, loaded' = loaded, builds' = builds,
         dataState' = dataState, params' = params, removed' = removed,
         staged' \in [Layer -> Stage], shown' \in [Layer -> Nat]
  PROVE  TierInv'
<1>1. CountTurn
  BY CountStays DEF Plain
<1>2. RemovalTurn /\ ViewTypes'
  BY DEF RemovalTurn, ViewTypes, TierInv, TierTypes, Turn
<1> QED BY <1>1, <1>2, TurnKeeps

\* A refresh goes on from its preview to its target.
LEMMA PromoteTurn ==
  ASSUME TierInv, NEW a \in Layer, NEW f, quality' = quality, generation' = generation,
         cancelled' = cancelled, staged[a] # NotStaged, Promote(a),
         \A g \in Frames(calls') \ Frames(Rest) : g = f,
         f.request.generation < generation, ~RunsLow(f)
  PROVE  StageTurn /\ staged' \in [Layer -> Stage]
<1>1. staged[a] \in Stage /\ staged \in [Layer -> Stage]
  BY DEF TierInv, TierTypes
<1>2. staged' = [staged EXCEPT ![a] = [staged[a] EXCEPT !.awaiting = FALSE]]
  BY <1>1 DEF Promote
<1>3. [staged[a] EXCEPT !.awaiting = FALSE] \in Stage
  BY <1>1 DEF Stage
<1> QED BY <1>1, <1>2, <1>3 DEF StageTurn

\* A refresh ends.
LEMMA UnstageTurn ==
  ASSUME TierInv, NEW a \in Layer, quality' = quality, generation' = generation,
         cancelled' = cancelled, Unstage(a),
         \A g \in Frames(calls') \ Frames(Rest) : FALSE
  PROVE  StageTurn /\ staged' \in [Layer -> Stage]
<1>1. staged \in [Layer -> Stage]
  BY DEF TierInv, TierTypes
<1> QED BY <1>1, EmptyStage DEF StageTurn, Unstage

\* What a preview's target asks for.
LEMMA TargetCalls ==
  ASSUME TierInv, NEW o \in Asked, NEW r, r = op[o], r.kind = "tier", IsPreview(r)
  PROVE  LET f == RunCall(TargetOf(r)) IN
         /\ r.layer \in Layer /\ staged[r.layer] # NotStaged
         /\ f \in Frame /\ f.call = "run" /\ ~RunsLoad(f) /\ ~RunsLow(f)
         /\ f.request.generation < generation
<1>1. r \in Request
  BY DEF TierInv, TierTypes
<1>2. r.layer \in Layer /\ r.generation \in Nat /\ r.generation < generation
  BY <1>1, RequestFields DEF TierInv, Generations
<1>3. staged[r.layer] # NotStaged /\ staged[r.layer].target = High
  BY <1>2, GenerationCounts DEF IsPreview, OfStage, IsStaged
<1>4. PICK a, g, f : a = r.layer /\ g = r.generation /\ f = RunCall(TierOf(a, High, "apply", g))
  OBVIOUS
<1>5. High \in Quality /\ High # Low
  BY DEF Quality, High, Low
<1>6. /\ f \in Frame /\ f.call = "run" /\ ~RunsLoad(f) /\ ~RunsLow(f)
      /\ f.request.generation = g
  BY <1>2, <1>4, <1>5, TierCalls DEF TierInv, TierTypes
<1>7. RunCall(TargetOf(r)) = f
  BY <1>3, <1>4 DEF TargetOf
<1> QED BY <1>2, <1>3, <1>4, <1>6, <1>7

\* What a completed tier is about.
LEMMA Completed ==
  ASSUME TierInv, In("complete"), Cancel({})
  PROVE  LET r == op[Top.op] IN
         /\ r.kind = "tier" /\ r \in Request /\ Top.op \in Asked
         /\ r.layer \in Layer /\ r.version \in Nat
         /\ Rest = Tail(calls) /\ Plain /\ cancelled' = cancelled
         /\ \A f \in Frame : f.call = "run" => \A y \in Frames(Rest) : Above(f, y)
<1>1. /\ Top.call = "complete" /\ FrameOk(Top) /\ Rest = Tail(calls)
      /\ \A y \in Frames(Rest) : Above(Top, y)
  BY TopIn DEF TierInv
<1>2. Top.op \in Asked /\ op[Top.op] \in Request /\ op[Top.op].kind = "tier"
  BY <1>1 DEF FrameOk, TierInv, TierTypes
<1>3. op[Top.op].layer \in Layer /\ op[Top.op].version \in Nat
  BY <1>2, RequestFields
<1>4. \A f \in Frame : f.call = "run" => \A y \in Frames(Rest) : Above(f, y)
  BY <1>1 DEF Above, Outer
<1> QED BY <1>1, <1>2, <1>3, <1>4 DEF Plain, Cancel, In

\* A preview promotes its refresh, or ends it when its layer is gone.
LEMMA PreviewCompleteKeeps == TierInv /\ PreviewComplete => TierInv'
<1> SUFFICES ASSUME TierInv, PreviewComplete PROVE TierInv'
  OBVIOUS
<1>1. PICK o, r : o = Top.op /\ r = op[o]
  OBVIOUS
<1>2. /\ r.kind = "tier" /\ r \in Request /\ o \in Asked
      /\ r.layer \in Layer /\ r.version \in Nat
      /\ Rest = Tail(calls) /\ Plain /\ cancelled' = cancelled /\ Cancel({})
      /\ \A f \in Frame : f.call = "run" => \A y \in Frames(Rest) : Above(f, y)
  BY <1>1, Completed DEF PreviewComplete
<1>3. /\ IsPreview(r) /\ quality' = quality /\ active' = active /\ loaded' = loaded
      /\ builds' = builds /\ dataState' = dataState /\ params' = params /\ removed' = removed
      /\ generation' = generation
  BY <1>1 DEF PreviewComplete, selectVars, busyVars, askVars
<1>4. shown' \in [Layer -> Nat]
  <2>1. shown' = shown \/ shown' = [shown EXCEPT ![r.layer] = r.version]
    BY <1>1 DEF PreviewComplete, Show
  <2> QED BY <1>2, <2>1 DEF TierInv, TierTypes
<1>5. CASE r.layer \in loaded
  <2>1. PICK f : f = RunCall(TargetOf(r))
    OBVIOUS
  <2>2. /\ staged[r.layer] # NotStaged /\ f \in Frame /\ f.call = "run" /\ ~RunsLoad(f)
        /\ ~RunsLow(f) /\ f.request.generation < generation
    BY <1>1, <1>2, <1>3, <2>1, TargetCalls
  <2>3. Promote(r.layer) /\ calls' = <<f>> \o Rest
    BY <1>1, <1>2, <1>5, <2>1 DEF PreviewComplete, Become
  <2>4. Turn /\ \A g \in Frames(calls') \ Frames(Rest) : g = f
    BY <1>2, <2>2, <2>3, TurnOne
  <2>5. StageTurn /\ staged' \in [Layer -> Stage]
    BY <1>2, <1>3, <2>2, <2>3, <2>4, PromoteTurn
  <2> QED BY <1>2, <1>3, <1>4, <2>4, <2>5, CompleteKeeps
<1>6. CASE r.layer \notin loaded
  <2>1. Unstage(r.layer) /\ calls' = Rest
    BY <1>1, <1>2, <1>6 DEF PreviewComplete, Return
  <2>2. Turn /\ \A g \in Frames(calls') \ Frames(Rest) : FALSE
    BY <1>2, <2>1, TurnNone
  <2>3. StageTurn /\ staged' \in [Layer -> Stage]
    BY <1>2, <1>3, <2>1, <2>2, UnstageTurn
  <2> QED BY <1>2, <1>3, <1>4, <2>2, <2>3, CompleteKeeps
<1> QED BY <1>5, <1>6

\* A target ends its refresh.
LEMMA TargetCompleteKeeps == TierInv /\ TargetComplete => TierInv'
<1> SUFFICES ASSUME TierInv, TargetComplete PROVE TierInv'
  OBVIOUS
<1>1. PICK o, r : o = Top.op /\ r = op[o]
  OBVIOUS
<1>2. /\ r.layer \in Layer /\ r.version \in Nat
      /\ Rest = Tail(calls) /\ Plain /\ cancelled' = cancelled /\ Cancel({})
  BY <1>1, Completed DEF TargetComplete
<1>3. /\ quality' = quality /\ active' = active /\ loaded' = loaded
      /\ builds' = builds /\ dataState' = dataState /\ params' = params /\ removed' = removed
      /\ generation' = generation /\ Unstage(r.layer) /\ calls' = Rest
  BY <1>1, <1>2 DEF TargetComplete, selectVars, busyVars, askVars, Return
<1>4. shown' \in [Layer -> Nat]
  <2>1. shown' = shown \/ shown' = [shown EXCEPT ![r.layer] = r.version]
    BY <1>1 DEF TargetComplete, Show
  <2> QED BY <1>2, <2>1 DEF TierInv, TierTypes
<1>5. Turn /\ \A g \in Frames(calls') \ Frames(Rest) : FALSE
  BY <1>2, <1>3, TurnNone
<1>6. StageTurn /\ staged' \in [Layer -> Stage]
  BY <1>2, <1>3, <1>5, UnstageTurn
<1> QED BY <1>2, <1>3, <1>4, <1>5, <1>6, CompleteKeeps

\* A tier no refresh waits for leaves the refreshes alone.
LEMMA OtherCompleteKeeps == TierInv /\ OtherComplete => TierInv'
<1> SUFFICES ASSUME TierInv, OtherComplete PROVE TierInv'
  OBVIOUS
<1>1. PICK o, r : o = Top.op /\ r = op[o]
  OBVIOUS
<1>2. /\ r.layer \in Layer /\ r.version \in Nat
      /\ Rest = Tail(calls) /\ Plain /\ cancelled' = cancelled /\ Cancel({})
  BY <1>1, Completed DEF OtherComplete
<1>3. /\ quality' = quality /\ active' = active /\ loaded' = loaded
      /\ builds' = builds /\ dataState' = dataState /\ params' = params /\ removed' = removed
      /\ generation' = generation /\ staged' = staged /\ calls' = Rest
  BY <1>1, <1>2 DEF OtherComplete, selectVars, stageVars, busyVars, askVars, Return
<1>4. shown' \in [Layer -> Nat]
  <2>1. shown' = shown \/ shown' = [shown EXCEPT ![r.layer] = r.version]
    BY <1>1 DEF OtherComplete, Show
  <2> QED BY <1>2, <2>1 DEF TierInv, TierTypes
<1>5. Turn /\ \A g \in Frames(calls') \ Frames(Rest) : FALSE
  BY <1>2, <1>3, TurnNone
<1>6. StageTurn
  BY <1>2, <1>3, <1>5, StageStays
<1>7. staged' \in [Layer -> Stage]
  BY <1>3 DEF TierInv, TierTypes
<1> QED BY <1>2, <1>3, <1>4, <1>5, <1>6, <1>7, CompleteKeeps
-----------------------------------------------------------------------------
(* on_finally.                                                             *)

\* The manager's books when an on_finally returns, or asks for one more tier.
LEMMA FinallyTurn ==
  ASSUME TierInv, In("finally"), FinallyManager, NEW F \in SUBSET Frame,
         Stacked(calls'), Frames(calls') = F \cup Frames(Rest),
         \A f \in F : f.call = "run"
  PROVE  Turn /\ cancelled' = cancelled /\ \A f \in Frames(calls') \ Frames(Rest) : f \in F
<1>1. Top.call = "finally" /\ calls # <<>>
  BY DEF In
<1> QED BY <1>1 DEF Turn, FinallyManager, Finalised, In

\* An on_finally that does nothing for the manager.
LEMMA FinallyReturns ==
  ASSUME TierInv, In("finally"), FinallyManager, calls' = Tail(calls)
  PROVE  Turn /\ cancelled' = cancelled /\ \A f \in Frames(calls') \ Frames(Rest) : FALSE
<1>1. Rest = Tail(calls) /\ Stacked(Rest)
  BY Outcome
<1>2. {} \in SUBSET Frame /\ Frames(calls') = {} \cup Frames(Rest) /\ Stacked(calls')
  BY <1>1
<1>3. PICK F \in SUBSET Frame : F = {}
  BY <1>2
<1>4. Turn /\ cancelled' = cancelled /\ \A f \in Frames(calls') \ Frames(Rest) : f \in F
  BY <1>2, <1>3, FinallyTurn
<1> QED BY <1>3, <1>4

\* A load is counted out just once.
LEMMA LoadCountedOut ==
  ASSUME TierInv, In("finally"), FinallyManager, op[Top.op].kind = "load",
         builds' = (IF builds > 0 THEN builds - 1 ELSE 0),
         dataState' = (IF builds' = 0 /\ dataState = "Loading" THEN "Ready" ELSE dataState)
  PROVE  builds' \in Nat /\ Counted'
<1>1. /\ Top.op \in Asked /\ Top.op \in OpId
      /\ builds \in Nat /\ builds <= Cardinality(OpenLoads) + TopLoad
      /\ nextId' = nextId /\ op' = op /\ finals' = [finals EXCEPT ![Top.op] = @ + 1]
      /\ finals \in [OpId -> Nat]
  BY Outcome DEF Asked, TierInv, TierTypes, Counted, FinallyManager, Finalised
<1>2. TopLoad = 0
  <2>1. Head(calls).call = "finally"
    BY DEF In, Top
  <2> QED BY <2>1 DEF TopLoad, RunsLoad
<1>3. TopLoad' \in {0, 1}
  BY DEF TopLoad
<1>4. PICK o \in OpId : o = Top.op
  BY <1>1
<1>5. OpenLoads' = OpenLoads \ {o}
  <2>1. finals'[o] = finals[o] + 1 /\ \A p \in OpId \ {o} : finals'[p] = finals[p]
    BY <1>1, <1>4
  <2>2. finals'[o] # 0
    BY <1>1, <2>1
  <2>3. \A p \in OpId : p \in OpenLoads' <=> p \in OpenLoads \ {o}
    BY <1>1, <2>1, <2>2 DEF OpenLoads, Asked
  <2> QED BY <2>3 DEF OpenLoads, Asked
<1>6. PICK n \in Nat, m \in Nat : /\ n = Cardinality(OpenLoads) /\ m = Cardinality(OpenLoads')
                                  /\ (m = n \/ m = n - 1)
  <2>1. IsFiniteSet(OpenLoads) /\ Cardinality(OpenLoads) \in Nat
    BY OpenFinite
  <2>2. IsFiniteSet(OpenLoads') /\ Cardinality(OpenLoads') \in Nat
    BY <1>5, <2>1, FS_Subset, FS_CardinalityType
  <2>3. CASE o \in OpenLoads
    BY <1>5, <2>1, <2>2, <2>3, FS_RemoveElement
  <2>4. CASE o \notin OpenLoads
    BY <1>5, <2>1, <2>2, <2>4
  <2> QED BY <2>3, <2>4
<1>7. builds <= n
  BY <1>1, <1>2, <1>6
<1>8. builds' \in Nat /\ builds' <= m
  BY <1>1, <1>6, <1>7
<1>9. builds' <= m + TopLoad'
  BY <1>3, <1>8
<1>10. dataState' = "Loading" => builds' > 0
  <2>1. CASE builds' = 0
    <3>1. dataState' # "Loading"
      BY <2>1
    <3> QED BY <3>1
  <2>2. \A k \in Nat : k # 0 => k > 0
    OBVIOUS
  <2> QED BY <1>8, <2>1, <2>2, Zenon
<1> QED BY <1>6, <1>8, <1>9, <1>10 DEF Counted

\* A load is counted out when its on_finally is called, whatever its outcome.
LEMMA LoadFinallyKeeps == TierInv /\ LoadFinally => TierInv'
<1> SUFFICES ASSUME TierInv, LoadFinally PROVE TierInv'
  OBVIOUS
<1>1. /\ In("finally") /\ FinallyManager /\ op[Top.op].kind = "load" /\ calls' = Tail(calls)
      /\ quality' = quality /\ active' = active /\ loaded' = loaded /\ staged' = staged
      /\ generation' = generation /\ params' = params /\ shown' = shown
      /\ removed' = removed /\ nextId' = nextId
  BY DEF LoadFinally, Return, selectVars, mapVars, stageVars, askVars, FinallyManager
<1>2. Turn /\ cancelled' = cancelled /\ \A f \in Frames(calls') \ Frames(Rest) : FALSE
  BY <1>1, FinallyReturns
<1>3. builds' \in Nat /\ Counted'
  BY <1>1, LoadCountedOut DEF LoadFinally
<1>4. StageTurn
  BY <1>1, <1>2, StageStays
<1>5. RemovalTurn /\ ViewTypes'
  BY <1>1, <1>3 DEF RemovalTurn, ViewTypes, TierInv, TierTypes
<1>6. LaneInv' /\ KeyBooks' /\ StackInv' /\ Registered' /\ LoadsHeld' /\ Newest(Settling)'
  BY <1>2, TurnBooks
<1>7. Recent' /\ Unpreviewed' /\ TierTypes' /\ Generations'
  BY <1>2, <1>4, <1>5, TurnRecent, TurnPreviews, TurnTypes, TurnGenerations DEF ViewTypes
<1> QED BY <1>3, <1>6, <1>7 DEF TierInv

\* A raster or a write was never counted.
LEMMA OtherFinallyKeeps == TierInv /\ OtherFinally => TierInv'
<1> SUFFICES ASSUME TierInv, OtherFinally PROVE TierInv'
  OBVIOUS
<1>1. /\ In("finally") /\ FinallyManager /\ op[Top.op].kind # "load" /\ calls' = Tail(calls)
      /\ MapStays
  BY MapUnchanged DEF OtherFinally, Return
<1>2. Turn /\ cancelled' = cancelled /\ \A f \in Frames(calls') \ Frames(Rest) : FALSE
  BY <1>1, FinallyReturns
<1> QED BY <1>1, <1>2, TurnStays

\* A tier's on_finally leaves all but the stages alone.
LEMMA EndKeeps ==
  ASSUME TierInv, In("finally"), op[Top.op].kind = "tier", Turn, StageTurn,
         cancelled' = cancelled, quality' = quality, active' = active, loaded' = loaded,
         builds' = builds, dataState' = dataState, params' = params, removed' = removed,
         staged' \in [Layer -> Stage], shown' = shown
  PROVE  TierInv'
<1>1. CountTurn
  BY CountStays
<1>2. RemovalTurn /\ ViewTypes'
  BY DEF RemovalTurn, ViewTypes, TierInv, TierTypes, Turn
<1> QED BY <1>1, <1>2, TurnKeeps

\* A preview that never came promotes its refresh, from a sweep but not from a pump.
LEMMA TierFinallyKeeps == TierInv /\ TierFinally => TierInv'
<1> SUFFICES ASSUME TierInv, TierFinally PROVE TierInv'
  OBVIOUS
<1>1. PICK o, r : o = Top.op /\ r = op[o]
  OBVIOUS
<1>2. /\ In("finally") /\ FinallyManager /\ r.kind = "tier"
      /\ quality' = quality /\ active' = active /\ loaded' = loaded /\ shown' = shown
      /\ generation' = generation /\ builds' = builds /\ dataState' = dataState
      /\ params' = params /\ removed' = removed /\ nextId' = nextId /\ cancelled' = cancelled
  BY <1>1 DEF TierFinally, selectVars, mapVars, busyVars, askVars, FinallyManager
<1>3. /\ o \in Asked /\ r \in Request /\ Rest = Tail(calls) /\ Stacked(Rest)
      /\ r.layer \in Layer
      /\ \A y \in Frames(Rest) : Above(Top, y)
      /\ Frames(calls) = {Top} \cup Frames(Rest)
  BY <1>1, <1>2, Outcome, TopIn DEF TierInv
<1>4. CASE GoesOn(r)
  <2>1. PICK f : f = RunCall(TargetOf(r))
    OBVIOUS
  <2>2. IsPreview(r) /\ AsPreview(o)
    BY <1>1, <1>2, <1>4 DEF GoesOn, AsPreview
  <2>3. /\ staged[r.layer] # NotStaged /\ f \in Frame /\ f.call = "run" /\ ~RunsLoad(f)
        /\ ~RunsLow(f) /\ f.request.generation < generation
    BY <1>1, <1>2, <1>3, <2>1, <2>2, TargetCalls
  <2>4. Promote(r.layer) /\ calls' = <<f>> \o Rest
    <3>1. GoesOn(op[Top.op]) /\ ~EndsStage(op[Top.op])
      BY <1>1, <1>4 DEF GoesOn, EndsStage, IsPreview, IsTarget
    <3>2. Promote(op[Top.op].layer) /\ Become(<<RunCall(TargetOf(op[Top.op]))>>)
      BY <3>1, Zenon DEF TierFinally
    <3> QED BY <1>1, <1>3, <2>1, <3>2 DEF Become
  <2>5. \A y \in Frames(Rest) : y.call \notin {"pump", "settle"}
    BY <1>1, <1>2, <1>3, <2>2 DEF TierInv, Unpreviewed
  <2>6. \A y \in Frames(Rest) : Above(f, y)
    BY <1>3, <2>3, <2>5 DEF Above, Outer
  <2>7. Stacked(calls') /\ Frames(calls') = {f} \cup Frames(Rest)
    BY <1>3, <2>3, <2>4, <2>6, Pile
  <2>8. PICK F \in SUBSET Frame : F = {f}
    BY <2>3
  <2>9. Turn /\ \A g \in Frames(calls') \ Frames(Rest) : g \in F
    BY <1>2, <2>3, <2>7, <2>8, FinallyTurn
  <2>10. \A g \in Frames(calls') \ Frames(Rest) : g = f
    BY <2>8, <2>9
  <2>11. StageTurn /\ staged' \in [Layer -> Stage]
    BY <1>2, <1>3, <2>3, <2>4, <2>10, PromoteTurn
  <2> QED BY <1>1, <1>2, <2>9, <2>11, EndKeeps
<1>5. CASE ~GoesOn(r)
  <2>1. calls' = Tail(calls) /\ (Unstage(r.layer) \/ staged' = staged)
    <3>1. CASE EndsStage(r)
      BY <1>1, <1>5, <3>1 DEF TierFinally, Return
    <3>2. CASE ~EndsStage(r)
      BY <1>1, <1>5, <3>2 DEF TierFinally, Return
    <3> QED BY <3>1, <3>2
  <2>2. Turn /\ \A f \in Frames(calls') \ Frames(Rest) : FALSE
    BY <1>2, <2>1, FinallyReturns
  <2>3. StageTurn /\ staged' \in [Layer -> Stage]
    <3>1. CASE Unstage(r.layer)
      BY <1>2, <1>3, <2>2, <3>1, UnstageTurn
    <3>2. CASE staged' = staged
      BY <1>2, <2>2, <3>2, StageStays DEF TierInv, TierTypes
    <3> QED BY <2>1, <3>1, <3>2
  <2> QED BY <1>1, <1>2, <2>2, <2>3, EndKeeps
<1> QED BY <1>4, <1>5

\* Whatever the controller's calls do.
LEMMA ControllerKeepsTiers == TierInv /\ Controller => TierInv'
<1> SUFFICES ASSUME TierInv, Controller PROVE TierInv'
  OBVIOUS
<1>1. CASE ReloadNext      BY <1>1, ReloadNextKeeps
<1>2. CASE ReloadDone      BY <1>2, ReloadDoneKeeps
<1>3. CASE Deactivate      BY <1>3, DeactivateKeeps
<1>4. CASE CloseDialog     BY <1>4, CloseDialogKeeps
<1>5. CASE LoadSettled     BY <1>5, LoadSettledKeeps
<1>6. CASE TierSettled     BY <1>6, TierSettledKeeps
<1>7. CASE OtherSettled    BY <1>7, OtherSettledKeeps
<1>8. CASE BuildFails      BY <1>8, BuildFailsKeeps
<1>9. CASE PreviewComplete BY <1>9, PreviewCompleteKeeps
<1>10. CASE TargetComplete BY <1>10, TargetCompleteKeeps
<1>11. CASE OtherComplete  BY <1>11, OtherCompleteKeeps
<1>12. CASE LoadFinally    BY <1>12, LoadFinallyKeeps
<1>13. CASE TierFinally    BY <1>13, TierFinallyKeeps
<1>14. CASE OtherFinally   BY <1>14, OtherFinallyKeeps
<1> QED BY <1>1, <1>2, <1>3, <1>4, <1>5, <1>6, <1>7, <1>8, <1>9, <1>10, <1>11, <1>12,
           <1>13, <1>14 DEF Controller
-----------------------------------------------------------------------------
(* The invariant, and what it is for.                                      *)

\* Nothing is under way at the start.
LEMMA TiersInit == Init => TierInv
<1> SUFFICES ASSUME Init PROVE TierInv
  OBVIOUS
<1>1. ManagerInit /\ calls = <<>> /\ nextId = 1
  BY DEF Init, ManagerInit
<1>2. Asked = {} /\ Frames(calls) = {} /\ Stacked(calls)
  BY <1>1, NoFrames DEF Asked, OpId
<1>3. LaneInv /\ KeyBooks
  BY <1>1, LaneInvInit, KeyInit
<1>4. TierTypes
  <2>1. quality \in Quality
    BY DEF Init, Quality
  <2>2. finals \in [OpId -> Nat] /\ \A o \in OpId : finals[o] = 0
    BY <1>1 DEF ManagerInit
  <2>3. cancelled = {}
    BY <1>1 DEF ManagerInit
  <2> QED BY <1>1, <1>2, <2>1, <2>2, <2>3, EmptyStage DEF Init, TierTypes
<1>5. StackInv
  BY <1>2 DEF StackInv
<1>6. \A l \in Lane : waiting[l] = <<>> /\ Len(waiting[l]) = 0 /\ 1..Len(waiting[l]) = {}
  BY <1>1 DEF ManagerInit
<1>7. Registered /\ Recent /\ Unpreviewed
  <2>1. launched = {} /\ ~In("finally")
    BY <1>1 DEF ManagerInit, In
  <2> QED BY <1>2, <1>6, <2>1 DEF Registered, Recent, Unpreviewed
<1>8. LoadsHeld /\ OpenLoads = {}
  BY <1>2 DEF LoadsHeld, OpenLoads
<1>9. Counted
  <2>1. TopLoad = 0 /\ builds = 0 /\ dataState # "Loading"
    BY <1>1 DEF TopLoad, Init
  <2>2. Cardinality(OpenLoads) \in Nat
    BY OpenFinite
  <2>3. \A n \in Nat : 0 <= n + 0
    OBVIOUS
  <2> QED BY <2>1, <2>2, <2>3 DEF Counted
<1>10. Generations
  <2>1. \A a \in Layer : staged[a] = NotStaged
    BY DEF Init
  <2>2. NotStaged.generation = 0 /\ NotStaged.awaiting = FALSE /\ generation = 1
    BY DEF NotStaged, Init
  <2> QED BY <1>2, <2>1, <2>2 DEF Generations
<1>11. Newest(Settling)
  <2>1. Settling = {}
    BY <1>1 DEF Settling, SettlingIn
  <2> QED BY <2>1 DEF Newest
<1> QED BY <1>3, <1>4, <1>5, <1>7, <1>8, <1>9, <1>10, <1>11 DEF TierInv

\* Nothing happens.
LEMMA TiersStutter == TierInv /\ UNCHANGED vars => TierInv'
<1> SUFFICES ASSUME TierInv, UNCHANGED vars PROVE TierInv'
  OBVIOUS
<1> USE DEF vars, managerVars, viewVars, selectVars, mapVars, stageVars, busyVars, askVars
<1>1. LaneInv' /\ KeyBooks'
  BY LaneInvStutter, KeyCancel DEF TierInv, laneVars
<1>2. TierTypes' /\ StackInv'
  BY DEF TierInv, TierTypes, StackInv, FrameOk, Asked
<1>3. Registered' /\ Recent'
  BY DEF TierInv, Registered, Recent, IsRecent, SweepsOf
<1>4. LoadsHeld' /\ Counted'
  BY DEF TierInv, LoadsHeld, Held, SweepsOf, Counted, OpenLoads, TopLoad, Asked
<1>5. Generations'
  BY DEF TierInv, Generations, Asked
<1>6. Unpreviewed'
  BY DEF TierInv, Unpreviewed, AsPreview, IsPreview, OfStage, IsStaged, ToSweep, In, Top, Asked
<1>7. Newest(Settling)'
  BY DEF TierInv, Newest, Settling, Asked
<1> QED BY <1>1, <1>2, <1>3, <1>4, <1>5, <1>6, <1>7 DEF TierInv

\* TierInv is inductive.
LEMMA TiersStep == TierInv /\ [Next]_vars => TierInv'
<1> SUFFICES ASSUME TierInv, [Next]_vars PROVE TierInv'
  OBVIOUS
<1>1. CASE Operator   BY <1>1, OperatorKeepsTiers
<1>2. CASE Controller BY <1>2, ControllerKeepsTiers
<1>3. CASE Manager    BY <1>3, ManagerKeepsTiers
<1>4. ASSUME NEW o \in OpId, PoolFinishes(o) PROVE TierInv'
  BY <1>4, PoolKeepsTiers
<1>5. CASE UNCHANGED vars
  BY <1>5, TiersStutter
<1>6. CASE Resting    BY <1>6, <1>5 DEF Resting
<1> QED BY <1>1, <1>2, <1>3, <1>4, <1>5, <1>6 DEF Next

\* TierInv holds in every behaviour.
LEMMA TiersAlways == Spec => []TierInv
BY TiersInit, TiersStep, PTL DEF Spec

\* on_done is called for the newest operation of its key only, whatever the map
\* controller asks for from its callbacks, while lanes drain and projects close.
THEOREM MapLatestWins == Spec => []LatestWins
<1>1. TierInv => LatestWins
  <2> SUFFICES ASSUME TierInv PROVE LatestWins
    OBVIOUS
  <2>1. In("settle") => Top.op \in Settling
    <3> SUFFICES ASSUME In("settle") PROVE Top.op \in Settling
      OBVIOUS
    <3>1. Top \in Frames(calls) /\ Top.call = "settle" /\ Top.op \in OpId
      BY TopIn DEF TierInv, FrameOk, Asked
    <3> QED BY <3>1 DEF Settling, SettlingIn, Frames
  <2> QED BY <2>1, SettlesNewest DEF TierInv, LaneInv
<1> QED BY <1>1, TiersAlways, PTL

\* The viewer is not left Loading: at rest the builds that are counted are among the
\* loads on the pool or in a queue, through failures, cancels, reloads and closes.
THEOREM BusyAlwaysEnds == Spec => []BusyEnds
<1>1. TierInv => BusyEnds
  <2> SUFFICES ASSUME TierInv PROVE BusyEnds
    OBVIOUS
  <2>1. builds \in Nat /\ builds <= Cardinality(OpenLoads) + TopLoad
        /\ (dataState = "Loading" => builds > 0)
    BY DEF TierInv, TierTypes, Counted
  <2>2. ASSUME AtRest, Loads = {} PROVE builds = 0 /\ dataState # "Loading"
    <3>1. Frames(calls) = {} /\ TopLoad = 0
      BY <2>2, RestCalls DEF TopLoad, AtRest
    <3>2. ASSUME NEW o \in OpenLoads PROVE FALSE
      <4>1. Held(o) /\ o \in OpId /\ op[o].kind = "load"
        BY <3>2 DEF TierInv, LoadsHeld, OpenLoads, Asked
      <4>2. CASE o \in launched
        BY <2>2, <4>1, <4>2 DEF Loads, Pending
      <4>3. ASSUME NEW l \in Lane, InQueue(o, waiting[l]) PROVE FALSE
        <5>1. PICK i \in 1..Len(waiting[l]) : waiting[l][i] = o
          BY <4>3 DEF InQueue
        <5>2. <<l, i>> \in Places(o)
          BY <5>1, PlacesOf DEF TierInv, LaneInv
        <5> QED BY <2>2, <4>1, <5>2 DEF Loads, Pending
      <4> QED BY <3>1, <4>1, <4>2, <4>3 DEF Held
    <3>3. Cardinality(OpenLoads) = 0
      BY <3>2, FS_EmptySet
    <3>4. builds = 0
      BY <2>1, <3>1, <3>3
    <3> QED BY <2>1, <3>4
  <2> QED BY <2>1, <2>2 DEF BusyEnds
<1> QED BY <1>1, TiersAlways, PTL

\* The operator's steps only ever take rasters off the map.
LEMMA OperatorClears ==
  ASSUME TierInv, Operator
  PROVE  shown' = shown \/ \E as \in SUBSET Layer : Clear(as)
<1> USE DEF mapVars, viewVars
<1>1. ASSUME NEW a \in Layer, EditUnloaded(a) \/ EditLive(a) \/ EditGeometry(a) \/ DataChanged(a)
                                \/ Select(a) \/ Overview(a) \/ Reload(a)
      PROVE  shown' = shown
  BY <1>1 DEF EditUnloaded, EditLive, EditGeometry, DataChanged, Select, Overview, Reload
<1>2. ASSUME NEW a \in Layer, Unload(a) PROVE \E as \in SUBSET Layer : Clear(as)
  <2>1. Clear({a}) /\ {a} \in SUBSET Layer
    BY <1>2 DEF Unload
  <2> QED BY <2>1
<1>3. ASSUME NEW q \in Quality, SetQuality(q)
      PROVE  shown' = shown \/ \E as \in SUBSET Layer : Clear(as)
  <2>1. shown' = shown \/ Clear(loaded)
    BY <1>3 DEF SetQuality
  <2>2. loaded \in SUBSET Layer
    BY DEF TierInv, TierTypes
  <2> QED BY <2>1, <2>2
<1>4. CASE ChangeCrs \/ Repalette \/ DisplayRaster \/ SwitchProject \/ DeleteProject
  BY <1>4 DEF ChangeCrs, Repalette, DisplayRaster, SwitchProject, DeleteProject
<1> QED BY <1>1, <1>2, <1>3, <1>4 DEF Operator

\* What a completed or loaded raster changes.
LEMMA ShownBy ==
  ASSUME TierInv, NEW n \in {"settle", "complete"}, In(n),
         n = "settle" => Top.op \notin cancelled /\ op[Top.op].kind = "load",
         shown' = shown \/ shown' = [shown EXCEPT ![op[Top.op].layer] = op[Top.op].version]
  PROVE  \A a \in Layer : shown'[a] \notin {0, shown[a]} => Top.op >= removed[a]
<1> SUFFICES ASSUME NEW a \in Layer, shown'[a] \notin {0, shown[a]}
             PROVE  Top.op >= removed[a]
  OBVIOUS
<1>1. a = op[Top.op].layer
  BY DEF TierInv, TierTypes
<1>2. Top \in Frames(calls) /\ Top.call = n /\ FrameOk(Top)
  BY TopIn DEF TierInv
<1>3. op[Top.op].kind \in Building
  BY <1>2 DEF FrameOk, Building
<1>4. IsRecent(Top.op)
  BY <1>2 DEF TierInv, Recent
<1> QED BY <1>1, <1>3, <1>4 DEF IsRecent

\* A build that was asked for before its layer left the map, by unloadLayer, by Off or
\* by a project switch, is never shown, however late its result comes.
THEOREM LateResultsAreDropped == Spec => LateResultsDropped
<1>1. ASSUME TierInv, [Next]_vars
      PROVE  [\A a \in Layer : shown'[a] \notin {0, shown[a]} => Top.op >= removed[a]]_vars
  <2> DEFINE Dropping == \A a \in Layer : shown'[a] \notin {0, shown[a]} => Top.op >= removed[a]
  <2> SUFFICES Dropping
    OBVIOUS
  <2>1. ASSUME shown' = shown PROVE Dropping
    BY <2>1
  <2>2. ASSUME NEW as \in SUBSET Layer, Clear(as) PROVE Dropping
    BY <2>2 DEF Clear, Dropped
  <2> USE DEF mapVars, viewVars
  <2>3. CASE Operator
    <3>1. shown' = shown \/ \E as \in SUBSET Layer : Clear(as)
      BY <1>1, <2>3, OperatorClears
    <3> QED BY <2>1, <2>2, <3>1
  <2>4. CASE LoadSettled
    BY <1>1, <2>4, ShownBy DEF LoadSettled, Settles, Discarded, Show
  <2>5. CASE PreviewComplete \/ TargetComplete \/ OtherComplete
    BY <1>1, <2>5, ShownBy DEF PreviewComplete, TargetComplete, OtherComplete, Show
  <2>6. CASE Deactivate
    BY <2>1, <2>2, <2>6 DEF Deactivate
  <2>7. CASE ReloadNext \/ ReloadDone \/ CloseDialog \/ TierSettled \/ OtherSettled \/ BuildFails
    BY <2>1, <2>7 DEF ReloadNext, ReloadDone, CloseDialog, TierSettled, OtherSettled, BuildFails
  <2>8. CASE LoadFinally \/ TierFinally \/ OtherFinally
    BY <2>1, <2>8 DEF LoadFinally, TierFinally, OtherFinally
  <2>9. CASE Manager
    BY <2>1, <2>9 DEF Manager
  <2>10. CASE \E o \in OpId : PoolFinishes(o)
    BY <2>1, <2>10 DEF PoolFinishes
  <2>11. CASE Resting \/ UNCHANGED vars
    BY <2>1, <2>11 DEF Resting, vars
  <2> QED BY <1>1, <2>3, <2>4, <2>5, <2>6, <2>7, <2>8, <2>9, <2>10, <2>11 DEF Next, Controller
<1> QED BY <1>1, TiersAlways, PTL DEF Spec, LateResultsDropped
-----------------------------------------------------------------------------
(* What may still reach the map.                                           *)

Queued(o)        == \E l \in Lane : InQueue(o, waiting[l])
CallFor(name, o) == \E f \in Frames(calls) : f.call = name /\ f.op = o

\* An operation whose result will be looked at, or is being.
Alive(o) ==
  \/ o \notin cancelled /\ (o \in launched \/ Queued(o) \/ CallFor("settle", o))
  \/ CallFor("complete", o)

\* The builds of a layer that are under way or about to be asked for.
Coming(a) ==
  {r \in Request : /\ r.kind \in Building /\ r.layer = a
                   /\ \/ \E o \in Asked : op[o] = r /\ Alive(o)
                      \/ \E f \in Frames(calls) : f.call = "run" /\ f.request = r}

\* Two stacks put together.
LEMMA FramesJoin ==
  ASSUME NEW S, NEW s \in Seq(S), NEW c \in Seq(S)
  PROVE  Frames(s \o c) = Frames(s) \cup Frames(c)
<1>1. /\ Len(s) \in Nat /\ Len(c) \in Nat /\ DOMAIN s = 1..Len(s) /\ DOMAIN c = 1..Len(c)
      /\ DOMAIN (s \o c) = 1..(Len(s) + Len(c))
      /\ \A i \in 1..(Len(s) + Len(c)) : (s \o c)[i] = IF i <= Len(s) THEN s[i] ELSE c[i - Len(s)]
  OBVIOUS
<1>2. ASSUME NEW i \in 1..(Len(s) + Len(c)) PROVE (s \o c)[i] \in Frames(s) \cup Frames(c)
  <2>1. CASE i <= Len(s)
    BY <1>1, <2>1 DEF Frames
  <2>2. CASE ~(i <= Len(s))
    <3>1. i - Len(s) \in 1..Len(c)
      BY <1>1, <2>2
    <3> QED BY <1>1, <2>2, <3>1 DEF Frames
  <2> QED BY <2>1, <2>2
<1>3. ASSUME NEW i \in 1..Len(s) PROVE s[i] \in Frames(s \o c)
  <2>1. i \in 1..(Len(s) + Len(c)) /\ i <= Len(s)
    BY <1>1
  <2> QED BY <1>1, <2>1 DEF Frames
<1>4. ASSUME NEW i \in 1..Len(c) PROVE c[i] \in Frames(s \o c)
  <2>1. /\ Len(s) + i \in 1..(Len(s) + Len(c)) /\ ~(Len(s) + i <= Len(s))
        /\ (Len(s) + i) - Len(s) = i
    BY <1>1
  <2> QED BY <1>1, <2>1 DEF Frames
<1> QED BY <1>1, <1>2, <1>3, <1>4 DEF Frames

\* Short stacks.
LEMMA FramesOf ==
  ASSUME NEW c, c \in Seq(Frame)
  PROVE  /\ \A x \in Frame : Frames(<<x>> \o c) = {x} \cup Frames(c)
         /\ \A x, y \in Frame : Frames(<<x, y>> \o c) = {x, y} \cup Frames(c)
<1>1. ASSUME NEW x \in Frame, NEW y \in Frame
      PROVE  /\ Frames(<<x>> \o c) = {x} \cup Frames(c)
             /\ Frames(<<x, y>> \o c) = {x, y} \cup Frames(c)
  <2>1. <<x>> \in Seq(Frame) /\ <<x, y>> \in Seq(Frame)
    OBVIOUS
  <2>2. DOMAIN <<x>> = {1} /\ DOMAIN <<x, y>> = {1, 2}
    OBVIOUS
  <2>3. Frames(<<x>>) = {x} /\ Frames(<<x, y>>) = {x, y}
    BY <2>2 DEF Frames
  <2>4. PICK s \in Seq(Frame), t \in Seq(Frame) : s = <<x>> /\ t = <<x, y>>
    BY <2>1
  <2>5. Frames(s \o c) = Frames(s) \cup Frames(c) /\ Frames(t \o c) = Frames(t) \cup Frames(c)
    BY FramesJoin
  <2> QED BY <2>3, <2>4, <2>5
<1> QED BY <1>1

\* What comes, when operations and calls only end.
LEMMA FewerCome ==
  ASSUME nextId' = nextId, op' = op, NEW a,
         \A o \in Asked : Alive(o)' => Alive(o),
         \A f \in Frames(calls') : f.call = "run" => f \in Frames(calls)
  PROVE  Coming(a)' \subseteq Coming(a)
<1>1. Asked' = Asked
  BY DEF Asked
<1>2. ASSUME NEW r \in Coming(a)' PROVE r \in Coming(a)
  <2>1. r \in Request /\ r.kind \in Building /\ r.layer = a
    BY <1>2 DEF Coming
  <2>2. CASE \E o \in Asked' : op'[o] = r /\ Alive(o)'
    BY <1>1, <2>1, <2>2 DEF Coming
  <2>3. CASE \E f \in Frames(calls') : f.call = "run" /\ f.request = r
    BY <2>1, <2>3 DEF Coming
  <2> QED BY <1>2, <2>2, <2>3 DEF Coming
<1> QED BY <1>2

\* What comes, when none of them does.
LEMMA AllCome ==
  ASSUME nextId' = nextId, op' = op, NEW a,
         \A o \in Asked : Alive(o) => Alive(o)',
         \A f \in Frames(calls) : f.call = "run" => f \in Frames(calls')
  PROVE  Coming(a) \subseteq Coming(a)'
<1>1. Asked' = Asked
  BY DEF Asked
<1>2. ASSUME NEW r \in Coming(a) PROVE r \in Coming(a)'
  <2>1. r \in Request /\ r.kind \in Building /\ r.layer = a
    BY <1>2 DEF Coming
  <2>2. CASE \E o \in Asked : op[o] = r /\ Alive(o)
    BY <1>1, <2>1, <2>2 DEF Coming
  <2>3. CASE \E f \in Frames(calls) : f.call = "run" /\ f.request = r
    BY <2>1, <2>3 DEF Coming
  <2> QED BY <1>2, <2>2, <2>3 DEF Coming
<1> QED BY <1>2

\* The manager is emptied; the map is to be cleared once it is.
Winding == \E f \in Frames(calls) : f.call \in {"cancelAll", "sweep"}
Closing == \E f \in Frames(calls) : f.call = "deactivate" /\ f.clear

\* An operation whose handler runs has left the registry.
Settled == \A f \in Frames(calls) : f.call = "settle" => f.op \notin entries

\* A step of the manager or of the pool that asks for nothing.
FlowStep ==
  /\ nextId' = nextId /\ op' = op /\ (Settled => Settled')
  /\ \A a \in Layer : Coming(a)' \subseteq Coming(a)
  /\ \A f \in Frames(calls') : f.call \in {"run", "reload", "complete"} => f \in Frames(calls)
  /\ Winding' => Winding
  /\ Closing => Closing'
  /\ \/ Winding
     \/ /\ \A a \in Layer : Coming(a) \subseteq Coming(a)'
        /\ \A f \in Frames(calls) : f.call = "finally" => f \in Frames(calls')

\* The stack as a sequence.
LEMMA StackSeq ==
  ASSUME TierInv
  PROVE  /\ calls \in Seq(Frame) /\ Frames(calls) \subseteq Frame
         /\ calls # <<>> => /\ Tail(calls) \in Seq(Frame) /\ Top \in Frame
                            /\ Frames(calls) = {Top} \cup Frames(Tail(calls))
                            /\ \A y \in Frames(Tail(calls)) : Above(Top, y)
<1>1. StackInv /\ calls \in Seq(Frame)
  BY DEF TierInv, StackInv, Stacked
<1> QED BY <1>1, FramesAre, TopOf DEF Stacked

\* A finished handler that finds its operation cancelled.
LEMMA SettleCancelledFlows == TierInv /\ SettleCancelled => FlowStep
<1> SUFFICES ASSUME TierInv, SettleCancelled PROVE FlowStep
  OBVIOUS
<1>1. /\ In("settle") /\ Top.op \in cancelled /\ calls # <<>> /\ Top.call = "settle"
      /\ nextId' = nextId /\ op' = op /\ cancelled' = cancelled
      /\ waiting' = waiting /\ launched' = launched
      /\ calls' = <<FinallyCall(Top.op)>> \o Tail(calls)
  BY DEF SettleCancelled, Discarded, Become, In
<1>2. PICK x \in Frame : x = FinallyCall(Top.op) /\ x.call = "finally"
  BY <1>1, StackSeq, FrameFields, FramesMade, CallNames
<1>3. Frames(calls) = {Top} \cup Frames(Tail(calls)) /\ Frames(calls') = {x} \cup Frames(Tail(calls))
  BY <1>1, <1>2, StackSeq, FramesOf
<1>4. \A o \in Asked : Alive(o)' <=> Alive(o)
  BY <1>1, <1>2, <1>3 DEF Alive, CallFor, Queued
<1>5. \A f : f.call \notin {"settle", "finally"} => (f \in Frames(calls) <=> f \in Frames(calls'))
  BY <1>1, <1>2, <1>3
<1>6. \A f \in Frames(calls) : f.call = "finally" => f \in Frames(calls')
  BY <1>1, <1>3
<1>7. \A a \in Layer : Coming(a)' \subseteq Coming(a) /\ Coming(a) \subseteq Coming(a)'
  BY <1>1, <1>4, <1>5, FewerCome, AllCome
<1>8. Settled => Settled'
  <2>1. entries' \subseteq entries
    BY DEF SettleCancelled
  <2> QED BY <1>1, <1>2, <1>3, <2>1 DEF Settled
<1> QED BY <1>1, <1>5, <1>6, <1>7, <1>8 DEF FlowStep, Winding, Closing

\* pumpLane drops a cancelled head.
LEMMA DropFlows == ASSUME TierInv, NEW l \in Lane, PumpDrop(l) PROVE FlowStep
<1>1. PICK o : o = Head(waiting[l])
  OBVIOUS
<1>2. /\ CanPump(l) /\ o \in cancelled /\ waiting' = [waiting EXCEPT ![l] = Tail(@)]
      /\ calls' = <<FinallyCall(o)>> \o calls
      /\ nextId' = nextId /\ op' = op /\ cancelled' = cancelled /\ launched' = launched
  BY <1>1 DEF PumpDrop, Push
<1>3. /\ o \in OpId
      /\ \A k \in Lane : \A x : InQueue(x, waiting'[k]) <=> InQueue(x, waiting[k]) /\ x # o
  BY <1>1, <1>2, PumpHead
<1>4. PICK x \in Frame : x = FinallyCall(o) /\ x.call = "finally"
  BY <1>3, FramesMade, CallNames
<1>5. Frames(calls') = {x} \cup Frames(calls)
  BY <1>2, <1>4, StackSeq, FramesOf
<1>6. \A p \in Asked : Alive(p)' <=> Alive(p)
  BY <1>2, <1>3, <1>4, <1>5 DEF Alive, CallFor, Queued
<1>7. \A a \in Layer : Coming(a)' \subseteq Coming(a) /\ Coming(a) \subseteq Coming(a)'
  BY <1>2, <1>4, <1>5, <1>6, FewerCome, AllCome
<1>8. Settled => Settled'
  <2>1. entries' \subseteq entries
    BY DEF PumpDrop
  <2> QED BY <1>4, <1>5, <2>1 DEF Settled
<1> QED BY <1>2, <1>4, <1>5, <1>7, <1>8 DEF FlowStep, Winding, Closing

\* pumpLane starts the head of a queue.
LEMMA StartFlows == ASSUME TierInv, NEW l \in Lane, PumpStart(l) PROVE FlowStep
<1>1. PICK o : o = Head(waiting[l])
  OBVIOUS
<1>2. /\ CanPump(l) /\ o \notin cancelled /\ waiting' = [waiting EXCEPT ![l] = Tail(@)]
      /\ launched' = launched \cup {o} /\ calls' = calls
      /\ nextId' = nextId /\ op' = op /\ cancelled' = cancelled
  BY <1>1 DEF PumpStart
<1>3. /\ InQueue(o, waiting[l])
      /\ \A k \in Lane : \A x : InQueue(x, waiting'[k]) <=> InQueue(x, waiting[k]) /\ x # o
  BY <1>1, <1>2, PumpHead
<1>4. \A p \in Asked : Alive(p)' <=> Alive(p)
  BY <1>2, <1>3 DEF Alive, CallFor, Queued
<1>5. \A a \in Layer : Coming(a)' \subseteq Coming(a) /\ Coming(a) \subseteq Coming(a)'
  BY <1>2, <1>4, FewerCome, AllCome
<1>6. Settled => Settled'
  <2>1. entries' \subseteq entries
    BY DEF PumpStart
  <2> QED BY <1>2, <2>1 DEF Settled
<1> QED BY <1>2, <1>5, <1>6 DEF FlowStep, Winding, Closing

\* pumpLane ends.
LEMMA PumpDoneFlows == TierInv /\ PumpDone => FlowStep
<1> SUFFICES ASSUME TierInv, PumpDone PROVE FlowStep
  OBVIOUS
<1>1. /\ calls # <<>> /\ Top.call = "pump" /\ calls' = Tail(calls)
      /\ nextId' = nextId /\ op' = op /\ cancelled' = cancelled
      /\ waiting' = waiting /\ launched' = launched
  BY DEF PumpDone, Return, In
<1>2. Frames(calls) = {Top} \cup Frames(calls')
  BY <1>1, StackSeq
<1>3. \A p \in Asked : Alive(p)' <=> Alive(p)
  BY <1>1, <1>2 DEF Alive, CallFor, Queued
<1>4. \A a \in Layer : Coming(a)' \subseteq Coming(a) /\ Coming(a) \subseteq Coming(a)'
  BY <1>1, <1>2, <1>3, FewerCome, AllCome
<1>5. Settled => Settled'
  <2>1. entries' \subseteq entries
    BY DEF PumpDone
  <2> QED BY <1>2, <2>1 DEF Settled
<1> QED BY <1>1, <1>2, <1>4, <1>5 DEF FlowStep, Winding, Closing

\* The calls of the sweeps that follow, and what was below.
LEMMA SweepFrames ==
  ASSUME TierInv, In("cancelAll") \/ In("sweep"), NEW ls \in SUBSET Lane, NextSweep(ls)
  PROVE  /\ Frames(calls) = {Top} \cup Frames(Tail(calls)) /\ Winding
         /\ \A y \in Frames(Tail(calls)) : y.call \in Outer
         /\ Frames(Tail(calls)) \subseteq Frames(calls')
         /\ \A f \in Frames(calls') : f \in Frames(Tail(calls)) \/ f.call = "sweep"
<1>1. /\ calls # <<>> /\ Top \in Frame /\ Top.call \in {"cancelAll", "sweep"}
      /\ Frames(calls) = {Top} \cup Frames(Tail(calls)) /\ Tail(calls) \in Seq(Frame)
      /\ \A y \in Frames(Tail(calls)) : y.call \in Outer
  BY UnderSweep, StackSeq DEF TierInv
<1>2. CASE ls = {}
  BY <1>1, <1>2 DEF NextSweep, Return, Winding
<1>3. CASE ls # {}
  <2>1. PICK k \in ls : calls' = <<SweepCall(k, waiting[k], ls \ {k})>> \o Tail(calls)
    BY <1>3 DEF NextSweep, Become
  <2>2. PICK x : x = SweepCall(k, waiting[k], ls \ {k}) /\ x.call = "sweep"
    BY CallNames
  <2>3. x \in Frame
    <3>1. waiting[k] \in Seq(OpId) /\ k \in Lane /\ ls \ {k} \in SUBSET Lane
      BY DEF TierInv, LaneInv, LaneTypes
    <3> QED BY <2>2, <3>1, FramesMade
  <2>4. Frames(calls') = {x} \cup Frames(Tail(calls))
    BY <1>1, <2>1, <2>2, <2>3, FramesOf
  <2> QED BY <1>1, <2>2, <2>4 DEF Winding
<1> QED BY <1>2, <1>3

\* cancelAll cancels what is registered.
LEMMA CancelAllFlows == TierInv /\ CancelAll => FlowStep
<1> SUFFICES ASSUME TierInv, CancelAll PROVE FlowStep
  OBVIOUS
<1>1. PICK ls \in SUBSET Lane : NextSweep(ls)
  BY DEF CancelAll
<1>2. /\ In("cancelAll") /\ cancelled \subseteq cancelled' /\ nextId' = nextId /\ op' = op
      /\ waiting' = waiting /\ launched' = launched /\ Top.call = "cancelAll"
  BY DEF CancelAll, In
<1>3. /\ Frames(calls) = {Top} \cup Frames(Tail(calls)) /\ Winding
      /\ \A y \in Frames(Tail(calls)) : y.call \in Outer
      /\ Frames(Tail(calls)) \subseteq Frames(calls')
      /\ \A f \in Frames(calls') : f \in Frames(Tail(calls)) \/ f.call = "sweep"
  BY <1>1, <1>2, SweepFrames
<1>4. \A p \in Asked : Alive(p)' => Alive(p)
  BY <1>2, <1>3 DEF Alive, CallFor, Queued
<1>5. \A a \in Layer : Coming(a)' \subseteq Coming(a)
  BY <1>2, <1>3, <1>4, FewerCome
<1>6. Settled => Settled'
  <2>1. entries' \subseteq entries
    BY DEF CancelAll
  <2> QED BY <1>3, <2>1 DEF Settled
<1> QED BY <1>2, <1>3, <1>5, <1>6 DEF FlowStep, Closing, Outer

\* A sweep clears its queue, whatever it holds by now.
LEMMA ClearFlows == TierInv /\ SweepClear => FlowStep
<1> SUFFICES ASSUME TierInv, SweepClear PROVE FlowStep
  OBVIOUS
<1>1. In("sweep") /\ Top.call = "sweep" /\ Top.lane \in Lane /\ Top.lanes \in SUBSET Lane
  BY StackSeq, FrameFields DEF SweepClear, In
<1>2. /\ waiting' = [waiting EXCEPT ![Top.lane] = <<>>] /\ NextSweep(Top.lanes)
      /\ nextId' = nextId /\ op' = op /\ cancelled' = cancelled /\ launched' = launched
  BY DEF SweepClear
<1>3. /\ Frames(calls) = {Top} \cup Frames(Tail(calls)) /\ Winding
      /\ \A y \in Frames(Tail(calls)) : y.call \in Outer
      /\ Frames(Tail(calls)) \subseteq Frames(calls')
      /\ \A f \in Frames(calls') : f \in Frames(Tail(calls)) \/ f.call = "sweep"
  BY <1>1, <1>2, SweepFrames
<1>4. \A k \in Lane : \A x : InQueue(x, waiting'[k]) => InQueue(x, waiting[k])
  <2>1. waiting \in [Lane -> Seq(OpId)]
    BY DEF TierInv, LaneInv, LaneTypes
  <2>2. \A x : ~InQueue(x, <<>>)
    BY DEF InQueue
  <2> QED BY <1>1, <1>2, <2>1, <2>2
<1>5. \A p \in Asked : Alive(p)' => Alive(p)
  BY <1>1, <1>2, <1>3, <1>4 DEF Alive, CallFor, Queued
<1>6. \A a \in Layer : Coming(a)' \subseteq Coming(a)
  BY <1>2, <1>3, <1>5, FewerCome
<1>7. Settled => Settled'
  <2>1. entries' \subseteq entries
    BY DEF SweepClear
  <2> QED BY <1>3, <2>1 DEF Settled
<1> QED BY <1>1, <1>2, <1>3, <1>6, <1>7 DEF FlowStep, Closing, Outer

\* A sweep calls on_finally.
LEMMA SweepFlows == TierInv /\ SweepNext => FlowStep
<1> SUFFICES ASSUME TierInv, SweepNext PROVE FlowStep
  OBVIOUS
<1>1. PICK o, l, todo, ls : /\ o = Head(Top.todo) /\ l = Top.lane /\ todo = Tail(Top.todo)
                            /\ ls = Top.lanes
  OBVIOUS
<1>2. /\ In("sweep") /\ calls # <<>> /\ Top.call = "sweep" /\ Top.todo # <<>>
      /\ calls' = <<FinallyCall(o), SweepCall(l, todo, ls)>> \o Tail(calls)
      /\ nextId' = nextId /\ op' = op /\ cancelled' = cancelled
      /\ waiting' = waiting /\ launched' = launched
  BY <1>1 DEF SweepNext, Become, In
<1>3. Top.lane \in Lane /\ Top.todo \in Seq(OpId) /\ Top.lanes \in SUBSET Lane
  BY <1>2, StackSeq, FrameFields
<1>4. o \in OpId /\ l \in Lane /\ todo \in Seq(OpId) /\ ls \in SUBSET Lane
  BY <1>1, <1>2, <1>3
<1>5. PICK x, y \in Frame : /\ x = FinallyCall(o) /\ x.call = "finally"
                            /\ y = SweepCall(l, todo, ls) /\ y.call = "sweep"
  BY <1>4, FramesMade, CallNames
<1>6. /\ Frames(calls) = {Top} \cup Frames(Tail(calls))
      /\ Frames(calls') = {x, y} \cup Frames(Tail(calls))
  BY <1>2, <1>5, StackSeq, FramesOf
<1>7. \A p \in Asked : Alive(p)' <=> Alive(p)
  BY <1>2, <1>5, <1>6 DEF Alive, CallFor, Queued
<1>8. \A a \in Layer : Coming(a)' \subseteq Coming(a) /\ Coming(a) \subseteq Coming(a)'
  BY <1>2, <1>5, <1>6, <1>7, FewerCome, AllCome
<1>9. Settled => Settled'
  <2>1. entries' \subseteq entries
    BY DEF SweepNext
  <2> QED BY <1>5, <1>6, <2>1 DEF Settled
<1> QED BY <1>2, <1>5, <1>6, <1>8, <1>9 DEF FlowStep, Winding, Closing

\* A background function returns.
LEMMA FinishFlows == ASSUME TierInv, NEW o \in OpId, PoolFinishes(o) PROVE FlowStep
<1>1. PICK l : l = op[o].lane
  OBVIOUS
<1>2. /\ o \in launched /\ launched' = launched \ {o}
      /\ nextId' = nextId /\ op' = op /\ cancelled' = cancelled /\ waiting' = waiting
      /\ calls' = (IF l \in Lane THEN <<PumpCall(l), SettleCall(o)>> ELSE <<SettleCall(o)>>) \o calls
  BY <1>1 DEF PoolFinishes, Finish, Push
<1>3. PICK s \in Frame : s = SettleCall(o) /\ s.call = "settle" /\ s.op = o
  BY FramesMade, CallNames
<1>4. /\ s \in Frames(calls') /\ Frames(calls) \subseteq Frames(calls')
      /\ \A f \in Frames(calls') : f \in Frames(calls) \/ f = s \/ f.call = "pump"
  <2>1. CASE l \in Lane
    <3>1. PICK p \in Frame : p = PumpCall(l) /\ p.call = "pump"
      BY <2>1, FramesMade, CallNames
    <3>2. Frames(calls') = {p, s} \cup Frames(calls)
      BY <1>2, <1>3, <2>1, <3>1, StackSeq, FramesOf
    <3> QED BY <3>1, <3>2
  <2>2. CASE l \notin Lane
    <3>1. Frames(calls') = {s} \cup Frames(calls)
      BY <1>2, <1>3, <2>2, StackSeq, FramesOf
    <3> QED BY <3>1
  <2> QED BY <2>1, <2>2
<1>5. \A p \in Asked : Alive(p)' <=> Alive(p)
  BY <1>2, <1>3, <1>4 DEF Alive, CallFor, Queued
<1>6. \A a \in Layer : Coming(a)' \subseteq Coming(a) /\ Coming(a) \subseteq Coming(a)'
  BY <1>2, <1>3, <1>4, <1>5, FewerCome, AllCome
<1>7. Settled => Settled'
  <2>1. entries' = entries \ {o}
    BY DEF PoolFinishes, Finish
  <2> QED BY <1>3, <1>4, <2>1 DEF Settled
<1> QED BY <1>2, <1>3, <1>4, <1>6, <1>7 DEF FlowStep, Winding, Closing

\* A step of the manager other than run, or of the pool.
LEMMA Flows ==
  ASSUME TierInv, (ManagerStep /\ ~RunNext) \/ \E o \in OpId : PoolFinishes(o)
  PROVE  FlowStep
<1>1. ASSUME NEW l \in Lane, PumpDrop(l) \/ PumpStart(l) PROVE FlowStep
  BY <1>1, DropFlows, StartFlows
<1>2. CASE SettleCancelled \/ PumpDone \/ CancelAll \/ SweepNext \/ SweepClear
  BY <1>2, SettleCancelledFlows, PumpDoneFlows, CancelAllFlows, SweepFlows, ClearFlows
<1>3. CASE \E o \in OpId : PoolFinishes(o)
  BY <1>3, FinishFlows
<1> QED BY <1>1, <1>2, <1>3 DEF ManagerStep

\* run makes an operation of what was about to be asked for, and all else still comes but
\* what it supersedes.
LEMMA RunComes ==
  ASSUME TierInv, RunNext, NEW a \in Layer, NEW r, r = Top.request
  PROVE  /\ Coming(a)' \subseteq Coming(a)
         /\ \A x \in Coming(a) : x \in Coming(a)' \/ x.key = r.key
         /\ r.kind \in Building /\ r.layer = a => r \in Coming(a) /\ r \in Coming(a)'
         /\ r \in Request /\ r.key \in Key
         /\ calls' = <<>> => \A x \in Coming(a)' : x.key = r.key => x = r
<1>1. /\ r \in Request /\ nextId \in OpId /\ nextId \notin Asked /\ Asked' = Asked \cup {nextId}
      /\ op'[nextId] = r /\ \A o \in Asked : op'[o] = op[o]
      /\ entries' = entries \cup {nextId} /\ launched \subseteq launched'
      /\ cancelled' = cancelled \cup Superseded(r)
      /\ Superseded(r) \subseteq entries /\ entries \subseteq Asked /\ cancelled \subseteq Asked
      /\ launched' \subseteq launched \cup {nextId}
      /\ Frames(calls) = {Top} \cup Frames(calls')
      /\ \A f \in Frames(calls') : FrameOk(f)
  BY RunFacts
<1>2. Top.call = "run" /\ Top \in Frames(calls)
  BY <1>1 DEF RunNext, In
<1>3. /\ \A x : Queued(x) => Queued(x)'
      /\ \A x : Queued(x)' => Queued(x) \/ x = nextId
      /\ \A n : n = nextId => n \in launched' \/ Queued(n)'
  <2>1. /\ \A l \in Lane : \A x : InQueue(x, waiting[l]) => InQueue(x, waiting'[l])
        /\ \A l \in Lane : \A i \in 1..Len(waiting'[l]) :
             waiting'[l][i] = nextId \/ \E j \in 1..Len(waiting[l]) : waiting'[l][i] = waiting[l][j]
        /\ nextId \in launched' \/ \E k \in Lane : InQueue(nextId, waiting'[k])
    <3>1. \E l : l \in Lane
      BY TiersAssumption DEF TiersAssumption
    <3> QED BY <3>1, RunQueues
  <2>2. ASSUME NEW x, NEW l \in Lane, InQueue(x, waiting'[l]) PROVE InQueue(x, waiting[l]) \/ x = nextId
    <3>1. PICK i \in 1..Len(waiting'[l]) : waiting'[l][i] = x
      BY <2>2 DEF InQueue
    <3>2. CASE x # nextId
      <4>1. PICK j \in 1..Len(waiting[l]) : x = waiting[l][j]
        BY <2>1, <3>1, <3>2
      <4> QED BY <4>1 DEF InQueue
    <3> QED BY <3>2
  <2>3. ASSUME NEW x, NEW n, n = nextId, InQueue(n, waiting'[x]), x \in Lane PROVE Queued(n)'
    BY <2>3 DEF Queued
  <2>4. \A x : Queued(x) => Queued(x)'
    BY <2>1 DEF Queued
  <2>5. \A x : Queued(x)' => Queued(x) \/ x = nextId
    BY <2>2 DEF Queued
  <2>6. ASSUME NEW n, n = nextId PROVE n \in launched' \/ Queued(n)'
    BY <2>1, <2>6 DEF Queued
  <2> QED BY <2>4, <2>5, <2>6
<1>4. r.kind \in {"load", "tier", "write", "raster"} /\ r.key \in Key
  BY <1>1, RequestFields
<1>5. ASSUME NEW o \in Asked, Alive(o)' PROVE Alive(o)
  <2>1. o # nextId
    BY <1>1
  <2>2. /\ o \in launched' => o \in launched
        /\ Queued(o)' => Queued(o)
        /\ o \notin cancelled' => o \notin cancelled
        /\ CallFor("settle", o)' => CallFor("settle", o)
        /\ CallFor("complete", o)' => CallFor("complete", o)
    BY <1>1, <1>3, <2>1 DEF CallFor
  <2> QED BY <1>5, <2>2 DEF Alive
<1>6. ASSUME NEW o \in Asked, Alive(o), ~Alive(o)' PROVE o \in Superseded(r)
  <2>1. /\ o \in launched => o \in launched'
        /\ Queued(o) => Queued(o)'
        /\ CallFor("settle", o) => CallFor("settle", o)'
        /\ CallFor("complete", o) => CallFor("complete", o)'
    BY <1>1, <1>2, <1>3 DEF CallFor
  <2> QED BY <1>1, <1>6, <2>1 DEF Alive
<1>7. \A o \in Superseded(r) : op[o].key = r.key
  <2>1. ASSUME NEW o \in Superseded(r) PROVE op[o].key = r.key
    <3>1. r.key \in Key /\ o = keyed[r.key] /\ o \in Asked
      BY <1>1, <2>1 DEF Superseded
    <3>2. o # NoOp
      BY <3>1 DEF Asked, OpId, NoOp
    <3> QED BY <3>1, <3>2 DEF TierInv, KeyBooks
  <2> QED BY <2>1
<1>8. ASSUME NEW x \in Coming(a)' PROVE x \in Coming(a)
  <2>1. x \in Request /\ x.kind \in Building /\ x.layer = a
    BY <1>8 DEF Coming
  <2>2. ASSUME NEW o \in Asked', op'[o] = x, Alive(o)' PROVE x \in Coming(a)
    <3>1. CASE o = nextId
      BY <1>1, <1>2, <2>1, <2>2, <3>1 DEF Coming
    <3>2. CASE o # nextId
      BY <1>1, <1>5, <2>1, <2>2, <3>2 DEF Coming
    <3> QED BY <3>1, <3>2
  <2>3. CASE \E f \in Frames(calls') : f.call = "run" /\ f.request = x
    BY <1>1, <2>1, <2>3 DEF Coming
  <2> QED BY <1>8, <2>2, <2>3 DEF Coming
<1>9. ASSUME r.kind \in Building, r.layer = a PROVE r \in Coming(a) /\ r \in Coming(a)'
  <2>1. r \in Coming(a)
    BY <1>1, <1>2, <1>9 DEF Coming
  <2>2. PICK n : n = nextId
    OBVIOUS
  <2>3. nextId \notin cancelled'
    BY <1>1
  <2>4. n \in Asked' /\ op'[n] = r /\ Alive(n)'
    BY <1>1, <1>3, <2>2, <2>3 DEF Alive
  <2> QED BY <1>1, <1>9, <2>1, <2>4 DEF Coming
<1>10. ASSUME NEW x \in Coming(a), x \notin Coming(a)' PROVE x.key = r.key
  <2>1. x \in Request /\ x.kind \in Building /\ x.layer = a
    BY <1>10 DEF Coming
  <2>2. ASSUME NEW o \in Asked, op[o] = x, Alive(o) PROVE x.key = r.key
    <3>1. ~Alive(o)'
      BY <1>1, <1>10, <2>1, <2>2 DEF Coming
    <3> QED BY <1>6, <1>7, <2>2, <3>1
  <2>3. ASSUME NEW f \in Frames(calls), f.call = "run", f.request = x PROVE x.key = r.key
    <3>1. CASE f = Top
      BY <2>3, <3>1
    <3>2. CASE f # Top
      <4>1. f \in Frames(calls')
        BY <1>1, <3>2
      <4> QED BY <1>10, <2>1, <2>3, <4>1 DEF Coming
    <3> QED BY <3>1, <3>2
  <2> QED BY <1>10, <2>2, <2>3 DEF Coming
<1>11. ASSUME calls' = <<>>, NEW x \in Coming(a)', x.key = r.key PROVE x = r
  <2>1. Frames(calls') = {}
    BY <1>11, NoFrames
  <2>2. PICK o \in Asked' : op'[o] = x /\ Alive(o)'
    BY <1>11, <2>1 DEF Coming
  <2>3. CASE o = nextId
    BY <1>1, <2>2, <2>3
  <2>4. CASE o # nextId
    <3>1. o \in Asked /\ op[o] = x /\ o \notin cancelled' /\ (o \in launched \/ Queued(o))
      BY <1>1, <1>3, <2>1, <2>2, <2>4 DEF Alive, CallFor
    <3>2. \A l \in Lane : SweepsOf(l) = {}
      BY <1>1, <1>2, <2>1 DEF SweepsOf
    <3>3. o \in entries
      <4>1. ASSUME NEW l \in Lane, InQueue(o, waiting[l]) PROVE o \in entries
        <5>1. PICK i \in 1..Len(waiting[l]) : waiting[l][i] = o
          BY <4>1 DEF InQueue
        <5> QED BY <3>2, <5>1 DEF TierInv, Registered
      <4> QED BY <3>1, <4>1 DEF TierInv, Registered, Queued
    <3>4. keyed[r.key] = o
      BY <1>1, <1>4, <1>11, <3>1, <3>3 DEF TierInv, KeyBooks
    <3>5. o \in Superseded(r)
      BY <1>4, <3>3, <3>4 DEF Superseded
    <3> QED BY <1>1, <3>1, <3>5
  <2> QED BY <2>3, <2>4
<1> QED BY <1>1, <1>4, <1>8, <1>9, <1>10, <1>11
-----------------------------------------------------------------------------
(* Versions: what is on the map is never newer than what still comes.      *)

\* A tier that may be shown, and one that will be if nothing else happens.
MayShow(r)  == r.quality = quality \/ IsPreview(r)
WillShow(r) == IsPreview(r) \/ IsTarget(r) \/ (~IsStaged(r) /\ r.quality = quality)

\* What comes was asked for with stored parameters; a load comes for a layer that is not
\* loaded, with nothing older than its raster.
Stocked(a) ==
  /\ shown[a] <= params[a]
  /\ \A r \in Coming(a) : /\ r.version <= params[a]
                          /\ r.kind = "load" => a \notin loaded /\ r.version >= shown[a]

\* So does a tier for a loaded layer, and behind a preview comes nothing older.
TiersNew(a) ==
  \A r \in Coming(a) : r.kind = "tier" =>
    /\ a \in loaded
    /\ MayShow(r) => r.version >= shown[a]
    /\ IsPreview(r) => \A s \in Coming(a) : s.kind = "tier" /\ MayShow(s) => s.version >= r.version

\* Nor behind a tier that completes; and no loaded layer is about to be reloaded.
Ordered(a) ==
  /\ Stocked(a)
  /\ a \notin crossed => TiersNew(a)
  /\ \A f \in Frames(calls) : f.call = "complete" =>
       \A r \in Coming(a) : r.key = op[f.op].key => r.version >= op[f.op].version
  /\ \A f \in Frames(calls) : f.call = "reload" /\ a \in loaded =>
       \A i \in 1..Len(f.todo) : f.todo[i] # a

\* A version was applied that the map does not show yet.
Unshown(a) == a \in loaded /\ applied[a] # 0 /\ shown[a] < applied[a]

\* The build that is about to be asked for supersedes the key's.
Superseding(k) == In("run") /\ Tail(calls) = <<>> /\ Top.request.key = k

\* What comes is not older than what was applied, and what is owed comes, or goes on once
\* its preview's on_finally is called, unless the project is closing.
Kept(a) ==
  /\ applied[a] <= params[a] /\ (applied[a] # 0 => project)
  /\ \A r \in Coming(a) : r.kind = "load" \/ MayShow(r) =>
       r.version >= applied[a] \/ Superseding(r.key)
  /\ \A f \in Frames(calls) : (RunsLoad(f) \/ RunsTier(f)) /\ f.request.layer = a =>
       /\ f.request.version >= applied[a]
       /\ RunsTier(f) /\ Unshown(a) => WillShow(f.request)
  /\ Unshown(a) =>
       \/ \E r \in Coming(a) : r.kind = "tier" /\ WillShow(r) /\ r.version >= applied[a]
       \/ \E f \in Frames(calls) : f.call = "finally" /\ AsPreview(f.op) /\ op[f.op].layer = a
       \/ Closing

VersionInv ==
  /\ applied \in [Layer -> Nat]
  /\ (Winding => Closing) /\ Settled
  /\ \A a \in Layer : Ordered(a) /\ Kept(a)

\* Builds that come are requests, of one layer.
LEMMA ComingFields ==
  ASSUME NEW a \in Layer, NEW r \in Coming(a)
  PROVE  /\ r \in Request /\ r.kind \in {"load", "tier"} /\ r.layer = a /\ r.version \in Nat
         /\ r.kind = "load" => r.key = LoadKey(a)
         /\ r.kind = "tier" => r.quality \in Quality /\ r.key = TierKey(a, r.quality)
BY RequestFields DEF Coming, Building

\* And after a step.
LEMMA ComingFieldsNext ==
  ASSUME NEW a \in Layer, NEW r \in Coming(a)'
  PROVE  /\ r \in Request /\ r.kind \in {"load", "tier"} /\ r.layer = a /\ r.version \in Nat
         /\ r.kind = "load" => r.key = LoadKey(a)
         /\ r.kind = "tier" => r.quality \in Quality /\ r.key = TierKey(a, r.quality)
BY RequestFields DEF Coming, Building

\* A build with the key of one that comes is of its layer.
LEMMA SameKey ==
  ASSUME NEW r \in Request, NEW a \in Layer, NEW s \in Request,
         s.kind \in {"load", "tier"}, s.layer = a, r.key = s.key
  PROVE  r.kind = s.kind /\ r.layer = a
<1>1. /\ r.kind \in {"load", "tier", "write", "raster"}
      /\ r.kind = "load" => r.layer \in Layer /\ r.key = LoadKey(r.layer)
      /\ r.kind = "tier" => r.key = TierKey(r.layer, r.quality)
      /\ r.kind = "write" => \E b \in Layer, q \in Quality : r.key = WriteKey(b, q)
      /\ r.kind = "raster" => r.key = RasterKey
  BY RequestFields
<1>2. CASE s.kind = "load"
  <2>1. s.key = LoadKey(a)
    BY <1>2, RequestFields
  <2> QED BY <1>1, <1>2, <2>1, KeysApart
<1>3. CASE s.kind = "tier"
  <2>1. s.key = TierKey(a, s.quality)
    BY <1>3, RequestFields
  <2> QED BY <1>1, <1>3, <2>1, KeysApart
<1> QED BY <1>2, <1>3

\* The tier that completes comes.
LEMMA Completes ==
  ASSUME TierInv, NEW f \in Frames(calls), f.call = "complete"
  PROVE  /\ f.op \in Asked /\ op[f.op] \in Request /\ op[f.op].kind = "tier"
         /\ op[f.op].layer \in Layer /\ op[f.op] \in Coming(op[f.op].layer)
<1>1. f.op \in Asked /\ op[f.op].kind = "tier" /\ op[f.op] \in Request
  BY DEF TierInv, StackInv, FrameOk, TierTypes
<1>2. op[f.op].layer \in Layer
  BY <1>1, RequestFields
<1>3. Alive(f.op)
  BY DEF Alive, CallFor
<1> QED BY <1>1, <1>2, <1>3 DEF Coming, Building

\* A layer's raster stays while builds of it are asked for with its newest parameters.
LEMMA OrderedStays ==
  ASSUME TierInv, TierInv', NEW a \in Layer, Ordered(a), quality' = quality,
         \A r \in Request : r.kind = "tier" /\ r.layer = a /\ IsPreview(r)' => IsPreview(r),
         params[a] <= params'[a], shown'[a] = shown[a], a \in loaded' <=> a \in loaded,
         a \in crossed => a \in crossed',
         \A r \in Coming(a)' : r \in Coming(a) \/
           /\ r.version = params'[a] /\ (r.kind = "load" => a \notin loaded)
           /\ r.kind = "tier" => a \in loaded /\ ~IsPreview(r)',
         \A f \in Frames(calls') : f.call = "complete" =>
           \/ f \in Frames(calls) /\ op'[f.op] = op[f.op]
           \/ \A r \in Coming(a)' : r.key = op'[f.op].key => r.version >= op'[f.op].version,
         \A f \in Frames(calls') : f.call = "reload" /\ a \in loaded =>
           \A i \in 1..Len(f.todo) : f.todo[i] # a
  PROVE  Ordered(a)'
<1>1. params[a] \in Nat /\ params'[a] \in Nat /\ shown[a] \in Nat
  BY DEF TierInv, TierTypes
<1>2. \A r \in Coming(a) : r.version <= params[a] /\ r.version \in Nat
  BY ComingFields DEF Ordered, Stocked
<1>3. Stocked(a)'
  BY <1>1, <1>2 DEF Ordered, Stocked
<1>4. ASSUME a \notin crossed' PROVE TiersNew(a)'
  <2>1. TiersNew(a)
    BY <1>4 DEF Ordered
  <2>2. ASSUME NEW r \in Coming(a)', r.kind = "tier" PROVE a \in loaded'
    BY <2>1, <2>2 DEF TiersNew
  <2>3. ASSUME NEW r \in Coming(a)', r.kind = "tier", MayShow(r)' PROVE r.version >= shown'[a]
    <3>1. CASE r \in Coming(a)
      <4>1. MayShow(r)
        BY <2>3, ComingFieldsNext DEF MayShow
      <4> QED BY <2>1, <2>3, <3>1, <4>1 DEF TiersNew
    <3>2. CASE r \notin Coming(a)
      BY <1>1, <3>2 DEF Ordered, Stocked
    <3> QED BY <3>1, <3>2
  <2>4. ASSUME NEW r \in Coming(a)', r.kind = "tier", IsPreview(r)',
               NEW s \in Coming(a)', s.kind = "tier", MayShow(s)'
        PROVE  s.version >= r.version
    <3>1. r \in Coming(a) /\ IsPreview(r)
      BY <2>4, ComingFieldsNext
    <3>2. CASE s \in Coming(a)
      <4>1. MayShow(s)
        BY <2>4, ComingFieldsNext DEF MayShow
      <4> QED BY <2>1, <2>4, <3>1, <3>2, <4>1 DEF TiersNew
    <3>3. CASE s \notin Coming(a)
      BY <1>1, <1>2, <3>1, <3>3
    <3> QED BY <3>2, <3>3
  <2> QED BY <2>2, <2>3, <2>4 DEF TiersNew
<1>5. ASSUME NEW f \in Frames(calls'), f.call = "complete", NEW r \in Coming(a)',
             r.key = op'[f.op].key
      PROVE  r.version >= op'[f.op].version
  <2> SUFFICES ASSUME f \in Frames(calls) /\ op'[f.op] = op[f.op]
               PROVE  r.version >= op'[f.op].version
    BY <1>5
  <2>1. f \in Frames(calls) /\ op'[f.op] = op[f.op]
    OBVIOUS
  <2>2. CASE r \in Coming(a)
    BY <1>5, <2>1, <2>2 DEF Ordered
  <2>3. CASE r \notin Coming(a)
    <3>1. PICK s \in Request : s = op[f.op] /\ s.layer \in Layer /\ s \in Coming(s.layer)
      BY <1>5, <2>1, Completes
    <3>2. s.layer = a
      BY <1>5, <2>1, <3>1, ComingFieldsNext, SameKey
    <3> QED BY <1>1, <1>2, <2>1, <2>3, <3>1, <3>2
  <2> QED BY <2>2, <2>3
<1> QED BY <1>3, <1>4, <1>5 DEF Ordered

\* All that comes for the layer is asked for with its newest parameters.
LEMMA OrderedAnew ==
  ASSUME TierInv', NEW a \in Layer, shown'[a] <= params'[a],
         \A r \in Coming(a)' : /\ r.version = params'[a]
                               /\ r.kind = "load" <=> a \notin loaded',
         \A f \in Frames(calls') : f.call # "complete",
         \A f \in Frames(calls') : f.call = "reload" /\ a \in loaded' =>
           \A i \in 1..Len(f.todo) : f.todo[i] # a
  PROVE  Ordered(a)'
<1>1. params'[a] \in Nat /\ shown'[a] \in Nat
  BY DEF TierInv, TierTypes
<1>2. Stocked(a)'
  BY <1>1 DEF Stocked
<1>3. TiersNew(a)'
  BY <1>1 DEF TiersNew
<1> QED BY <1>2, <1>3 DEF Ordered

\* A tier that may be shown is; no preview is waited for any more.
LEMMA OrderedShown ==
  ASSUME TierInv, TierInv', NEW a \in Layer, Ordered(a), NEW r \in Coming(a), r.kind = "tier",
         quality' = quality, params' = params, loaded' = loaded, crossed' = crossed, op' = op,
         a \in loaded, shown'[a] = r.version,
         \A s \in Request : s.layer = a => ~IsPreview(s)',
         \A s \in Coming(a)' : s \in Coming(a) \/ (s.version = params[a] /\ s.kind = "tier"),
         a \notin crossed => \A s \in Coming(a) :
           s.kind = "tier" /\ s.quality = quality => s.version >= r.version,
         \A f \in Frames(calls') : f.call \in {"complete", "reload"} => f \in Frames(calls)
  PROVE  Ordered(a)'
<1>1. params[a] \in Nat /\ r.version \in Nat /\ r.version <= params[a]
  BY ComingFields DEF TierInv, TierTypes, Ordered, Stocked
<1>2. \A s \in Coming(a) : s.version <= params[a] /\ s.version \in Nat /\ s.kind # "load"
  BY ComingFields DEF Ordered, Stocked
<1>3. Stocked(a)'
  BY <1>1, <1>2 DEF Stocked
<1>4. ASSUME a \notin crossed' PROVE TiersNew(a)'
  <2>1. ASSUME NEW s \in Coming(a)', s.kind = "tier", MayShow(s)' PROVE s.version >= shown'[a]
    <3>1. s.quality = quality
      BY <2>1, ComingFieldsNext DEF MayShow
    <3> QED BY <1>1, <1>4, <2>1, <3>1
  <2>2. \A s \in Coming(a)' : ~IsPreview(s)'
    BY ComingFieldsNext
  <2> QED BY <2>1, <2>2 DEF TiersNew
<1>5. ASSUME NEW f \in Frames(calls'), f.call = "complete", NEW s \in Coming(a)',
             s.key = op[f.op].key
      PROVE  s.version >= op[f.op].version
  <2>1. CASE s \in Coming(a)
    BY <1>5, <2>1 DEF Ordered
  <2>2. CASE s \notin Coming(a)
    <3>1. PICK t \in Request : t = op[f.op] /\ t.layer \in Layer /\ t \in Coming(t.layer)
      BY <1>5, Completes
    <3>2. t.layer = a
      BY <1>5, <3>1, ComingFieldsNext, SameKey
    <3> QED BY <1>1, <1>2, <2>2, <3>1, <3>2
  <2> QED BY <2>1, <2>2
<1>6. \A f \in Frames(calls') : f.call = "reload" => \A i \in 1..Len(f.todo) : f.todo[i] # a
  BY DEF Ordered
<1> QED BY <1>3, <1>4, <1>5, <1>6 DEF Ordered

\* Nothing is owed of what was not applied.
LEMMA KeptNone ==
  ASSUME TierInv', NEW a \in Layer, applied'[a] = 0
  PROVE  Kept(a)'
<1>1. params'[a] \in Nat /\ 0 <= params'[a]
  BY DEF TierInv, TierTypes
<1>2. \A r \in Coming(a)' : r.version >= 0
  BY ComingFieldsNext
<1>3. ASSUME NEW f \in Frames(calls'), RunsLoad(f) \/ RunsTier(f), f.request.layer = a
      PROVE  f.request.version >= 0
  <2>1. StackInv'
    BY DEF TierInv
  <2>2. f \in Frame
    BY <2>1 DEF StackInv, Stacked, Frames
  <2>3. f.request \in Request /\ f.request.kind \in {"load", "tier"}
    BY <1>3, <2>2, FrameFields DEF RunsLoad, RunsTier
  <2>4. f.request.version \in Nat
    BY <2>3, RequestFields
  <2> QED BY <2>4
<1>4. ~Unshown(a)'
  BY DEF Unshown
<1> QED BY <1>1, <1>2, <1>3, <1>4 DEF Kept

\* Nothing is owed of a layer that shows what was applied.
LEMMA KeptPaid ==
  ASSUME TierInv, NEW a \in Layer, Kept(a), ~In("run"), quality' = quality,
         applied'[a] = applied[a], applied[a] <= params'[a], project => project', ~Unshown(a)',
         \A r \in Request : r.kind = "tier" /\ r.layer = a /\ IsPreview(r)' => IsPreview(r),
         \A r \in Coming(a)' : r \in Coming(a) \/ r.version >= applied[a],
         \A f \in Frames(calls') : (RunsLoad(f) \/ RunsTier(f)) /\ f.request.layer = a =>
           f \in Frames(calls) \/ f.request.version >= applied[a]
  PROVE  Kept(a)'
<1>1. \A k : ~Superseding(k)
  BY DEF Superseding
<1>2. ASSUME NEW r \in Coming(a)', r.kind = "load" \/ MayShow(r)' PROVE r.version >= applied[a]
  <2>1. CASE r \in Coming(a)
    <3>1. r.kind = "load" \/ MayShow(r)
      BY <1>2, <2>1, ComingFields DEF MayShow
    <3> QED BY <1>1, <2>1, <3>1 DEF Kept
  <2> QED BY <2>1
<1> QED BY <1>1, <1>2 DEF Kept

\* What is owed still comes.
LEMMA KeptStays ==
  ASSUME TierInv, NEW a \in Layer, Kept(a), ~In("run"), quality' = quality,
         applied'[a] = applied[a], applied[a] <= params'[a], project => project',
         staged'[a] = staged[a], shown'[a] = shown[a], a \in loaded' => a \in loaded,
         \A r \in Coming(a)' : r \in Coming(a) \/ r.version >= applied[a],
         \A f \in Frames(calls') : (RunsLoad(f) \/ RunsTier(f)) /\ f.request.layer = a =>
           \/ f \in Frames(calls)
           \/ f.request.version >= applied[a] /\ (RunsTier(f) /\ a \in loaded => WillShow(f.request)),
         Closing => Closing',
         \/ Closing'
         \/ /\ \A r \in Coming(a) : r.kind = "tier" /\ WillShow(r) => r \in Coming(a)'
            /\ \A f \in Frames(calls) : f.call = "finally" /\ AsPreview(f.op) =>
                 (f \in Frames(calls') /\ op'[f.op] = op[f.op]) \/ op[f.op].layer # a
  PROVE  Kept(a)'
<1>1. /\ \A r : r.layer = a => /\ IsPreview(r)' <=> IsPreview(r)
                               /\ WillShow(r)' <=> WillShow(r)
      /\ Unshown(a)' => Unshown(a)
      /\ \A k : ~Superseding(k)
  BY DEF IsPreview, IsTarget, IsStaged, OfStage, WillShow, Unshown, Superseding
<1>2. ASSUME NEW r \in Coming(a)', r.kind = "load" \/ MayShow(r)' PROVE r.version >= applied[a]
  <2>1. CASE r \in Coming(a)
    <3>1. r.kind = "load" \/ MayShow(r)
      BY <1>1, <1>2, <2>1, ComingFields DEF MayShow
    <3> QED BY <1>1, <2>1, <3>1 DEF Kept
  <2> QED BY <2>1
<1>3. ASSUME NEW f \in Frames(calls'), RunsLoad(f) \/ RunsTier(f), f.request.layer = a
      PROVE  /\ f.request.version >= applied[a]
             /\ RunsTier(f) /\ Unshown(a)' => WillShow(f.request)'
  <2>1. CASE f \in Frames(calls)
    BY <1>1, <1>3, <2>1 DEF Kept
  <2>2. CASE f \notin Frames(calls)
    <3>1. f.request.version >= applied[a] /\ (RunsTier(f) /\ a \in loaded => WillShow(f.request))
      BY <1>3, <2>2
    <3> QED BY <1>1, <1>3, <3>1 DEF Unshown
  <2> QED BY <2>1, <2>2
<1>4. ASSUME Unshown(a)', ~Closing'
      PROVE  \/ \E r \in Coming(a)' : r.kind = "tier" /\ WillShow(r)' /\ r.version >= applied[a]
             \/ \E f \in Frames(calls') : f.call = "finally" /\ AsPreview(f.op)' /\ op'[f.op].layer = a
  <2>1. Unshown(a) /\ ~Closing
    BY <1>1, <1>4
  <2>2. CASE \E r \in Coming(a) : r.kind = "tier" /\ WillShow(r) /\ r.version >= applied[a]
    <3>1. PICK r \in Coming(a) : r.kind = "tier" /\ WillShow(r) /\ r.version >= applied[a]
      BY <2>2
    <3>2. r \in Coming(a)' /\ WillShow(r)'
      BY <1>1, <1>4, <3>1, ComingFields
    <3> QED BY <3>1, <3>2
  <2>3. CASE \E f \in Frames(calls) : f.call = "finally" /\ AsPreview(f.op) /\ op[f.op].layer = a
    <3>1. PICK f \in Frames(calls) : f.call = "finally" /\ AsPreview(f.op) /\ op[f.op].layer = a
      BY <2>3
    <3>2. f \in Frames(calls') /\ op'[f.op] = op[f.op]
      BY <1>4, <3>1
    <3>3. AsPreview(f.op)'
      BY <1>1, <3>1, <3>2 DEF AsPreview, IsPreview, OfStage, IsStaged
    <3> QED BY <3>1, <3>2, <3>3
  <2> QED BY <2>1, <2>2, <2>3 DEF Kept
<1> QED BY <1>2, <1>3, <1>4 DEF Kept
-----------------------------------------------------------------------------
(* The manager's steps keep the versions.                                  *)

\* What a step of the manager leaves.
AskStays == params' = params /\ applied' = applied /\ crossed' = crossed /\ project' = project

\* A step that asks for nothing.
LEMMA FlowTells ==
  ASSUME TierInv, TierInv', VersionInv, FlowStep, ~In("run"), MapStays, AskStays
  PROVE  VersionInv'
<1>1. Closing => Closing'
  BY DEF FlowStep
<1>2. ASSUME NEW a \in Layer PROVE Ordered(a)' /\ Kept(a)'
  <2>1. Ordered(a) /\ Kept(a)
    BY DEF VersionInv
  <2>2. \A r : IsPreview(r)' <=> IsPreview(r)
    BY DEF MapStays, IsPreview, OfStage, IsStaged
  <2>3. /\ \A f \in Frames(calls') : f.call \in {"run", "reload", "complete"} => f \in Frames(calls)
        /\ op' = op /\ Coming(a)' \subseteq Coming(a)
    BY DEF FlowStep
  <2>4. params[a] \in Nat
    BY DEF TierInv, TierTypes
  <2>5. Ordered(a)'
    <3>1. \A f \in Frames(calls') : f.call = "reload" /\ a \in loaded =>
            \A i \in 1..Len(f.todo) : f.todo[i] # a
      BY <2>1, <2>3 DEF Ordered
    <3> QED BY <2>1, <2>2, <2>3, <2>4, <3>1, OrderedStays DEF MapStays, AskStays
  <2>6. Kept(a)'
    <3>1. \/ Closing'
          \/ /\ Coming(a) \subseteq Coming(a)'
             /\ \A f \in Frames(calls) : f.call = "finally" => f \in Frames(calls')
      BY DEF FlowStep, VersionInv
    <3>2. \A f \in Frames(calls') : RunsLoad(f) \/ RunsTier(f) => f \in Frames(calls)
      BY <2>3 DEF RunsLoad, RunsTier
    <3>3. applied[a] <= params[a]
      BY <2>1 DEF Kept
    <3> QED BY <1>1, <2>1, <2>3, <3>1, <3>2, <3>3, KeptStays DEF MapStays, AskStays
  <2> QED BY <2>5, <2>6
<1>3. (Winding' => Closing') /\ Settled'
  BY DEF FlowStep, VersionInv
<1> QED BY <1>2, <1>3 DEF VersionInv, AskStays

\* run: what it supersedes is older than what it asks for.
LEMMA RunTells ==
  ASSUME TierInv, TierInv', VersionInv, RunNext, MapStays, AskStays
  PROVE  VersionInv'
<1>1. PICK q : q = Top.request
  OBVIOUS
<1>2. /\ In("run") /\ Top.call = "run" /\ calls # <<>> /\ calls' = Tail(calls)
      /\ Frames(calls) = {Top} \cup Frames(calls') /\ Top \in Frame
  BY StackSeq DEF RunNext, In, Return
<1>3. /\ \A f \in Frames(calls') : f \in Frames(calls) /\ FrameOk(f)
      /\ \A o \in Asked : op'[o] = op[o]
  BY RunFacts
<1>4. Closing <=> Closing'
  BY <1>2 DEF Closing
<1>5. (Winding' => Winding) /\ Settled'
  <2>1. Winding' => Winding
    BY <1>2 DEF Winding
  <2>2. entries' = entries \cup {nextId} /\ nextId \notin Asked
    BY RunFacts
  <2>3. Settled'
    BY <1>3, <2>2 DEF Settled, FrameOk, VersionInv
  <2> QED BY <2>1, <2>3
<1>6. ASSUME NEW a \in Layer PROVE Ordered(a)' /\ Kept(a)'
  <2>1. Ordered(a) /\ Kept(a)
    BY <1>6 DEF VersionInv
  <2>2. /\ Coming(a)' \subseteq Coming(a)
        /\ \A x \in Coming(a) : x \in Coming(a)' \/ x.key = q.key
        /\ q.kind \in Building /\ q.layer = a => q \in Coming(a) /\ q \in Coming(a)'
        /\ q \in Request /\ q.key \in Key
        /\ calls' = <<>> => \A x \in Coming(a)' : x.key = q.key => x = q
    BY <1>1, <1>6, RunComes
  <2>3. \A r : (IsPreview(r)' <=> IsPreview(r)) /\ (MayShow(r)' <=> MayShow(r))
               /\ (WillShow(r)' <=> WillShow(r))
    BY DEF MapStays, IsPreview, IsTarget, OfStage, IsStaged, MayShow, WillShow
  <2>4. params[a] \in Nat /\ (Unshown(a)' <=> Unshown(a))
    BY DEF TierInv, TierTypes, Unshown, MapStays, AskStays
  <2>5. Ordered(a)'
    <3>1. \A f \in Frames(calls') : f.call = "reload" /\ a \in loaded =>
            \A i \in 1..Len(f.todo) : f.todo[i] # a
      BY <1>3, <2>1 DEF Ordered
    <3>2. \A f \in Frames(calls') : f.call = "complete" => f \in Frames(calls) /\ op'[f.op] = op[f.op]
      BY <1>3 DEF FrameOk
    <3> QED BY <2>1, <2>2, <2>3, <2>4, <3>1, <3>2, OrderedStays DEF MapStays, AskStays
  <2>6. ASSUME q.kind \in Building, q.layer = a
        PROVE  q.version >= applied[a] /\ (q.kind = "tier" /\ Unshown(a) => WillShow(q))
    <3>1. RunsLoad(Top) \/ RunsTier(Top)
      BY <1>1, <1>2, <2>6 DEF RunsLoad, RunsTier, Building
    <3>2. q.kind = "tier" => RunsTier(Top)
      BY <1>1, <1>2 DEF RunsTier
    <3> QED BY <1>1, <1>2, <2>1, <2>6, <3>1, <3>2 DEF Kept
  <2>7. ASSUME NEW r \in Coming(a)', r.kind = "load" \/ MayShow(r)' PROVE r.version >= applied[a]
    <3>1. r \in Coming(a) /\ (r.version >= applied[a] \/ Superseding(r.key))
      BY <2>1, <2>2, <2>3, <2>7 DEF Kept
    <3>2. ASSUME Superseding(r.key) PROVE r.version >= applied[a]
      <4>1. r = q
        BY <1>1, <1>2, <2>2, <3>2 DEF Superseding
      <4> QED BY <2>6, <2>7, <4>1, ComingFieldsNext DEF Building
    <3> QED BY <3>1, <3>2
  <2>8. ASSUME Unshown(a)
        PROVE  \/ \E r \in Coming(a)' : r.kind = "tier" /\ WillShow(r)' /\ r.version >= applied[a]
               \/ \E f \in Frames(calls') : f.call = "finally" /\ AsPreview(f.op)' /\ op'[f.op].layer = a
               \/ Closing'
    <3>1. CASE \E r \in Coming(a) : r.kind = "tier" /\ WillShow(r) /\ r.version >= applied[a]
      <4>1. PICK r \in Coming(a) : r.kind = "tier" /\ WillShow(r) /\ r.version >= applied[a]
        BY <3>1
      <4>2. CASE r \in Coming(a)'
        BY <2>3, <4>1, <4>2
      <4>3. CASE r \notin Coming(a)'
        <5>1. r.key = q.key
          BY <2>2, <4>3
        <5>2. q.kind = "tier" /\ q.layer = a
          BY <2>2, <4>1, <5>1, ComingFields, SameKey
        <5>3. q \in Coming(a)' /\ WillShow(q)' /\ q.version >= applied[a]
          BY <2>2, <2>3, <2>6, <2>8, <5>2 DEF Building
        <5> QED BY <5>2, <5>3
      <4> QED BY <4>2, <4>3
    <3>2. CASE \E f \in Frames(calls) : f.call = "finally" /\ AsPreview(f.op) /\ op[f.op].layer = a
      <4>1. PICK f \in Frames(calls) : f.call = "finally" /\ AsPreview(f.op) /\ op[f.op].layer = a
        BY <3>2
      <4>2. f \in Frames(calls') /\ op'[f.op] = op[f.op]
        BY <1>2, <1>3, <4>1 DEF FrameOk
      <4>3. AsPreview(f.op)'
        BY <2>3, <4>1, <4>2 DEF AsPreview
      <4> QED BY <4>1, <4>2, <4>3
    <3> QED BY <1>4, <2>1, <2>8, <3>1, <3>2 DEF Kept
  <2>9. ASSUME NEW f \in Frames(calls'), RunsLoad(f) \/ RunsTier(f), f.request.layer = a
        PROVE  /\ f.request.version >= applied[a]
               /\ RunsTier(f) /\ Unshown(a) => WillShow(f.request)'
    BY <1>3, <2>1, <2>3, <2>9 DEF Kept
  <2>10. Kept(a)'
    <3>1. applied'[a] = applied[a] /\ applied[a] <= params'[a] /\ (applied[a] # 0 => project')
      BY <2>1 DEF Kept, AskStays
    <3> QED BY <2>4, <2>7, <2>8, <2>9, <3>1 DEF Kept
  <2> QED BY <2>5, <2>10
<1> QED BY <1>4, <1>5, <1>6 DEF VersionInv, AskStays

\* The views of the map and of what was asked for.
LEMMA ViewUnchanged == viewVars' = viewVars => MapStays /\ AskStays
BY DEF viewVars, selectVars, mapVars, stageVars, busyVars, askVars, MapStays, AskStays

\* A step of the manager, and one of the pool.
LEMMA ManagerTells ==
  ASSUME TierInv, TierInv', VersionInv, Manager \/ \E o \in OpId : PoolFinishes(o)
  PROVE  VersionInv'
<1>1. MapStays /\ AskStays
  BY ViewUnchanged DEF Manager, PoolFinishes
<1>2. CASE Manager /\ RunNext
  BY <1>1, <1>2, RunTells
<1>3. CASE Manager /\ ~RunNext
  <2>1. ManagerStep
    BY <1>3 DEF Manager
  <2>2. ~In("run")
    <3>1. ASSUME NEW l \in Lane, PumpDrop(l) \/ PumpStart(l) PROVE Top.call = "pump"
      <4>1. CanPump(l)
        BY <3>1 DEF PumpDrop, PumpStart
      <4> QED BY <4>1 DEF CanPump, PumpCall
    <3>2. CASE SettleCancelled \/ PumpDone \/ CancelAll \/ SweepNext \/ SweepClear
      BY <3>2 DEF SettleCancelled, PumpDone, CancelAll, SweepNext, SweepClear, In
    <3>3. CASE \E l \in Lane : PumpDrop(l) \/ PumpStart(l)
      BY <3>1, <3>3 DEF In
    <3> QED BY <1>3, <2>1, <3>2, <3>3 DEF ManagerStep
  <2>3. FlowStep
    BY <1>3, <2>1, Flows
  <2> QED BY <1>1, <2>2, <2>3, FlowTells
<1>4. CASE \E o \in OpId : PoolFinishes(o)
  <2>1. ~In("run")
    BY <1>4 DEF PoolFinishes, AtRest, In
  <2>2. FlowStep
    BY <1>4, Flows
  <2> QED BY <1>1, <2>1, <2>2, FlowTells
<1> QED BY <1>2, <1>3, <1>4
-----------------------------------------------------------------------------
(* A step of the operator or the controller: it asks for builds and may    *)
(* cancel some.                                                            *)

\* F are the calls it makes.
Asks(F) ==
  /\ nextId' = nextId /\ op' = op /\ entries' = entries /\ launched' = launched
  /\ waiting' = waiting /\ cancelled \subseteq cancelled'
  /\ Frames(calls') = F \cup Frames(Rest)
  /\ \A f \in F : f.call \notin {"settle", "sweep"}

\* What is below the call on top.
LEMMA RestFrames ==
  ASSUME TierInv
  PROVE  /\ Rest \in Seq(Frame) /\ Frames(Rest) \subseteq Frames(calls)
         /\ calls # <<>> => /\ Rest = Tail(calls) /\ Frames(calls) = {Top} \cup Frames(Rest)
                            /\ Top \in Frame /\ \A y \in Frames(Rest) : Above(Top, y)
         /\ calls = <<>> => Rest = <<>> /\ Frames(calls) = {} /\ Frames(Rest) = {}
<1>1. calls = <<>> => Rest = <<>> /\ Frames(calls) = {} /\ Frames(Rest) = {} /\ <<>> \in Seq(Frame)
  BY NoFrames DEF Rest
<1> QED BY <1>1, StackSeq DEF Rest

\* The handlers that run are those that did.
LEMMA SettledStays ==
  ASSUME TierInv, NEW F, Asks(F), Settled
  PROVE  Settled'
BY RestFrames DEF Settled, Asks

\* One call is made, or none.
LEMMA AsksFor ==
  ASSUME TierInv, NEW C, Cancel(C), NEW F
  PROVE  /\ calls' = Rest /\ F = {} => Asks(F)
         /\ \A f \in Frame : f.call \notin {"settle", "sweep"} /\ F = {f}
              /\ calls' = <<f>> \o Rest => Asks(F)
         /\ \A f, g \in Frame : {f.call, g.call} \cap {"settle", "sweep"} = {} /\ F = {f, g}
              /\ calls' = <<f, g>> \o Rest => Asks(F)
<1>1. /\ nextId' = nextId /\ op' = op /\ entries' = entries /\ launched' = launched
      /\ waiting' = waiting /\ cancelled \subseteq cancelled'
  BY DEF Cancel
<1>2. PICK c : c = Rest /\ c \in Seq(Frame)
  BY RestFrames
<1>3. ASSUME NEW f \in Frame, f.call \notin {"settle", "sweep"}, F = {f}, calls' = <<f>> \o Rest
      PROVE  Asks(F)
  BY <1>1, <1>2, <1>3, FramesOf DEF Asks
<1>4. ASSUME NEW f \in Frame, NEW g \in Frame, {f.call, g.call} \cap {"settle", "sweep"} = {},
             F = {f, g}, calls' = <<f, g>> \o Rest
      PROVE  Asks(F)
  BY <1>1, <1>2, <1>4, FramesOf DEF Asks
<1> QED BY <1>1, <1>3, <1>4 DEF Asks

\* What comes after the step came before or is asked for.
LEMMA NewComes ==
  ASSUME TierInv, NEW F, Asks(F), NEW a,
         \A f \in F : f.call = "complete" => In("settle") /\ f.op = Top.op /\ Top.op \notin cancelled,
         NEW r \in Coming(a)'
  PROVE  r \in Coming(a) \/ \E f \in F : f.call = "run" /\ f.request = r
<1>1. r \in Request /\ r.kind \in Building /\ r.layer = a /\ Asked' = Asked
  BY DEF Coming, Asks, Asked
<1>2. CASE \E f \in Frames(calls') : f.call = "run" /\ f.request = r
  BY <1>1, <1>2, RestFrames DEF Asks, Coming
<1>3. ASSUME NEW o \in Asked, op[o] = r, Alive(o)' PROVE r \in Coming(a)
  <2>1. ASSUME CallFor("complete", o)' PROVE Alive(o)
    <3>1. PICK f \in Frames(calls') : f.call = "complete" /\ f.op = o
      BY <2>1 DEF CallFor
    <3>2. CASE f \in F
      <4>1. Top \in Frames(calls) /\ Top.call = "settle" /\ Top.op = o /\ o \notin cancelled
        BY <3>1, <3>2, RestFrames DEF In
      <4> QED BY <4>1 DEF Alive, CallFor
    <3>3. CASE f \in Frames(Rest)
      BY <3>1, <3>3, RestFrames DEF Alive, CallFor
    <3> QED BY <3>1, <3>2, <3>3 DEF Asks
  <2>2. ASSUME CallFor("settle", o)' PROVE CallFor("settle", o)
    BY <2>2, RestFrames DEF CallFor, Asks
  <2>3. Alive(o)
    BY <1>3, <2>1, <2>2 DEF Alive, Asks, Queued
  <2> QED BY <1>1, <1>3, <2>3 DEF Coming
<1> QED BY <1>1, <1>2, <1>3 DEF Coming, Asks

\* With no outcome to deliver and no sweep under way, what still comes is registered.
LEMMA StillRegistered ==
  ASSUME TierInv, NEW F, Asks(F), NEW a,
         \A f \in F : f.call # "complete",
         \A f \in Frames(calls) : f.call \notin {"settle", "complete", "sweep", "run"},
         NEW r \in Coming(a)'
  PROVE  \/ \E f \in F : f.call = "run" /\ f.request = r
         \/ \E o \in entries \ cancelled' : op[o] = r
<1>1. Asked' = Asked
  BY DEF Asks, Asked
<1>2. CASE \E f \in Frames(calls') : f.call = "run" /\ f.request = r
  BY <1>2, RestFrames DEF Asks
<1>3. ASSUME NEW o \in Asked, op[o] = r, Alive(o)' PROVE o \in entries \ cancelled'
  <2>1. ~CallFor("complete", o)' /\ ~CallFor("settle", o)'
    BY RestFrames DEF CallFor, Asks
  <2>2. o \notin cancelled' /\ (o \in launched \/ Queued(o))
    BY <1>3, <2>1 DEF Alive, Asks, Queued
  <2>3. \A l \in Lane : SweepsOf(l) = {}
    BY DEF SweepsOf
  <2>4. ASSUME NEW l \in Lane, InQueue(o, waiting[l]) PROVE o \in entries
    <3>1. PICK i \in 1..Len(waiting[l]) : waiting[l][i] = o
      BY <2>4 DEF InQueue
    <3> QED BY <2>3, <3>1 DEF TierInv, Registered
  <2> QED BY <2>2, <2>4 DEF TierInv, Registered, Queued
<1> QED BY <1>1, <1>2, <1>3 DEF Coming, Asks

\* So nothing but what is asked for comes of a layer whose builds were cancelled.
LEMMA OnlyNew ==
  ASSUME TierInv, NEW F, Asks(F), NEW a \in Layer,
         \A f \in F : f.call # "complete",
         \A f \in Frames(calls) : f.call \notin {"settle", "complete", "sweep", "run"},
         NEW r \in Coming(a)',
         \/ BuildsOf({a}) \subseteq cancelled'
         \/ r.kind = "tier" /\ Current(TierKeys(a)) \subseteq cancelled'
  PROVE  \E f \in F : f.call = "run" /\ f.request = r
<1>1. r.kind \in Building /\ r.layer = a
  BY DEF Coming
<1>2. ASSUME NEW o \in entries \ cancelled', op[o] = r PROVE FALSE
  <2>1. o \in entries \ cancelled
    BY DEF Asks
  <2>2. CASE BuildsOf({a}) \subseteq cancelled'
    BY <1>1, <1>2, <2>1, <2>2, BuildsReached DEF TierInv
  <2>3. CASE r.kind = "tier" /\ Current(TierKeys(a)) \subseteq cancelled'
    <3>1. r.key = TierKey(a, r.quality) /\ r.quality \in Quality /\ r.key \in Key
      BY <2>3, ComingFieldsNext, RequestFields
    <3>2. keyed[r.key] = o
      BY <1>2, <2>1, <3>1 DEF TierInv, KeyBooks
    <3>3. o \in Current(TierKeys(a))
      BY <1>2, <3>1, <3>2 DEF Current, TierKeys
    <3> QED BY <1>2, <2>3, <3>3
  <2> QED BY <2>2, <2>3
<1> QED BY <1>2, StillRegistered

\* A tier still comes unless its operation is cancelled or delivered.
LEMMA TiersStay ==
  ASSUME TierInv, NEW F, Asks(F), NEW a, ~In("run"),
         NEW r \in Coming(a),
         \A o \in cancelled' \ cancelled : op[o] # r,
         In("settle") \/ In("complete") => op[Top.op] # r \/ CompleteCall(Top.op) \in F
  PROVE  r \in Coming(a)'
<1>1. Asked' = Asked /\ Frames(Rest) \subseteq Frames(calls')
  BY DEF Asks, Asked
<1>2. \A f \in Frames(calls) : f \in Frames(Rest) \/ (f = Top /\ calls # <<>>)
  BY RestFrames
<1>3. r \in Request /\ r.kind \in Building /\ r.layer = a
  BY DEF Coming
<1>4. CASE \E f \in Frames(calls) : f.call = "run" /\ f.request = r
  BY <1>1, <1>2, <1>3, <1>4 DEF Coming, In
<1>5. ASSUME NEW o \in Asked, op[o] = r, Alive(o) PROVE Alive(o)'
  <2>1. o \notin cancelled => o \notin cancelled'
    BY <1>5
  <2>2. ASSUME NEW n \in {"settle", "complete"}, CallFor(n, o)
        PROVE  CallFor(n, o)' \/ CallFor("complete", o)'
    <3>1. PICK f \in Frames(calls) : f.call = n /\ f.op = o
      BY <2>2 DEF CallFor
    <3>2. CASE f \in Frames(Rest)
      BY <1>1, <3>1, <3>2 DEF CallFor
    <3>3. CASE f = Top /\ calls # <<>>
      <4>1. CompleteCall(Top.op) \in F /\ Top.op = o
        BY <1>5, <3>1, <3>3 DEF In
      <4>2. PICK g : g = CompleteCall(Top.op) /\ g.call = "complete" /\ g.op = Top.op
        BY CallNames
      <4>3. g \in Frames(calls')
        BY <4>1, <4>2 DEF Asks
      <4> QED BY <4>1, <4>2, <4>3 DEF CallFor
    <3> QED BY <1>2, <3>1, <3>2, <3>3
  <2> QED BY <1>5, <2>1, <2>2 DEF Alive, Asks, Queued
<1> QED BY <1>1, <1>3, <1>4, <1>5 DEF Coming, Asks

\* The step is not about layer b.
Aside(b, F) ==
  /\ staged'[b] = staged[b] /\ shown'[b] = shown[b] /\ applied'[b] = applied[b]
  /\ params[b] <= params'[b] /\ (b \in loaded' <=> b \in loaded) /\ (b \in crossed => b \in crossed')
  /\ \A f \in F : (RunsLoad(f) \/ RunsTier(f)) => f.request.layer # b
  /\ \A f \in F : f.call = "reload" /\ b \in loaded => \A i \in 1..Len(f.todo) : f.todo[i] # b
  /\ \A o \in cancelled' \ cancelled : op[o].kind = "tier" => op[o].layer # b
  /\ In("settle") \/ In("complete") \/ In("finally") =>
       op[Top.op].kind # "tier" \/ op[Top.op].layer # b

\* What is on the map stays in order, and what is owed still comes.
LEMMA AsideTells ==
  ASSUME TierInv, TierInv', VersionInv, NEW F, Asks(F), \A f \in F : f.call # "complete",
         ~In("run"), ~In("deactivate"), quality' = quality, project => project',
         NEW b \in Layer, Aside(b, F)
  PROVE  Ordered(b)' /\ Kept(b)'
<1> USE DEF Aside
<1>1. Ordered(b) /\ Kept(b)
  BY DEF VersionInv
<1>2. /\ \A r : r.layer = b => (IsPreview(r)' <=> IsPreview(r))
      /\ params[b] \in Nat /\ params'[b] \in Nat /\ applied[b] \in Nat
  BY DEF IsPreview, OfStage, IsStaged, TierInv, TierTypes, VersionInv
<1>3. ASSUME NEW r \in Coming(b)' PROVE r \in Coming(b)
  <2>1. r \in Coming(b) \/ \E f \in F : f.call = "run" /\ f.request = r
    BY <1>3, NewComes
  <2>2. ASSUME NEW f \in F, f.call = "run", f.request = r PROVE FALSE
    <3>1. r.kind \in {"load", "tier"} /\ r.layer = b
      BY <1>3, ComingFieldsNext
    <3> QED BY <2>2, <3>1 DEF RunsLoad, RunsTier
  <2> QED BY <2>1, <2>2
<1>4. ASSUME NEW r \in Coming(b), r.kind = "tier" PROVE r \in Coming(b)'
  <2>1. r.layer = b
    BY ComingFields
  <2>2. \A o \in cancelled' \ cancelled : op[o] # r
    BY <1>4, <2>1
  <2>3. In("settle") \/ In("complete") => op[Top.op] # r
    BY <1>4, <2>1
  <2> QED BY <2>2, <2>3, TiersStay
<1>5. \A f \in Frames(calls') : f \in Frames(calls) \/ f \in F
  BY RestFrames DEF Asks
<1>6. Ordered(b)'
  <2>1. \A f \in Frames(calls') : f.call = "complete" => f \in Frames(calls) /\ op'[f.op] = op[f.op]
    BY <1>5 DEF Asks
  <2>2. \A f \in Frames(calls') : f.call = "reload" /\ b \in loaded =>
          \A i \in 1..Len(f.todo) : f.todo[i] # b
    BY <1>1, <1>5 DEF Ordered
  <2> QED BY <1>1, <1>2, <1>3, <2>1, <2>2, OrderedStays
<1>7. Kept(b)'
  <2>1. Closing => Closing'
    BY RestFrames DEF Closing, Asks, In
  <2>2. applied[b] <= params'[b]
    BY <1>1, <1>2 DEF Kept
  <2>3. ASSUME NEW f \in Frames(calls), f.call = "finally", AsPreview(f.op)
        PROVE  (f \in Frames(calls') /\ op'[f.op] = op[f.op]) \/ op[f.op].layer # b
    <3>1. f \in Frames(Rest) \/ (f = Top /\ In("finally"))
      BY <2>3, RestFrames DEF In
    <3> QED BY <2>3, <3>1 DEF AsPreview, Asks
  <2>4. \A f \in Frames(calls') : (RunsLoad(f) \/ RunsTier(f)) /\ f.request.layer = b =>
          f \in Frames(calls)
    BY <1>5
  <2> QED BY <1>1, <1>2, <1>3, <1>4, <2>1, <2>2, <2>3, <2>4, KeptStays
<1> QED BY <1>6, <1>7

\* So only the layers the step is about have to be looked at.
LEMMA TellsBut ==
  ASSUME TierInv, TierInv', VersionInv, NEW F, Asks(F),
         \A f \in F : f.call \notin {"complete", "cancelAll"},
         ~In("run"), ~In("deactivate"), quality' = quality, project => project',
         applied' \in [Layer -> Nat],
         \A b \in Layer : Aside(b, F) \/ (Ordered(b)' /\ Kept(b)')
  PROVE  VersionInv'
<1>1. Winding' => Closing'
  <2>1. Winding' => Winding
    BY RestFrames DEF Winding, Asks
  <2>2. Closing => Closing'
    BY RestFrames DEF Closing, Asks, In
  <2> QED BY <2>1, <2>2 DEF VersionInv
<1>2. \A b \in Layer : Ordered(b)' /\ Kept(b)'
  BY AsideTells
<1> QED BY <1>1, <1>2, SettledStays DEF VersionInv
-----------------------------------------------------------------------------
(* The operator's steps keep the versions.                                 *)

\* A tier that is asked for, before and after its layer's parameters are stored.
LEMMA TierAsked ==
  ASSUME params \in [Layer -> Nat], NEW a \in Layer, NEW q, NEW l, NEW g,
         NEW r, r = TierOf(a, q, l, g) \/ r = AfterStore(TierOf(a, q, l, g))
  PROVE  /\ r.kind = "tier" /\ r.layer = a /\ r.quality = q /\ r.generation = g
         /\ r.key = TierKey(a, q)
         /\ r = TierOf(a, q, l, g) => r.version = params[a]
         /\ r = AfterStore(TierOf(a, q, l, g)) => r.version = params[a] + 1
BY DEF TierOf, AfterStore

\* A load that is asked for.
LEMMA LoadAsked ==
  ASSUME NEW a, NEW selected, NEW r, r = LoadOf(a, selected)
  PROVE  r.kind = "load" /\ r.layer = a /\ r.version = params[a]
BY DEF LoadOf

\* At rest nothing was called.
LEMMA RestTells ==
  ASSUME AtRest
  PROVE  /\ Rest = <<>> /\ calls = <<>> /\ Frames(calls) = {} /\ Frames(Rest) = {}
         /\ \A n : ~In(n)
BY AtRestPlain, RestCalls

\* Parameters that are stored.
LEMMA Stores ==
  ASSUME params \in [Layer -> Nat], NEW A, Stored(A), NEW a \in Layer
  PROVE  /\ params[a] <= params'[a] /\ params'[a] \in Nat /\ params[a] \in Nat
         /\ a \in A => params'[a] = params[a] + 1
         /\ a \notin A => params'[a] = params[a]
BY DEF Stored

\* An edit of a layer that is not loaded.
LEMMA EditUnloadedTells ==
  ASSUME TierInv, TierInv', VersionInv, NEW a \in Layer, EditUnloaded(a)
  PROVE  VersionInv'
<1>1. /\ AtRest /\ Stored({a}) /\ calls' = calls /\ quality' = quality /\ project' = project
      /\ staged' = staged /\ shown' = shown /\ applied' = applied /\ loaded' = loaded
      /\ crossed' = crossed /\ cancelled' = cancelled /\ Cancel({}) /\ a \notin loaded
  BY DEF EditUnloaded, managerVars, selectVars, mapVars, stageVars, busyVars, Cancel
<1>2. calls' = Rest /\ \A n : ~In(n)
  BY <1>1, RestTells
<1>3. PICK F : F = {}
  OBVIOUS
<1>4. Asks(F)
  BY <1>1, <1>2, <1>3, AsksFor
<1>5. \A b \in Layer : Aside(b, F)
  BY <1>1, <1>2, <1>3, Stores DEF Aside, TierInv, TierTypes
<1>6. applied' \in [Layer -> Nat]
  BY <1>1 DEF VersionInv
<1> QED BY <1>1, <1>2, <1>3, <1>4, <1>5, <1>6, TellsBut

\* A live correction supersedes the tier of the map's quality.
LEMMA EditLiveTells ==
  ASSUME TierInv, TierInv', VersionInv, NEW a \in Layer, EditLive(a)
  PROVE  VersionInv'
<1>1. PICK r, f, q : /\ r = AfterStore(TierOf(a, q, "apply", 0)) /\ f = RunCall(r) /\ q = quality
  OBVIOUS
<1>2. /\ AtRest /\ Stored({a}) /\ calls' = <<f>> \o calls /\ quality' = quality /\ project' = project
      /\ staged' = staged /\ shown' = shown /\ loaded' = loaded /\ project
      /\ crossed' = crossed /\ cancelled' = cancelled /\ Cancel({}) /\ a \in loaded
      /\ applied' = [applied EXCEPT ![a] = IF staged[a] = NotStaged THEN params'[a] ELSE 0]
      /\ params \in [Layer -> Nat] /\ q \in Quality /\ applied \in [Layer -> Nat]
  BY <1>1 DEF EditLive, selectVars, mapVars, stageVars, busyVars, Cancel, Push, TierInv, TierTypes,
              VersionInv
<1>3. Rest = <<>> /\ calls = <<>> /\ \A n : ~In(n)
  BY <1>2, RestTells
<1>4. /\ r.kind = "tier" /\ r.layer = a /\ r.quality = q /\ r.version = params'[a]
      /\ r.key = TierKey(a, q) /\ params'[a] \in Nat
      /\ params[a] <= params'[a]
  BY <1>1, <1>2, TierAsked, Stores
<1>5. r \in Request /\ f \in Frame /\ f.call = "run" /\ f.request = r
  BY <1>1, <1>2, RequestsMade, FramesMade, CallNames
<1>6. PICK F : F = {f}
  OBVIOUS
<1>7. Asks(F) /\ Frames(calls') = {f}
  <2>1. Asks(F)
    BY <1>2, <1>3, <1>5, <1>6, AsksFor
  <2> QED BY <1>2, <1>6, <2>1, RestTells DEF Asks
<1>8. ASSUME NEW b \in Layer, b # a PROVE Aside(b, F)
  BY <1>2, <1>3, <1>4, <1>5, <1>6, <1>8, Stores DEF Aside
<1>9. \A s \in Coming(a)' : s \in Coming(a) \/ s = r
  BY <1>3, <1>5, <1>6, <1>7, NewComes
<1>10. Ordered(a) /\ Kept(a)
  BY DEF VersionInv
<1>11. ~IsPreview(r)' /\ \A s : (IsPreview(s)' <=> IsPreview(s))
  <2>1. q = Low => ~staged[a].awaiting
    BY <1>1, GenerationCounts DEF High, Low
  <2> QED BY <1>2, <1>4, <2>1 DEF IsPreview, OfStage, IsStaged
<1>12. Ordered(a)'
  <2>1. \A g \in Frames(calls') : g.call = "run"
    BY <1>5, <1>7
  <2> QED BY <1>2, <1>4, <1>9, <1>10, <1>11, <2>1, OrderedStays
<1>13. Kept(a)'
  <2>1. CASE staged[a] # NotStaged
    <3>1. applied'[a] = 0
      BY <1>2, <2>1
    <3> QED BY <3>1, KeptNone
  <2>2. CASE staged[a] = NotStaged
    <3>1. applied'[a] = params'[a]
      BY <1>2, <2>2
    <3>2. r \in Coming(a)'
      BY <1>4, <1>5, <1>7 DEF Coming, Building
    <3>3. WillShow(r)' /\ ~IsStaged(r)'
      BY <1>1, <1>2, <1>4, <2>2 DEF WillShow, IsStaged
    <3>4. ASSUME NEW s \in Coming(a)', s.kind = "load" \/ MayShow(s)', s # r PROVE Superseding(s.key)'
      <4>1. s \in Coming(a)
        BY <1>9, <3>4
      <4>2. s.kind # "load"
        BY <1>2, <1>10, <4>1 DEF Ordered, Stocked
      <4>3. ~IsPreview(s)
        BY <2>2, <4>1, ComingFields DEF IsPreview, OfStage, IsStaged
      <4>4. s.kind = "tier" /\ s.quality = quality
        BY <1>2, <1>11, <3>4, <4>2, <4>3, ComingFieldsNext DEF MayShow
      <4>5. s.key = TierKey(a, q)
        BY <1>1, <4>1, <4>4, ComingFields
      <4>6. calls' = <<f>> /\ calls' # <<>> /\ Head(calls') = f /\ Tail(calls') = <<>>
        BY <1>2, <1>3, <1>5
      <4> QED BY <1>4, <1>5, <4>5, <4>6 DEF Superseding, In, Top
    <3> QED BY <1>2, <1>4, <1>5, <1>7, <3>1, <3>2, <3>3, <3>4 DEF Kept
  <2> QED BY <2>1, <2>2
<1>14. applied' \in [Layer -> Nat]
  BY <1>2, <1>4
<1>15. \A b \in Layer : Aside(b, F) \/ (Ordered(b)' /\ Kept(b)')
  BY <1>8, <1>12, <1>13
<1> QED BY <1>2, <1>3, <1>5, <1>6, <1>7, <1>14, <1>15, TellsBut

\* A refresh is staged; nothing else comes of its layer.
LEMMA StagedTells ==
  ASSUME TierInv, TierInv', VersionInv, AtRest, NEW a \in Layer, StageRefresh(a), a \in loaded, project,
         NEW C \in SUBSET entries, Cancel(C), Current(TierKeys(a)) \subseteq C,
         C \subseteq BuildsOf({a}) \cup Current(TierKeys(a)),
         quality' = quality, loaded' = loaded, shown' = shown, crossed' = crossed, project' = project
  PROVE  VersionInv'
<1>1. PICK r, f, q, g : /\ q = (IF quality > Low THEN Low ELSE quality) /\ g = generation
                        /\ r = AfterStore(TierOf(a, q, "apply", g)) /\ f = RunCall(r)
  OBVIOUS
<1>2. /\ Stored({a}) /\ calls' = <<f>> \o calls
      /\ staged' = [staged EXCEPT ![a] = [generation |-> g, target |-> quality,
                                          awaiting |-> quality > Low]]
      /\ applied' = [applied EXCEPT ![a] = params'[a]]
      /\ params \in [Layer -> Nat] /\ applied \in [Layer -> Nat] /\ staged \in [Layer -> Stage]
      /\ quality \in Quality
  BY <1>1 DEF StageRefresh, Push, TierInv, TierTypes, VersionInv
<1>3. q \in Quality /\ g \in Nat /\ 0 < g
  BY <1>1, <1>2, GenerationCounts DEF Quality, Low, High, Off
<1>4. Rest = <<>> /\ calls = <<>> /\ Frames(calls) = {} /\ \A n : ~In(n)
  BY RestTells
<1>5. /\ r.kind = "tier" /\ r.layer = a /\ r.quality = q /\ r.version = params'[a] /\ r.generation = g
      /\ params'[a] \in Nat /\ params[a] <= params'[a]
  BY <1>1, <1>2, TierAsked, Stores
<1>6. r \in Request /\ f \in Frame /\ f.call = "run" /\ f.request = r
  BY <1>1, <1>2, <1>3, RequestsMade, FramesMade, CallNames
<1>7. PICK F : F = {f}
  OBVIOUS
<1>8. Asks(F) /\ Frames(calls') = {f}
  <2>1. Asks(F)
    BY <1>2, <1>4, <1>6, <1>7, AsksFor
  <2> QED BY <1>7, <2>1, RestTells DEF Asks
<1>9. ASSUME NEW b \in Layer, b # a PROVE Aside(b, F)
  <2>1. PICK A \in SUBSET Layer : A = {a}
    OBVIOUS
  <2>2. \A o \in C : op[o].kind = "tier" => op[o].layer = a
    <3>1. ASSUME NEW o \in C, op[o].kind = "tier" PROVE op[o].layer = a
      <4>1. o \in BuildsOf(A) \cup UNION {Current(TierKeys(x)) : x \in A}
        BY <2>1, <3>1
      <4> QED BY <2>1, <3>1, <4>1, ReachedBy DEF TierInv
    <3> QED BY <3>1
  <2>3. cancelled' = cancelled \cup C
    BY DEF Cancel
  <2>4. \A o \in cancelled' \ cancelled : op[o].kind = "tier" => op[o].layer # b
    BY <1>9, <2>2, <2>3
  <2>5. params[b] <= params'[b]
    BY <1>2, Stores
  <2> QED BY <1>2, <1>4, <1>5, <1>6, <1>7, <1>9, <2>4, <2>5 DEF Aside
<1>10. Ordered(a) /\ Kept(a)
  BY DEF VersionInv
<1>11. \A s \in Coming(a)' : s = r
  <2>1. ASSUME NEW s \in Coming(a)' PROVE s.kind # "load"
    <3>1. s \in Coming(a) \/ s = r
      BY <1>4, <1>6, <1>7, <1>8, <2>1, NewComes
    <3> QED BY <1>5, <1>10, <3>1 DEF Ordered, Stocked
  <2>2. Current(TierKeys(a)) \subseteq cancelled'
    BY DEF Cancel
  <2>3. ASSUME NEW s \in Coming(a)' PROVE s = r
    <3>1. s.kind = "tier"
      BY <2>1, <2>3, ComingFieldsNext
    <3>2. \E h \in F : h.call = "run" /\ h.request = s
      BY <1>4, <1>6, <1>7, <1>8, <2>2, <2>3, <3>1, OnlyNew
    <3> QED BY <1>6, <1>7, <3>2
  <2> QED BY <2>3
<1>12. Ordered(a)'
  <2>1. shown'[a] <= params'[a]
    BY <1>5, <1>10 DEF Ordered, Stocked, TierInv, TierTypes
  <2> QED BY <1>5, <1>6, <1>8, <1>11, <2>1, OrderedAnew
<1>13. Kept(a)'
  <2>1. applied'[a] = params'[a]
    BY <1>2
  <2>2. r \in Coming(a)'
    BY <1>5, <1>6, <1>8 DEF Coming, Building
  <2>3. WillShow(r)'
    <3>1. PICK t : t = [generation |-> g, target |-> quality, awaiting |-> quality > Low]
      OBVIOUS
    <3>2. staged'[a] = t /\ t.generation = g /\ t.target = quality /\ t.awaiting = (quality > Low)
      BY <1>2, <3>1
    <3>3. t # NotStaged
      BY <1>3, <3>2 DEF NotStaged
    <3>4. quality > Low => q = Low
      BY <1>1
    <3>5. ~(quality > Low) => q = quality
      BY <1>1
    <3> QED BY <1>5, <3>2, <3>3, <3>4, <3>5 DEF WillShow, IsPreview, IsTarget, OfStage, IsStaged
  <2> QED BY <1>5, <1>6, <1>8, <1>11, <2>1, <2>2, <2>3 DEF Kept
<1>14. applied' \in [Layer -> Nat]
  BY <1>2, <1>5
<1>15. \A b \in Layer : Aside(b, F) \/ (Ordered(b)' /\ Kept(b)')
  BY <1>9, <1>12, <1>13
<1> QED BY <1>4, <1>6, <1>7, <1>8, <1>14, <1>15, TellsBut

\* A geometry edit, and a replaced store.
LEMMA RefreshTells ==
  ASSUME TierInv, TierInv', VersionInv, NEW a \in Layer, EditGeometry(a) \/ DataChanged(a)
  PROVE  VersionInv'
<1>1. PICK C \in SUBSET entries :
        /\ Cancel(C) /\ Current(TierKeys(a)) \subseteq C
        /\ C \subseteq BuildsOf({a}) \cup Current(TierKeys(a))
  <2>1. Current(TierKeys(a)) \in SUBSET entries /\ BuildsOf({a}) \in SUBSET entries
        /\ Current(TierKeys(a)) \subseteq BuildsOf({a})
    BY DEF Current, BuildsOf, BuildKeys
  <2>2. CASE EditGeometry(a)
    BY <2>1, <2>2 DEF EditGeometry
  <2>3. CASE DataChanged(a)
    BY <2>1, <2>3 DEF DataChanged
  <2> QED BY <2>2, <2>3
<1>2. /\ AtRest /\ StageRefresh(a) /\ a \in loaded /\ project
      /\ quality' = quality /\ loaded' = loaded /\ shown' = shown /\ crossed' = crossed
      /\ project' = project
  BY DEF EditGeometry, DataChanged, selectVars, mapVars
<1> QED BY <1>1, <1>2, StagedTells

\* A layer that is not loaded is loaded.
LEMMA LoadTells ==
  ASSUME TierInv, TierInv', VersionInv, AtRest, NEW a \in Layer, a \notin loaded, NEW selected,
         StartLoad(a, selected, calls), Cancel({}), quality' = quality, loaded' = loaded,
         shown' = shown, staged' = staged, params' = params, applied' = applied,
         crossed' = crossed, project => project'
  PROVE  VersionInv'
<1>1. Rest = <<>> /\ calls = <<>> /\ Frames(calls) = {} /\ \A n : ~In(n)
  BY RestTells
<1>2. PICK r, f : r = LoadOf(a, selected) /\ f = RunCall(r)
  OBVIOUS
<1>3. params \in [Layer -> Nat] /\ applied \in [Layer -> Nat] /\ cancelled' = cancelled
  BY DEF TierInv, TierTypes, VersionInv, Cancel
<1>4. /\ r.kind = "load" /\ r.layer = a /\ r.version = params[a]
      /\ r \in Request /\ f \in Frame /\ f.call = "run" /\ f.request = r
  BY <1>2, <1>3, LoadAsked, RequestsMade, FramesMade, CallNames
<1>5. PICK F : F = IF quality = Off THEN {} ELSE {f}
  OBVIOUS
<1>6. Asks(F) /\ Frames(calls') = F
  <2>1. Asks(F)
    <3>1. CASE quality = Off
      BY <1>1, <1>5, <3>1, AsksFor DEF StartLoad
    <3>2. CASE quality # Off
      BY <1>1, <1>2, <1>4, <1>5, <3>2, AsksFor DEF StartLoad
    <3> QED BY <3>1, <3>2
  <2> QED BY <2>1, RestTells DEF Asks
<1>7. ASSUME NEW b \in Layer, b # a PROVE Aside(b, F)
  BY <1>1, <1>3, <1>4, <1>5, <1>7 DEF Aside
<1>8. Ordered(a) /\ Kept(a) /\ params[a] \in Nat /\ applied[a] <= params[a]
  BY <1>3 DEF VersionInv, Kept
<1>9. \A s \in Coming(a)' : s \in Coming(a) \/ s = r
  BY <1>1, <1>4, <1>5, <1>6, NewComes
<1>10. \A s : IsPreview(s)' <=> IsPreview(s)
  BY DEF IsPreview, OfStage, IsStaged
<1>11. Ordered(a)'
  <2>1. \A g \in Frames(calls') : g.call = "run"
    BY <1>4, <1>5, <1>6
  <2> QED BY <1>4, <1>8, <1>9, <1>10, <2>1, OrderedStays
<1>12. Kept(a)'
  <2>1. ~Unshown(a)'
    BY DEF Unshown
  <2>2. \A g \in Frames(calls') : g = f
    BY <1>5, <1>6
  <2> QED BY <1>1, <1>4, <1>8, <1>9, <1>10, <2>1, <2>2, KeptPaid
<1>13. \A b \in Layer : Aside(b, F) \/ (Ordered(b)' /\ Kept(b)')
  BY <1>7, <1>11, <1>12
<1>14. \A g \in F : g.call = "run"
  BY <1>4, <1>5
<1> QED BY <1>1, <1>3, <1>6, <1>13, <1>14, TellsBut

\* A selection loads its layer or upgrades it.
LEMMA SelectTells ==
  ASSUME TierInv, TierInv', VersionInv, NEW a \in Layer, Select(a)
  PROVE  VersionInv'
<1>1. PICK u \in BOOLEAN : u <=> (a \in loaded /\ resident[a] # quality /\ quality > Low)
  OBVIOUS
<1>2. /\ AtRest /\ quality' = quality /\ project' = TRUE /\ loaded' = loaded /\ shown' = shown
      /\ staged' = staged /\ params' = params /\ crossed' = crossed /\ Cancel({})
      /\ cancelled' = cancelled
      /\ applied' = IF u /\ staged[a] # NotStaged THEN [applied EXCEPT ![a] = 0] ELSE applied
      /\ params \in [Layer -> Nat] /\ quality \in Quality /\ applied \in [Layer -> Nat]
  BY <1>1 DEF Select, mapVars, stageVars, TierInv, TierTypes, VersionInv, Cancel
<1>3. CASE a \notin loaded
  <2>1. applied' = applied
    BY <1>1, <1>2, <1>3
  <2>2. StartLoad(a, TRUE, calls)
    BY <1>3 DEF Select
  <2> QED BY <1>2, <1>3, <2>1, <2>2, LoadTells
<1>4. CASE a \in loaded
  <2>1. PICK r, f, q : r = TierOf(a, q, "map", 0) /\ f = RunCall(r) /\ q = quality
    OBVIOUS
  <2>2. calls' = (IF u THEN <<f>> ELSE <<>>) \o calls
    BY <1>1, <1>4, <2>1 DEF Select, Push
  <2>3. Rest = <<>> /\ calls = <<>> /\ Frames(calls) = {} /\ \A n : ~In(n)
    BY <1>2, RestTells
  <2>4. /\ r.kind = "tier" /\ r.layer = a /\ r.quality = q /\ r.version = params[a]
        /\ r \in Request /\ f \in Frame /\ f.call = "run" /\ f.request = r
    BY <1>2, <2>1, TierAsked, RequestsMade, FramesMade, CallNames
  <2>5. PICK F : F = IF u THEN {f} ELSE {}
    OBVIOUS
  <2>6. Asks(F) /\ Frames(calls') = F
    <3>1. Asks(F)
      <4>1. CASE u
        BY <1>2, <2>2, <2>3, <2>4, <2>5, <4>1, AsksFor
      <4>2. CASE ~u
        <5>1. calls' = <<>> \o calls
          BY <2>2, <4>2
        <5>2. calls' = Rest
          BY <2>3, <5>1
        <5> QED BY <1>2, <2>5, <4>2, <5>2, AsksFor
      <4> QED BY <4>1, <4>2
    <3> QED BY <1>2, <3>1, RestTells DEF Asks
  <2>7. ASSUME NEW b \in Layer, b # a PROVE Aside(b, F)
    BY <1>2, <2>3, <2>4, <2>5, <2>7 DEF Aside
  <2>8. Ordered(a) /\ Kept(a) /\ params[a] \in Nat /\ applied[a] \in Nat /\ applied[a] <= params[a]
    BY <1>2 DEF VersionInv, Kept
  <2>9. \A s \in Coming(a)' : s \in Coming(a) \/ (s = r /\ u)
    BY <2>3, <2>4, <2>5, <2>6, NewComes
  <2>10. \A s : IsPreview(s)' <=> IsPreview(s)
    BY <1>2 DEF IsPreview, OfStage, IsStaged
  <2>11. ~IsPreview(r)' \/ ~u
    <3>1. u => r.quality # Low
      BY <1>1, <2>1, <2>4 DEF Low
    <3>2. IsPreview(r) => r.quality = Low
      BY DEF IsPreview
    <3> QED BY <2>10, <3>1, <3>2
  <2>12. Ordered(a)'
    <3>1. \A g \in Frames(calls') : g.call = "run"
      BY <2>4, <2>5, <2>6
    <3> QED BY <1>2, <1>4, <2>4, <2>8, <2>9, <2>10, <2>11, <3>1, OrderedStays
  <2>13. Kept(a)'
    <3>1. CASE u /\ staged[a] # NotStaged
      <4>1. applied'[a] = 0
        BY <1>2, <3>1
      <4> QED BY <4>1, KeptNone
    <3>2. CASE ~(u /\ staged[a] # NotStaged)
      <4>1. applied' = applied
        BY <1>2, <3>2
      <4>2. u => WillShow(r)
        BY <2>1, <2>4, <3>2 DEF WillShow, IsStaged
      <4>3. \A s \in Coming(a) : s \in Coming(a)'
        BY <1>2, <2>3, <2>6, TiersStay
      <4>4. \A g \in Frames(calls') : g = f /\ u
        BY <2>5, <2>6
      <4>5. ~Closing
        BY <2>3 DEF Closing
      <4> QED BY <1>2, <2>3, <2>4, <2>8, <2>9, <4>1, <4>2, <4>3, <4>4, <4>5, KeptStays
    <3> QED BY <3>1, <3>2
  <2>14. \A b \in Layer : Aside(b, F) \/ (Ordered(b)' /\ Kept(b)')
    BY <2>7, <2>12, <2>13
  <2>15. \A g \in F : g.call = "run"
    BY <2>4, <2>5
  <2> QED BY <1>2, <2>3, <2>6, <2>14, <2>15, TellsBut
<1> QED BY <1>3, <1>4

\* A layer shown with the survey is loaded.
LEMMA OverviewTells ==
  ASSUME TierInv, TierInv', VersionInv, NEW a \in Layer, Overview(a)
  PROVE  VersionInv'
BY LoadTells DEF Overview, mapVars, stageVars, askVars

\* A layer's builds are cancelled; it is loaded again or not.
LEMMA DroppedTells ==
  ASSUME TierInv, TierInv', VersionInv, AtRest, NEW a \in Layer, Cancel(BuildsOf({a})),
         quality' = quality, project' = project, params' = params,
         loaded' = loaded \ {a}, staged' = [staged EXCEPT ![a] = NotStaged],
         applied' = [applied EXCEPT ![a] = 0], crossed' = crossed \ {a},
         shown'[a] \in {0, shown[a]}, \A b \in Layer : b # a => shown'[b] = shown[b],
         NEW selected, calls' = calls \/ calls' = <<RunCall(LoadOf(a, selected))>> \o calls
  PROVE  VersionInv'
<1>1. Rest = <<>> /\ calls = <<>> /\ Frames(calls) = {} /\ \A n : ~In(n)
  BY RestTells
<1>2. PICK r, f : r = LoadOf(a, selected) /\ f = RunCall(r)
  OBVIOUS
<1>3. /\ params \in [Layer -> Nat] /\ applied \in [Layer -> Nat] /\ staged \in [Layer -> Stage]
      /\ shown \in [Layer -> Nat]
      /\ cancelled' = cancelled \cup BuildsOf({a})
  BY DEF TierInv, TierTypes, VersionInv, Cancel
<1>4. /\ r.kind = "load" /\ r.layer = a /\ r.version = params[a]
      /\ r \in Request /\ f \in Frame /\ f.call = "run" /\ f.request = r
  BY <1>2, <1>3, LoadAsked, RequestsMade, FramesMade, CallNames
<1>5. PICK F : F \in {{}, {f}} /\ Asks(F)
  <2>1. CASE calls' = calls
    BY <1>1, <2>1, AsksFor
  <2>2. CASE calls' = <<f>> \o calls
    <3>1. PICK F : F = {f}
      OBVIOUS
    <3>2. Asks(F)
      BY <1>1, <1>4, <2>2, <3>1, AsksFor
    <3> QED BY <3>1, <3>2
  <2> QED BY <1>2, <2>1, <2>2
<1>6. Frames(calls') = F /\ \A g \in F : g = f
  BY <1>5, RestTells DEF Asks
<1>7. ASSUME NEW b \in Layer, b # a PROVE Aside(b, F)
  <2>1. PICK A \in SUBSET Layer : A = {a}
    OBVIOUS
  <2>2. ASSUME NEW o \in BuildsOf({a}), op[o].kind = "tier" PROVE op[o].layer = a
    <3>1. o \in BuildsOf(A) \cup UNION {Current(TierKeys(x)) : x \in A}
      BY <2>1, <2>2
    <3> QED BY <2>1, <2>2, <3>1, ReachedBy DEF TierInv
  <2>3. \A o \in cancelled' \ cancelled : op[o].kind = "tier" => op[o].layer # b
    BY <1>3, <1>7, <2>2
  <2>4. params[b] <= params'[b] /\ staged'[b] = staged[b] /\ applied'[b] = applied[b]
    BY <1>3, <1>7
  <2>5. \A g \in F : g.call = "run" /\ g.request.layer # b
    BY <1>4, <1>6, <1>7
  <2>6. shown'[b] = shown[b] /\ (b \in loaded' <=> b \in loaded) /\ (b \in crossed => b \in crossed')
    BY <1>7
  <2> QED BY <1>1, <2>3, <2>4, <2>5, <2>6 DEF Aside
<1>8. \A s \in Coming(a)' : s = r
  <2>1. BuildsOf({a}) \subseteq cancelled'
    BY <1>3
  <2>2. /\ \A g \in F : g.call # "complete"
        /\ \A g \in Frames(calls) : g.call \notin {"settle", "complete", "sweep", "run"}
    BY <1>1, <1>4, <1>6
  <2>3. ASSUME NEW s \in Coming(a)' PROVE s = r
    <3>1. \E g \in F : g.call = "run" /\ g.request = s
      BY <1>5, <2>1, <2>2, <2>3, OnlyNew
    <3> QED BY <1>4, <1>6, <3>1
  <2> QED BY <2>3
<1>9. Ordered(a)'
  <2>1. shown'[a] <= params'[a]
    BY <1>3 DEF VersionInv, Ordered, Stocked
  <2> QED BY <1>4, <1>6, <1>8, <2>1, OrderedAnew
<1>10. Kept(a)'
  BY <1>3, KeptNone
<1>11. \A b \in Layer : Aside(b, F) \/ (Ordered(b)' /\ Kept(b)')
  BY <1>7, <1>9, <1>10
<1>12. applied' \in [Layer -> Nat]
  BY <1>3
<1> QED BY <1>1, <1>4, <1>5, <1>6, <1>11, <1>12, TellsBut

\* An unloaded layer, and one that is reloaded.
LEMMA UnloadTells ==
  ASSUME TierInv, TierInv', VersionInv, NEW a \in Layer, Unload(a) \/ Reload(a)
  PROVE  VersionInv'
<1>1. /\ AtRest /\ Cancel(BuildsOf({a})) /\ quality' = quality /\ project' = project
      /\ params' = params /\ loaded' = loaded \ {a} /\ staged' = [staged EXCEPT ![a] = NotStaged]
      /\ applied' = [applied EXCEPT ![a] = 0] /\ crossed' = crossed \ {a}
  BY DEF Unload, Reload, selectVars
<1>2. shown'[a] \in {0, shown[a]} /\ \A b \in Layer : b # a => shown'[b] = shown[b]
  BY DEF Unload, Reload, Clear, Dropped
<1>3. PICK s : s = (a = active)
  OBVIOUS
<1>4. calls' = calls \/ calls' = <<RunCall(LoadOf(a, s))>> \o calls
  BY <1>3 DEF Unload, Reload, StartLoad
<1> QED BY <1>1, <1>2, <1>4, DroppedTells

\* All builds are cancelled and nothing stays applied.
LEMMA ForgetTells ==
  ASSUME TierInv, TierInv', VersionInv, NEW F, Asks(F),
         \A f \in F : f.call \notin {"run", "complete"} /\ (f.call = "reload" => loaded' = {}),
         \A f \in Frames(calls) : f.call \notin {"settle", "complete", "sweep", "run", "reload"},
         BuildsOf(Layer) \subseteq cancelled', applied' = [a \in Layer |-> 0],
         \A a \in Layer : shown'[a] <= params'[a],
         Winding' => Closing'
  PROVE  VersionInv'
<1>1. ASSUME NEW a \in Layer PROVE Ordered(a)' /\ Kept(a)'
  <2>1. BuildsOf({a}) \subseteq cancelled'
    BY DEF BuildsOf, Current
  <2>2. ASSUME NEW r \in Coming(a)' PROVE FALSE
    <3>1. \E f \in F : f.call = "run" /\ f.request = r
      BY <2>1, <2>2, OnlyNew
    <3> QED BY <3>1
  <2>3. \A f \in Frames(calls') : f.call # "complete" /\ (f.call = "reload" => loaded' = {})
    BY RestFrames DEF Asks
  <2>4. Ordered(a)'
    BY <2>2, <2>3, OrderedAnew
  <2>5. applied'[a] = 0
    OBVIOUS
  <2> QED BY <2>4, <2>5, KeptNone
<1>2. applied' \in [Layer -> Nat]
  OBVIOUS
<1> QED BY <1>1, <1>2, SettledStays DEF VersionInv

\* From rest, layers are to be loaded again.
LEMMA ReloadAsked ==
  ASSUME TierInv, AtRest, NEW C, Cancel(C), NEW todo \in Seq(Layer), calls' = <<ReloadCall(todo)>>
  PROVE  \E f : /\ f = ReloadCall(todo) /\ f.call = "reload" /\ f.todo = todo
                /\ \E F : F = {f} /\ Asks(F) /\ Frames(calls') = F
<1>1. PICK f \in Frame : f = ReloadCall(todo) /\ f.call = "reload" /\ f.todo = todo
  BY FramesMade, CallNames
<1>2. PICK F : F = {f}
  OBVIOUS
<1>3. Rest = <<>> /\ Frames(Rest) = {}
  BY RestTells
<1>4. calls' = <<f>> \o Rest
  BY <1>1, <1>3
<1>5. Asks(F)
  BY <1>1, <1>2, <1>4, AsksFor
<1>6. Frames(calls') = F
  BY <1>3, <1>5 DEF Asks
<1> QED BY <1>1, <1>2, <1>5, <1>6

\* A new quality of the map.
LEMMA SetQualityTells ==
  ASSUME TierInv, TierInv', VersionInv, NEW q \in Quality, SetQuality(q)
  PROVE  VersionInv'
<1>1. /\ AtRest /\ loaded' = {} /\ Cancel(BuildsOf(Layer)) /\ applied' = [a \in Layer |-> 0]
      /\ params' = params /\ BuildsOf(Layer) \subseteq cancelled'
  BY DEF SetQuality, Forget, Cancel
<1>2. calls = <<>> /\ Rest = <<>> /\ Frames(calls) = {} /\ Frames(Rest) = {}
  BY <1>1, RestTells
<1>3. \E F : Asks(F) /\ \A f \in F : f.call = "reload"
  <2>1. CASE q = Off
    <3>1. PICK F : F = {}
      OBVIOUS
    <3>2. calls' = Rest
      BY <1>2, <2>1 DEF SetQuality
    <3>3. Asks(F)
      BY <1>1, <3>1, <3>2, AsksFor
    <3> QED BY <3>1, <3>3
  <2>2. CASE q # Off
    <3>1. PICK first : first = IF active = NoLayer THEN <<>> ELSE <<active>>
      OBVIOUS
    <3>2. PICK others \in SetToSeqs(loaded \ {active}) : calls' = <<ReloadCall(first \o others)>>
      BY <2>2, <3>1 DEF SetQuality
    <3>3. first \o others \in Seq(Layer)
      <4>1. loaded \ {active} \in SUBSET Layer /\ active \in Layer \cup {NoLayer}
        BY DEF TierInv, TierTypes
      <4>2. others \in Seq(Layer)
        BY <3>2, <4>1, LayerSeqs
      <4>3. first \in Seq(Layer)
        BY <3>1, <4>1, Tuples
      <4> QED BY <4>2, <4>3
    <3>4. PICK todo \in Seq(Layer) : calls' = <<ReloadCall(todo)>>
      BY <3>2, <3>3
    <3>5. PICK f, F : f.call = "reload" /\ F = {f} /\ Asks(F)
      BY <1>1, <3>4, ReloadAsked
    <3> QED BY <3>5
  <2> QED BY <2>1, <2>2
<1>4. PICK F : Asks(F) /\ \A f \in F : f.call = "reload"
  BY <1>3
<1>5. \A a \in Layer : shown'[a] <= params'[a]
  <2>1. shown' = shown \/ \A a \in Layer : shown'[a] \in {0, shown[a]}
    BY DEF SetQuality, Clear, Dropped
  <2>2. \A a \in Layer : shown[a] <= params[a] /\ 0 <= params[a]
    BY DEF VersionInv, Ordered, Stocked, TierInv, TierTypes
  <2> QED BY <1>1, <2>1, <2>2
<1>6. ~Winding'
  BY <1>2, <1>4 DEF Winding, Asks
<1> QED BY <1>1, <1>2, <1>4, <1>5, <1>6, ForgetTells

\* A new CRS.
LEMMA ChangeCrsTells ==
  ASSUME TierInv, TierInv', VersionInv, ChangeCrs
  PROVE  VersionInv'
<1>1. /\ AtRest /\ loaded' = {} /\ Cancel(BuildsOf(Layer)) /\ applied' = [a \in Layer |-> 0]
      /\ Stored(Layer) /\ shown' = shown /\ BuildsOf(Layer) \subseteq cancelled'
      /\ params \in [Layer -> Nat]
  BY DEF ChangeCrs, Forget, Cancel, TierInv, TierTypes
<1>2. Frames(calls) = {} /\ Frames(Rest) = {}
  BY <1>1, RestTells
<1>3. PICK todo \in SetToSeqs(loaded \cup {active}) : calls' = <<ReloadCall(todo)>>
  BY DEF ChangeCrs
<1>4. todo \in Seq(Layer)
  <2>1. loaded \cup {active} \in SUBSET Layer
    BY DEF ChangeCrs, TierInv, TierTypes
  <2> QED BY <2>1, LayerSeqs
<1>5. PICK f, F : f.call = "reload" /\ F = {f} /\ Asks(F)
  BY <1>1, <1>3, <1>4, ReloadAsked
<1>6. \A a \in Layer : shown'[a] <= params'[a]
  BY <1>1, Stores DEF VersionInv, Ordered, Stocked, TierInv, TierTypes
<1>7. ~Winding'
  BY <1>2, <1>5 DEF Winding, Asks
<1> QED BY <1>1, <1>2, <1>5, <1>6, <1>7, ForgetTells

\* deactivate: the sweeps of a project that closes are under calls that clear the map.
LEMMA DeactivateTells ==
  ASSUME TierInv, TierInv', VersionInv, Deactivate
  PROVE  VersionInv'
<1>1. /\ In("deactivate") /\ Cancel(BuildsOf(Layer)) /\ applied' = [a \in Layer |-> 0]
      /\ params' = params /\ BuildsOf(Layer) \subseteq cancelled' /\ calls' = Tail(calls)
  BY DEF Deactivate, Forget, Cancel, Return
<1>2. /\ calls # <<>> /\ Top.call = "deactivate" /\ Rest = Tail(calls)
      /\ Frames(calls) = {Top} \cup Frames(Rest)
      /\ \A y \in Frames(Rest) : Above(Top, y)
  BY <1>1, TopIn DEF TierInv
<1>3. \A f \in Frames(calls) : f.call \in Outer
  BY <1>2 DEF Above, Outer
<1>4. PICK F : F = {}
  OBVIOUS
<1>5. Asks(F) /\ Frames(calls') = Frames(Rest)
  BY <1>1, <1>2, <1>4, AsksFor
<1>6. \A a \in Layer : shown'[a] <= params'[a]
  <2>1. shown' = shown \/ \A a \in Layer : shown'[a] = 0
    BY DEF Deactivate, Clear, Dropped
  <2> QED BY <1>1, <2>1 DEF VersionInv, Ordered, Stocked, TierInv, TierTypes
<1>7. Winding' => Closing'
  <2>1. CASE Top.clear
    <3>1. Frames(Rest) = {}
      BY <1>2, <2>1 DEF Above
    <3> QED BY <1>5, <3>1 DEF Winding
  <2>2. CASE ~Top.clear
    BY <1>2, <1>5, <2>2 DEF Winding, Closing, VersionInv
  <2> QED BY <2>1, <2>2
<1> QED BY <1>1, <1>3, <1>4, <1>5, <1>6, <1>7, ForgetTells DEF Outer

\* At rest, what comes is an operation under way.
LEMMA UnderWay ==
  ASSUME TierInv, AtRest, NEW a \in Layer, NEW r \in Coming(a)
  PROVE  \E o \in OpsOf(a, {r.kind}) \ cancelled : op[o] = r
<1>1. Frames(calls) = {}
  BY RestTells
<1>2. PICK o \in Asked : op[o] = r /\ o \notin cancelled /\ (o \in launched \/ Queued(o))
  BY <1>1 DEF Coming, Alive, CallFor
<1>3. r.layer = a /\ o \in OpId
  BY ComingFields DEF Asked
<1>4. CASE o \in launched
  BY <1>2, <1>3, <1>4 DEF OpsOf, Pending
<1>5. CASE Queued(o)
  <2>1. PICK l \in Lane : InQueue(o, waiting[l])
    BY <1>5 DEF Queued
  <2>2. PICK i \in 1..Len(waiting[l]) : waiting[l][i] = o
    BY <2>1 DEF InQueue
  <2>3. <<l, i>> \in Places(o)
    BY <2>2, PlacesOf DEF TierInv, LaneInv
  <2>4. o \in Pending
    BY <1>3, <2>3 DEF Pending
  <2> QED BY <1>2, <1>3, <2>4 DEF OpsOf
<1> QED BY <1>2, <1>4, <1>5

\* What is put in a sequence.
LEMMA SeqsOf ==
  ASSUME NEW S \in SUBSET Layer, NEW s \in SetToSeqs(S)
  PROVE  \A i \in 1..Len(s) : s[i] \in S
<1>1. Cardinality(S) \in Nat
  BY TiersAssumption, FS_Subset, FS_CardinalityType DEF TiersAssumption
<1>2. s \in [1..Cardinality(S) -> S]
  BY DEF SetToSeqs
<1> QED BY <1>1, <1>2

\* A new palette: the layers to reload have no tier under way, or are crossed.
LEMMA RepaletteTells ==
  ASSUME TierInv, TierInv', VersionInv, Repalette
  PROVE  VersionInv'
<1>1. PICK lost : lost = loaded \ intensity
  OBVIOUS
<1>2. /\ AtRest /\ quality' = quality /\ project' = project /\ loaded' = loaded \ lost /\ Cancel({})
      /\ staged' = staged /\ shown' = shown /\ params' = params /\ applied' = applied
      /\ crossed' = crossed \cup {a \in lost : OpsOf(a, {"tier"}) \ cancelled # {}}
      /\ cancelled' = cancelled /\ lost \in SUBSET Layer /\ lost \subseteq loaded
  BY <1>1 DEF Repalette, busyVars, selectVars, stageVars, Cancel, TierInv, TierTypes
<1>3. PICK todo \in SetToSeqs(lost) : calls' = <<ReloadCall(todo)>>
  BY <1>1 DEF Repalette
<1>4. todo \in Seq(Layer) /\ \A i \in 1..Len(todo) : todo[i] \in lost
  BY <1>2, LayerSeqs, SeqsOf
<1>5. PICK f, F : /\ f.call = "reload" /\ f.todo = todo /\ F = {f} /\ Asks(F) /\ Frames(calls') = F
  BY <1>2, <1>3, <1>4, ReloadAsked
<1>6. \A n : ~In(n)
  BY <1>2, RestTells
<1>7. \A s : IsPreview(s)' <=> IsPreview(s)
  BY <1>2 DEF IsPreview, OfStage, IsStaged
<1>8. ASSUME NEW b \in Layer, b \notin lost PROVE Aside(b, F)
  <2>1. params[b] <= params'[b]
    BY <1>2 DEF TierInv, TierTypes
  <2>2. \A g \in F : g.call = "reload" /\ \A i \in 1..Len(g.todo) : g.todo[i] # b
    BY <1>4, <1>5, <1>8
  <2> QED BY <1>2, <1>6, <1>8, <2>1, <2>2 DEF Aside, RunsLoad, RunsTier
<1>9. ASSUME NEW a \in lost PROVE Ordered(a)' /\ Kept(a)'
  <2>1. a \in Layer /\ Ordered(a) /\ Kept(a) /\ params[a] \in Nat /\ a \in loaded /\ a \notin loaded'
    BY <1>2, <1>9 DEF VersionInv, TierInv, TierTypes
  <2>2. ASSUME NEW r \in Coming(a)' PROVE r \in Coming(a)
    BY <1>5, <1>6, <2>2, NewComes
  <2>3. Stocked(a)'
    BY <1>2, <2>1, <2>2 DEF Ordered, Stocked
  <2>4. ASSUME a \notin crossed', NEW r \in Coming(a)', r.kind = "tier" PROVE FALSE
    <3>1. \E o \in OpsOf(a, {r.kind}) \ cancelled : op[o] = r
      BY <1>2, <2>1, <2>2, <2>4, UnderWay
    <3>2. OpsOf(a, {"tier"}) \ cancelled # {}
      BY <2>4, <3>1
    <3> QED BY <1>2, <1>9, <2>4, <3>2
  <2>5. \A g \in Frames(calls') : g.call = "reload"
    BY <1>5
  <2>6. Ordered(a)'
    BY <2>1, <2>3, <2>4, <2>5 DEF Ordered, TiersNew
  <2>7. Kept(a)'
    <3>1. ~Unshown(a)'
      BY <2>1 DEF Unshown
    <3>2. applied'[a] <= params'[a]
      BY <1>2, <2>1 DEF Kept
    <3>3. \A g \in Frames(calls') : ~RunsLoad(g) /\ ~RunsTier(g)
      BY <2>5 DEF RunsLoad, RunsTier
    <3> QED BY <1>2, <1>6, <1>7, <2>1, <2>2, <3>1, <3>2, <3>3, KeptPaid
  <2> QED BY <2>6, <2>7
<1>10. \A b \in Layer : Aside(b, F) \/ (Ordered(b)' /\ Kept(b)')
  BY <1>8, <1>9
<1>11. applied' \in [Layer -> Nat]
  BY <1>2 DEF VersionInv
<1> QED BY <1>2, <1>5, <1>6, <1>10, <1>11, TellsBut

\* What a step that is about no layer leaves.
LEMMA AsideAll ==
  ASSUME TierInv, staged' = staged, shown' = shown, loaded' = loaded, AskStays,
         cancelled' = cancelled, NEW F,
         \A f \in F : ~RunsLoad(f) /\ ~RunsTier(f) /\ f.call # "reload",
         In("settle") \/ In("complete") \/ In("finally") => op[Top.op].kind # "tier",
         NEW b \in Layer
  PROVE  Aside(b, F)
<1>1. params[b] \in Nat
  BY DEF TierInv, TierTypes
<1> QED BY <1>1 DEF Aside, AskStays

\* A raster layer is displayed.
LEMMA DisplayRasterTells ==
  ASSUME TierInv, TierInv', VersionInv, DisplayRaster
  PROVE  VersionInv'
<1>1. /\ AtRest /\ Cancel({}) /\ viewVars' = viewVars /\ cancelled' = cancelled
      /\ calls' = <<RunCall(RasterLoad)>> \o calls
  BY DEF DisplayRaster, Push, Cancel
<1>2. Rest = <<>> /\ calls = <<>> /\ \A n : ~In(n)
  BY <1>1, RestTells
<1>3. PICK r, f : r = RasterLoad /\ f = RunCall(r)
  OBVIOUS
<1>4. r.kind = "raster" /\ f \in Frame /\ f.call = "run" /\ f.request = r
  <2>1. r \in Request
    BY <1>3 DEF Request, OtherRequest, RasterLoad, TiersAssumption
  <2> QED BY <1>3, <2>1, FramesMade, CallNames DEF RasterLoad
<1>5. PICK F : F = {f}
  OBVIOUS
<1>6. Asks(F)
  BY <1>1, <1>2, <1>3, <1>4, <1>5, AsksFor
<1>7. MapStays /\ AskStays
  BY <1>1, ViewUnchanged
<1>8. \A b \in Layer : Aside(b, F)
  BY <1>1, <1>2, <1>4, <1>5, <1>7, AsideAll DEF RunsLoad, RunsTier, MapStays
<1>9. applied' \in [Layer -> Nat] /\ quality' = quality /\ project' = project
  BY <1>7 DEF MapStays, AskStays, VersionInv
<1> QED BY <1>2, <1>4, <1>5, <1>6, <1>8, <1>9, TellsBut

\* The project closes, or is deleted: the last call clears the map.
LEMMA ClosingTells ==
  ASSUME TierInv, TierInv', VersionInv, SwitchProject \/ DeleteProject
  PROVE  VersionInv'
<1>1. /\ AtRest /\ Cancel({}) /\ viewVars' = viewVars /\ cancelled' = cancelled
      /\ DeactivateCall(TRUE) \in Frames(calls') /\ \A f \in Frames(calls') : f.call \in Outer
  BY ClosingCalls, ClosingEnds DEF SwitchProject, DeleteProject, Cancel
<1>2. Frames(Rest) = {} /\ \A n : ~In(n)
  BY <1>1, RestTells
<1>3. PICK F : F = Frames(calls')
  OBVIOUS
<1>4. Asks(F)
  BY <1>1, <1>2, <1>3 DEF Asks, Cancel, Outer
<1>5. MapStays /\ AskStays
  BY <1>1, ViewUnchanged
<1>6. \A b \in Layer : Aside(b, F)
  BY <1>1, <1>2, <1>3, <1>5, AsideAll DEF RunsLoad, RunsTier, Outer, MapStays
<1>7. \A b \in Layer : Ordered(b)' /\ Kept(b)'
  BY <1>1, <1>2, <1>3, <1>4, <1>5, <1>6, AsideTells DEF MapStays, AskStays, Outer
<1>8. Closing'
  BY <1>1, CallNames DEF Closing
<1> QED BY <1>4, <1>5, <1>7, <1>8, SettledStays DEF VersionInv, AskStays
-----------------------------------------------------------------------------
(* The controller's steps keep the versions.                               *)

\* A step that is about no layer.
LEMMA IdleTells ==
  ASSUME TierInv, TierInv', VersionInv, quality' = quality, staged' = staged, shown' = shown,
         loaded' = loaded, AskStays, cancelled' = cancelled, NEW F, Asks(F),
         \A f \in F : ~RunsLoad(f) /\ ~RunsTier(f) /\ f.call \notin {"reload", "complete", "cancelAll"},
         ~In("run"), ~In("deactivate"), ~In("complete"),
         In("settle") \/ In("finally") => op[Top.op].kind # "tier"
  PROVE  VersionInv'
<1>1. \A b \in Layer : Aside(b, F)
  BY AsideAll
<1>2. applied' \in [Layer -> Nat] /\ project' = project
  BY DEF AskStays, VersionInv
<1> QED BY <1>1, <1>2, TellsBut

\* A call that returns.
LEMMA ReturnTells ==
  ASSUME TierInv, TierInv', VersionInv, quality' = quality, staged' = staged, shown' = shown,
         loaded' = loaded, AskStays, Cancel({}) \/ FinallyManager, NEW n, In(n), Return,
         n \in {"reload", "dialog", "finally"}, n = "finally" => op[Top.op].kind # "tier"
  PROVE  VersionInv'
<1>1. /\ nextId' = nextId /\ op' = op /\ entries' = entries /\ launched' = launched
      /\ waiting' = waiting /\ cancelled' = cancelled
  BY DEF Cancel, FinallyManager
<1>2. Top.call = n /\ calls' = Rest
  BY TopIn DEF Return, TierInv
<1>3. PICK F : F = {}
  OBVIOUS
<1>4. Asks(F)
  BY <1>1, <1>2, <1>3 DEF Asks
<1>5. ~In("run") /\ ~In("deactivate") /\ ~In("complete") /\ ~In("settle")
  BY <1>2 DEF In
<1>6. In("finally") => op[Top.op].kind # "tier"
  BY <1>2 DEF In
<1> QED BY <1>1, <1>3, <1>4, <1>5, <1>6, IdleTells

\* A reload that is done, a dialog that is closed, and what is finalised but no tier.
LEMMA ReturnsTell ==
  ASSUME TierInv, TierInv', VersionInv, ReloadDone \/ CloseDialog \/ LoadFinally \/ OtherFinally
  PROVE  VersionInv'
<1> USE DEF viewVars, selectVars, mapVars, stageVars, askVars, AskStays
<1>1. CASE ReloadDone
  <2>1. PICK n : n = "reload"
    OBVIOUS
  <2> QED BY <1>1, <2>1, ReturnTells DEF ReloadDone
<1>2. CASE CloseDialog
  <2>1. PICK n : n = "dialog"
    OBVIOUS
  <2> QED BY <1>2, <2>1, ReturnTells DEF CloseDialog
<1>3. CASE LoadFinally \/ OtherFinally
  <2>1. PICK n : n = "finally"
    OBVIOUS
  <2>2. In(n) /\ op[Top.op].kind # "tier" /\ FinallyManager /\ Return
    BY <1>3, <2>1 DEF LoadFinally, OtherFinally
  <2>3. /\ quality' = quality /\ staged' = staged /\ shown' = shown /\ loaded' = loaded
        /\ AskStays
    BY <1>3 DEF LoadFinally, OtherFinally
  <2> QED BY <2>1, <2>2, <2>3, ReturnTells
<1> QED BY <1>1, <1>2, <1>3

\* on_done of a write or a raster.
LEMMA OtherSettledTells ==
  ASSUME TierInv, TierInv', VersionInv, OtherSettled
  PROVE  VersionInv'
<1>1. /\ In("settle") /\ op[Top.op].kind # "tier" /\ calls' = <<FinallyCall(Top.op)>> \o Tail(calls)
      /\ Cancel({}) /\ cancelled' = cancelled /\ viewVars' = viewVars
  BY DEF OtherSettled, Settles, Become, Cancel
<1>2. Top.call = "settle" /\ Rest = Tail(calls) /\ Top.op \in OpId
  BY <1>1, TopIn, FrameFields DEF TierInv
<1>3. PICK f \in Frame : f = FinallyCall(Top.op) /\ f.call = "finally"
  BY <1>2, FramesMade, CallNames
<1>4. PICK F : F = {f}
  OBVIOUS
<1>5. Asks(F)
  BY <1>1, <1>2, <1>3, <1>4, AsksFor
<1>6. ~In("run") /\ ~In("deactivate") /\ ~In("complete")
  BY <1>2 DEF In
<1>7. MapStays /\ AskStays
  BY <1>1, ViewUnchanged
<1>8. \A g \in F : ~RunsLoad(g) /\ ~RunsTier(g) /\ g.call \notin {"reload", "complete", "cancelAll"}
  BY <1>3, <1>4 DEF RunsLoad, RunsTier
<1> QED BY <1>1, <1>2, <1>5, <1>6, <1>7, <1>8, IdleTells DEF MapStays

\* The first of a list of layers, and the others.
LEMMA Following ==
  ASSUME NEW s \in Seq(Layer), s # <<>>
  PROVE  /\ Head(s) \in Layer /\ Tail(s) \in Seq(Layer) /\ Head(s) = s[1] /\ 1 \in 1..Len(s)
         /\ \A i \in 1..Len(Tail(s)) : i + 1 \in 1..Len(s) /\ Tail(s)[i] = s[i + 1]
<1>1. Len(s) \in Nat /\ Len(s) # 0 /\ Tail(s) \in Seq(Layer) /\ Len(Tail(s)) = Len(s) - 1
  OBVIOUS
<1>2. 1 \in 1..Len(s) /\ Head(s) = s[1] /\ Head(s) \in Layer
  BY <1>1
<1>3. ASSUME NEW i \in 1..Len(Tail(s)) PROVE i + 1 \in 1..Len(s) /\ Tail(s)[i] = s[i + 1]
  BY <1>1
<1> QED BY <1>1, <1>2, <1>3

\* The next layer is reloaded.
LEMMA ReloadNextTells ==
  ASSUME TierInv, TierInv', VersionInv, ReloadNext
  PROVE  VersionInv'
<1>1. PICK a, todo, more : /\ todo = Top.todo /\ a = Head(todo) /\ more = Tail(todo)
  OBVIOUS
<1>2. PICK r, f, g : r = LoadOf(a, a = active) /\ f = RunCall(r) /\ g = ReloadCall(more)
  OBVIOUS
<1>3. /\ In("reload") /\ todo # <<>> /\ Cancel({}) /\ cancelled' = cancelled /\ quality' = quality
      /\ project' = project /\ loaded' = loaded /\ shown' = shown /\ staged' = staged
      /\ params' = params /\ applied' = applied /\ crossed' = crossed
      /\ params \in [Layer -> Nat] /\ applied \in [Layer -> Nat]
      /\ calls' = IF quality = Off THEN <<g>> \o Tail(calls) ELSE <<f>> \o (<<g>> \o Tail(calls))
  BY <1>1, <1>2 DEF ReloadNext, StartLoad, selectVars, mapVars, stageVars, askVars, Cancel,
                    TierInv, TierTypes, VersionInv
<1>4. /\ Top.call = "reload" /\ Rest = Tail(calls) /\ Top \in Frames(calls) /\ todo \in Seq(Layer)
      /\ Rest \in Seq(Frame)
  BY <1>1, <1>3, TopIn, FrameFields, RestFrames DEF TierInv
<1>5. /\ a \in Layer /\ more \in Seq(Layer) /\ a = todo[1] /\ 1 \in 1..Len(todo)
      /\ \A i \in 1..Len(more) : i + 1 \in 1..Len(todo) /\ more[i] = todo[i + 1]
  BY <1>1, <1>3, <1>4, Following
<1>6. a \notin loaded /\ \A b \in loaded : \A i \in 1..Len(more) : more[i] # b
  <2>1. \A b \in loaded : \A i \in 1..Len(todo) : todo[i] # b
    BY <1>1, <1>4 DEF VersionInv, Ordered, TierInv, TierTypes
  <2> QED BY <1>5, <2>1
<1>7. /\ r.kind = "load" /\ r.layer = a /\ r.version = params[a]
      /\ r \in Request /\ f \in Frame /\ f.call = "run" /\ f.request = r
      /\ g \in Frame /\ g.call = "reload" /\ g.todo = more
  BY <1>2, <1>3, <1>5, LoadAsked, RequestsMade, FramesMade, CallNames
<1>8. PICK F : F = IF quality = Off THEN {g} ELSE {f, g}
  OBVIOUS
<1>9. Asks(F)
  <2>1. CASE quality = Off
    BY <1>3, <1>4, <1>7, <1>8, <2>1, AsksFor
  <2>2. CASE quality # Off
    <3>1. PICK c \in Seq(Frame) : c = Rest
      BY <1>4
    <3>2. <<f, g>> \o c = <<f>> \o (<<g>> \o c)
      BY <1>7, JoinedTwo
    <3>3. calls' = <<f, g>> \o Rest
      BY <1>3, <1>4, <2>2, <3>1, <3>2
    <3> QED BY <1>3, <1>7, <1>8, <2>2, <3>3, AsksFor
  <2> QED BY <2>1, <2>2
<1>10. \A n : In(n) => n = "reload"
  BY <1>4 DEF In
<1>11. ASSUME NEW b \in Layer, b # a PROVE Aside(b, F)
  <2>1. params[b] <= params'[b]
    BY <1>3
  <2>2. /\ \A h \in F : RunsLoad(h) \/ RunsTier(h) => h.request.layer # b
        /\ \A h \in F : h.call = "reload" /\ b \in loaded => \A i \in 1..Len(h.todo) : h.todo[i] # b
    BY <1>6, <1>7, <1>8, <1>11 DEF RunsLoad, RunsTier
  <2> QED BY <1>3, <1>10, <2>1, <2>2 DEF Aside
<1>12. Ordered(a) /\ Kept(a) /\ params[a] \in Nat /\ applied[a] <= params[a]
  BY <1>3, <1>5 DEF VersionInv, Kept
<1>13. \A s \in Coming(a)' : s \in Coming(a) \/ s = r
  BY <1>7, <1>8, <1>9, NewComes
<1>14. \A s : IsPreview(s)' <=> IsPreview(s)
  BY <1>3 DEF IsPreview, OfStage, IsStaged
<1>15. \A h \in Frames(calls') : h \in Frames(calls) \/ h = f \/ h = g
  BY <1>8, <1>9, RestFrames DEF Asks
<1>16. Ordered(a)'
  <2>1. \A h \in Frames(calls') : h.call = "complete" => h \in Frames(calls) /\ op'[h.op] = op[h.op]
    BY <1>7, <1>9, <1>15 DEF Asks
  <2>2. \A s \in Coming(a)' : s \in Coming(a) \/
          /\ s.version = params'[a] /\ (s.kind = "load" => a \notin loaded)
          /\ s.kind = "tier" => a \in loaded /\ ~IsPreview(s)'
    BY <1>3, <1>6, <1>7, <1>13
  <2>3. \A h \in Frames(calls') : h.call = "reload" /\ a \in loaded =>
          \A i \in 1..Len(h.todo) : h.todo[i] # a
    BY <1>6
  <2>4. /\ params[a] <= params'[a] /\ shown'[a] = shown[a] /\ (a \in loaded' <=> a \in loaded)
        /\ (a \in crossed => a \in crossed')
    BY <1>3, <1>12
  <2> QED BY <1>3, <1>5, <1>12, <1>14, <2>1, <2>2, <2>3, <2>4, OrderedStays
<1>17. Kept(a)'
  <2>1. ~Unshown(a)'
    BY <1>3, <1>6 DEF Unshown
  <2>2. \A h \in Frames(calls') : (RunsLoad(h) \/ RunsTier(h)) /\ h.request.layer = a =>
          h \in Frames(calls) \/ h.request.version >= applied[a]
    BY <1>3, <1>5, <1>7, <1>12, <1>15 DEF RunsLoad, RunsTier
  <2>3. ~In("run")
    BY <1>10
  <2> QED BY <1>3, <1>5, <1>7, <1>12, <1>13, <1>14, <2>1, <2>2, <2>3, KeptPaid
<1>18. \A b \in Layer : Aside(b, F) \/ (Ordered(b)' /\ Kept(b)')
  BY <1>11, <1>16, <1>17
<1>19. \A h \in F : h.call \notin {"complete", "cancelAll"}
  BY <1>7, <1>8
<1> QED BY <1>3, <1>9, <1>10, <1>18, <1>19, TellsBut

\* Under a handler that settles there are only the calls that close the project.
LEMMA UnderSettle ==
  ASSUME TierInv, In("settle")
  PROVE  /\ calls # <<>> /\ Top.call = "settle" /\ Rest = Tail(calls) /\ Rest \in Seq(Frame)
         /\ Top.op \in Asked /\ op[Top.op] \in Request /\ Top \in Frames(calls)
         /\ Frames(calls) = {Top} \cup Frames(Rest)
         /\ \A y \in Frames(Rest) : y.call \in Outer
         /\ \A n : In(n) => n = "settle"
<1>1. /\ calls # <<>> /\ Top.call = "settle" /\ Rest = Tail(calls) /\ FrameOk(Top)
      /\ Frames(calls) = {Top} \cup Frames(Rest) /\ \A y \in Frames(Rest) : Above(Top, y)
  BY TopIn DEF TierInv
<1>2. Top.op \in Asked /\ op[Top.op] \in Request
  BY <1>1 DEF FrameOk, TierInv, TierTypes
<1>3. \A y \in Frames(Rest) : y.call \in Outer
  BY <1>1 DEF Above
<1> QED BY <1>1, <1>2, <1>3, RestFrames DEF In

\* What settles comes, if it is a build.
LEMMA SettlingComes ==
  ASSUME TierInv, In("settle"), Top.op \notin cancelled, NEW r, r = op[Top.op], r.kind \in Building
  PROVE  r.layer \in Layer /\ r \in Coming(r.layer)
<1>1. r.layer \in Layer
  BY UnderSettle, RequestFields DEF Building
<1>2. Alive(Top.op)
  BY UnderSettle DEF Alive, CallFor
<1> QED BY <1>1, <1>2, UnderSettle DEF Coming

\* No other operation of its key comes.
LEMMA SettlesAlone ==
  ASSUME TierInv, Settled, In("settle"), Top.op \notin cancelled, NEW F, Asks(F),
         \A f \in F : f.call = "complete" => f.op = Top.op,
         NEW a \in Layer, NEW s \in Coming(a)', s.key = op[Top.op].key
  PROVE  \/ s = op[Top.op] /\ \E f \in F : f.call = "complete"
         \/ \E f \in F : f.call = "run" /\ f.request = s
<1>1. PICK o : o = Top.op
  OBVIOUS
<1>2. /\ o \in Asked /\ o \notin cancelled /\ o \notin entries /\ s.key \in Key /\ Asked' = Asked
      /\ o \in OpId /\ Top \in Frames(calls) /\ Top.call = "settle"
  BY <1>1, UnderSettle, RequestFields DEF Settled, Asks, Asked, Coming
<1>3. \A f \in Frames(calls') : f \in F \/ f.call \in Outer
  BY UnderSettle DEF Asks
<1>4. \A l \in Lane : SweepsOf(l) = {}
  BY UnderSettle DEF SweepsOf, Outer
<1>5. ASSUME NEW p \in launched PROVE p \in entries
  BY <1>5 DEF TierInv, Registered
<1>6. ASSUME NEW p, Queued(p) PROVE p \in entries
  <2>1. PICK l \in Lane : InQueue(p, waiting[l])
    BY <1>6 DEF Queued
  <2>2. PICK i \in 1..Len(waiting[l]) : waiting[l][i] = p
    BY <2>1 DEF InQueue
  <2> QED BY <1>4, <2>2 DEF TierInv, Registered
<1>7. CASE \E f \in Frames(calls') : f.call = "run" /\ f.request = s
  BY <1>3, <1>7 DEF Outer
<1>8. ASSUME NEW p \in Asked, op[p] = s, Alive(p)'
      PROVE  s = op[o] /\ \E f \in F : f.call = "complete"
  <2>1. ~CallFor("settle", p)'
    BY <1>3 DEF CallFor, Asks, Outer
  <2>2. CASE p = o
    <3>1. CallFor("complete", p)'
      BY <1>2, <1>5, <1>6, <1>8, <2>1, <2>2 DEF Alive, Asks, Queued
    <3> QED BY <1>3, <1>8, <2>2, <3>1 DEF CallFor, Outer
  <2>3. CASE p # o
    <3>1. ~CallFor("complete", p)'
      BY <1>1, <1>3, <2>3 DEF CallFor, Outer
    <3>2. p \notin cancelled /\ p \in entries
      BY <1>5, <1>6, <1>8, <2>1, <3>1 DEF Alive, Asks, Queued
    <3>3. o \in Settling
      BY <1>1, <1>2 DEF Settling, SettlingIn, Frames
    <3>4. p <= o /\ o <= p
      BY <1>1, <1>2, <1>8, <3>2, <3>3 DEF TierInv, KeyBooks, Newest
    <3>5. p \in Nat /\ o \in Nat
      BY <1>2 DEF Asked, OpId
    <3> QED BY <2>3, <3>4, <3>5
  <2> QED BY <2>2, <2>3
<1> QED BY <1>1, <1>2, <1>7, <1>8 DEF Coming, Asks

\* The calls of an on_done that may write its raster to the disk cache.
LEMMA Writes ==
  ASSUME TierInv, In("settle"), Cancel({}), NEW a \in Layer, NEW q \in Quality,
         NEW more \in Seq(Frame), \A f \in Frames(more) : f.call \notin {"settle", "sweep"},
         MaybeWrite(a, q, more)
  PROVE  \E F : /\ Asks(F) /\ Frames(more) \subseteq F
                /\ \A f \in F : f \in Frames(more) \/ (f.call = "run" /\ f.request.kind = "write")
<1>1. /\ nextId' = nextId /\ op' = op /\ entries' = entries /\ launched' = launched
      /\ waiting' = waiting /\ cancelled \subseteq cancelled' /\ Rest = Tail(calls)
      /\ Rest \in Seq(Frame)
  BY UnderSettle DEF Cancel
<1>2. PICK c \in Seq(Frame) : c = Rest
  BY <1>1
<1>3. Frames(more \o c) = Frames(more) \cup Frames(c) /\ more \o c \in Seq(Frame)
  BY FramesJoin
<1>4. CASE calls' = more \o Tail(calls)
  <2>1. PICK F : F = Frames(more)
    OBVIOUS
  <2> QED BY <1>1, <1>2, <1>3, <1>4, <2>1 DEF Asks
<1>5. CASE calls' = (<<RunCall(WriteOf(a, q))>> \o more) \o Tail(calls)
  <2>1. PICK w : w = WriteOf(a, q)
    OBVIOUS
  <2>2. w \in Request /\ w.kind = "write"
    BY <2>1, RequestsMade DEF WriteOf, TierInv, TierTypes
  <2>3. PICK f \in Frame : f = RunCall(w) /\ f.call = "run" /\ f.request = w
    BY <2>2, FramesMade, CallNames
  <2>4. Frames(<<f>> \o more) = {f} \cup Frames(more) /\ <<f>> \o more \in Seq(Frame)
    BY FramesOf
  <2>5. PICK m \in Seq(Frame) : m = <<f>> \o more
    BY <2>4
  <2>6. Frames(m \o c) = Frames(m) \cup Frames(c)
    BY FramesJoin
  <2>7. PICK F : F = {f} \cup Frames(more)
    OBVIOUS
  <2>8. Frames(calls') = F \cup Frames(Rest)
    BY <1>1, <1>2, <1>5, <2>1, <2>3, <2>4, <2>5, <2>6, <2>7
  <2>9. Asks(F)
    BY <1>1, <2>3, <2>7, <2>8 DEF Asks
  <2> QED BY <2>2, <2>3, <2>7, <2>9
<1> QED BY <1>4, <1>5 DEF MaybeWrite, Become

\* A load shows its raster; no other load of its layer comes, and no tier but the one it
\* asks for, unless the layer is crossed.
LEMMA LoadSettledTells ==
  ASSUME TierInv, TierInv', VersionInv, LoadSettled
  PROVE  VersionInv'
<1>1. PICK o, r, a : o = Top.op /\ r = op[o] /\ a = r.layer
  OBVIOUS
<1>2. /\ In("settle") /\ Top.op \notin cancelled /\ r.kind = "load" /\ Cancel({})
      /\ quality' = quality /\ project' = project /\ staged' = staged /\ params' = params
      /\ applied' = applied /\ crossed' = crossed /\ cancelled' = cancelled
      /\ shown' = [shown EXCEPT ![a] = r.version] /\ loaded' = loaded \cup {a}
      /\ params \in [Layer -> Nat] /\ shown \in [Layer -> Nat] /\ applied \in [Layer -> Nat]
  BY <1>1 DEF LoadSettled, Settles, Discarded, Show, selectVars, stageVars, askVars, Cancel,
              TierInv, TierTypes, VersionInv
<1>3. /\ a \in Layer /\ r \in Coming(a) /\ r \in Request /\ o \in OpId
      /\ r.version \in Nat /\ r.next \in {Off, High} /\ r.key = LoadKey(a)
  BY <1>1, <1>2, SettlingComes, UnderSettle, RequestFields DEF Building, Asked
<1>4. PICK t, c, f : t = TierOf(a, High, "map", 0) /\ f = RunCall(t) /\ c = FinallyCall(o)
  OBVIOUS
<1>5. /\ t \in Request /\ t.kind = "tier" /\ t.layer = a /\ t.quality = High /\ t.version = params[a]
      /\ f \in Frame /\ f.call = "run" /\ f.request = t
      /\ c \in Frame /\ c.call = "finally"
  <2>1. High \in Quality
    BY DEF Quality
  <2> QED BY <1>2, <1>3, <1>4, <2>1, TierAsked, RequestsMade, FramesMade, CallNames
<1>6. PICK more \in Seq(Frame) : MaybeWrite(a, Low, more) /\ Frames(more) \in {{c}, {f, c}}
  <2>1. PICK upgrades \in BOOLEAN : upgrades <=> (r.next # Off /\ project /\ quality = r.next)
    OBVIOUS
  <2>2. PICK more : more = (IF upgrades THEN <<RunCall(TierOf(a, r.next, "map", 0))>> ELSE <<>>)
                             \o <<FinallyCall(o)>>
    OBVIOUS
  <2>3. MaybeWrite(a, Low, more)
    BY <1>1, <2>1, <2>2 DEF LoadSettled
  <2>4. CASE upgrades
    <3>1. more = <<f, c>>
      <4>1. r.next = High
        BY <1>3, <2>1, <2>4
      <4>2. more = <<f>> \o <<c>>
        BY <1>4, <2>2, <2>4, <4>1
      <4> QED BY <4>2, Joined
    <3>2. <<f, c>> \in Seq(Frame) /\ DOMAIN <<f, c>> = {1, 2}
      BY <1>5
    <3>3. Frames(<<f, c>>) = {f, c}
      BY <3>2 DEF Frames
    <3> QED BY <2>3, <3>1, <3>2, <3>3
  <2>5. CASE ~upgrades
    <3>1. <<c>> \in Seq(Frame) /\ DOMAIN <<c>> = {1}
      BY <1>5
    <3>2. more = <<c>>
      BY <1>4, <2>2, <2>5, <3>1, ConcatEmptySeq
    <3>3. Frames(<<c>>) = {c}
      BY <3>1 DEF Frames
    <3> QED BY <2>3, <3>1, <3>2, <3>3
  <2> QED BY <2>4, <2>5
<1>7. PICK F : /\ Asks(F)
               /\ \A g \in F : g \in Frames(more) \/ (g.call = "run" /\ g.request.kind = "write")
  <2>1. Low \in Quality
    BY DEF Quality
  <2> QED BY <1>2, <1>3, <1>5, <1>6, <2>1, Writes
<1>8. \A g \in F : g = c \/ g = f \/ (g.call = "run" /\ g.request.kind = "write")
  BY <1>6, <1>7
<1>9. \A g \in F : g.call \notin {"complete", "cancelAll", "reload"}
  BY <1>5, <1>8
<1>10. /\ \A g \in Frames(calls') : g \in F \/ g.call \in Outer
       /\ \A n : In(n) => n = "settle"
  BY <1>2, <1>7, UnderSettle DEF Asks
<1>11. ASSUME NEW b \in Layer, b # a PROVE Aside(b, F)
  <2>1. params[b] <= params'[b] /\ shown'[b] = shown[b] /\ (b \in loaded' <=> b \in loaded)
    BY <1>2, <1>11
  <2>2. \A g \in F : RunsLoad(g) \/ RunsTier(g) => g.request.layer # b
    BY <1>5, <1>8, <1>11 DEF RunsLoad, RunsTier
  <2>3. op[Top.op].kind # "tier"
    BY <1>1, <1>2
  <2> QED BY <1>2, <1>9, <2>1, <2>2, <2>3 DEF Aside
<1>12. /\ Ordered(a) /\ Kept(a) /\ a \notin loaded /\ r.version >= shown[a] /\ r.version <= params[a]
       /\ params[a] \in Nat /\ applied[a] \in Nat /\ applied[a] <= params[a]
       /\ r.version >= applied[a]
  <2>1. Ordered(a) /\ Kept(a)
    BY <1>3 DEF VersionInv
  <2>2. ~Superseding(r.key)
    BY <1>10 DEF Superseding
  <2> QED BY <1>2, <1>3, <2>1, <2>2 DEF Ordered, Stocked, Kept
<1>13. ASSUME NEW s \in Coming(a)'
       PROVE  s = t \/ (s \in Coming(a) /\ s.kind = "tier" /\ a \in crossed)
  <2>1. s \in Coming(a) \/ s = t
    <3>1. s \in Coming(a) \/ \E g \in F : g.call = "run" /\ g.request = s
      BY <1>7, <1>9, <1>13, NewComes
    <3>2. s.kind \in {"load", "tier"}
      BY <1>3, <1>13, ComingFieldsNext
    <3> QED BY <1>5, <1>8, <3>1, <3>2
  <2>2. s.kind # "load"
    <3>1. ASSUME s.kind = "load" PROVE FALSE
      <4>1. s.key = op[Top.op].key
        BY <1>1, <1>3, <1>13, <3>1, ComingFieldsNext
      <4>2. Settled /\ (\A g \in F : g.call = "complete" => g.op = Top.op) /\ Asks(F)
        BY <1>7, <1>9 DEF VersionInv
      <4>3. \/ s = op[Top.op] /\ \E g \in F : g.call = "complete"
            \/ \E g \in F : g.call = "run" /\ g.request = s
        BY <1>2, <1>3, <1>13, <4>1, <4>2, SettlesAlone
      <4> QED BY <1>5, <1>8, <1>9, <3>1, <4>3
    <3> QED BY <3>1
  <2>3. s.kind \in {"load", "tier"}
    BY <1>3, <1>13, ComingFieldsNext
  <2>4. ASSUME s \in Coming(a), s.kind = "tier" PROVE a \in crossed
    BY <1>12, <2>4 DEF Ordered, TiersNew
  <2> QED BY <2>1, <2>2, <2>3, <2>4
<1>14. \A s : IsPreview(s)' <=> IsPreview(s)
  BY <1>2 DEF IsPreview, OfStage, IsStaged
<1>15. shown'[a] = r.version /\ a \in loaded'
  BY <1>2, <1>3
<1>16. Ordered(a)'
  <2>1. Stocked(a)'
    <3>1. ASSUME NEW s \in Coming(a)' PROVE s.version <= params'[a] /\ s.kind # "load"
      <4>1. s = t \/ (s \in Coming(a) /\ s.kind = "tier")
        BY <1>13, <3>1
      <4> QED BY <1>2, <1>5, <1>12, <4>1 DEF Ordered, Stocked
    <3> QED BY <1>2, <1>12, <1>15, <3>1 DEF Stocked
  <2>2. ASSUME a \notin crossed' PROVE TiersNew(a)'
    <3>1. \A s \in Coming(a)' : s = t
      BY <1>2, <1>13, <2>2
    <3>2. ~IsPreview(t)'
      BY <1>5 DEF IsPreview, Low, High
    <3> QED BY <1>5, <1>12, <1>15, <3>1, <3>2 DEF TiersNew
  <2>3. \A g \in Frames(calls') : g.call \notin {"complete", "reload"}
    BY <1>9, <1>10 DEF Outer
  <2> QED BY <2>1, <2>2, <2>3 DEF Ordered
<1>17. Kept(a)'
  <2>1. ~Unshown(a)'
    BY <1>2, <1>3, <1>12, <1>15 DEF Unshown
  <2>2. \A s \in Coming(a)' : s \in Coming(a) \/ s.version >= applied[a]
    BY <1>5, <1>12, <1>13
  <2>3. \A g \in Frames(calls') : (RunsLoad(g) \/ RunsTier(g)) /\ g.request.layer = a =>
          g \in Frames(calls) \/ g.request.version >= applied[a]
    <3>1. \A g \in Frames(calls') : RunsLoad(g) \/ RunsTier(g) => g = f
      BY <1>5, <1>8, <1>10 DEF RunsLoad, RunsTier, Outer
    <3> QED BY <1>5, <1>12, <3>1
  <2>4. ~In("run")
    BY <1>10
  <2>5. applied'[a] = applied[a] /\ applied[a] <= params'[a] /\ (project => project')
    BY <1>2, <1>12
  <2> QED BY <1>2, <1>3, <1>12, <1>14, <2>1, <2>2, <2>3, <2>4, <2>5, KeptPaid
<1>18. \A b \in Layer : Aside(b, F) \/ (Ordered(b)' /\ Kept(b)')
  BY <1>11, <1>16, <1>17
<1> QED BY <1>2, <1>7, <1>9, <1>10, <1>18, TellsBut

\* The calls that close the project stay below a handler that settles.
LEMMA SettleWinds ==
  ASSUME TierInv, VersionInv, In("settle"), NEW F, Asks(F), \A f \in F : f.call # "cancelAll"
  PROVE  (Winding' => Closing') /\ Settled'
<1>1. \A f \in Frames(calls') : f \in F \/ f \in Frames(Rest)
  BY DEF Asks
<1>2. Winding' => Winding
  BY <1>1, RestFrames DEF Winding, Asks
<1>3. Closing => Closing'
  BY UnderSettle DEF Closing, Asks
<1> QED BY <1>2, <1>3, SettledStays DEF VersionInv

\* A tier completes before its on_finally is called; nothing older of its key comes.
LEMMA TierSettledTells ==
  ASSUME TierInv, TierInv', VersionInv, TierSettled
  PROVE  VersionInv'
<1>1. PICK o, r, a, q : o = Top.op /\ r = op[o] /\ a = r.layer /\ q = r.quality
  OBVIOUS
<1>2. /\ In("settle") /\ Top.op \notin cancelled /\ r.kind = "tier" /\ Cancel({}) /\ MapStays /\ AskStays
      /\ cancelled' = cancelled /\ MaybeWrite(a, q, <<CompleteCall(o), FinallyCall(o)>>)
  BY <1>1, ViewUnchanged DEF TierSettled, Settles, Discarded, Cancel
<1>3. /\ a \in Layer /\ r \in Coming(a) /\ r \in Request /\ q \in Quality /\ o \in OpId
      /\ r.version \in Nat
  BY <1>1, <1>2, SettlingComes, UnderSettle, RequestFields DEF Building, Asked
<1>4. PICK x, c \in Frame : /\ x = CompleteCall(o) /\ x.call = "complete" /\ x.op = o
                            /\ c = FinallyCall(o) /\ c.call = "finally"
  BY <1>3, FramesMade, CallNames
<1>5. PICK F : /\ Asks(F) /\ x \in F
               /\ \A g \in F : g = x \/ g = c \/ (g.call = "run" /\ g.request.kind = "write")
  <2>1. <<x, c>> \in Seq(Frame) /\ DOMAIN <<x, c>> = {1, 2}
    OBVIOUS
  <2>2. PICK more \in Seq(Frame) : more = <<x, c>>
    BY <2>1
  <2>3. Frames(more) = {x, c}
    BY <2>1, <2>2 DEF Frames
  <2>4. MaybeWrite(a, q, more) /\ \A g \in Frames(more) : g.call \notin {"settle", "sweep"}
    BY <1>2, <1>4, <2>2, <2>3
  <2>5. PICK F : /\ Asks(F) /\ Frames(more) \subseteq F
                 /\ \A g \in F : g \in Frames(more) \/ (g.call = "run" /\ g.request.kind = "write")
    BY <1>2, <1>3, <2>4, Writes
  <2> QED BY <2>3, <2>5
<1>6. /\ \A g \in Frames(calls') : g \in F \/ g.call \in Outer
      /\ \A g \in Frames(calls) : g.call = "settle" \/ g.call \in Outer
      /\ \A n : In(n) => n = "settle"
  BY <1>2, <1>5, UnderSettle DEF Asks
<1>7. /\ \A g \in F : g.call = "complete" => g.op = Top.op
      /\ \A g \in F : g.call \notin {"reload", "cancelAll"} /\ ~RunsLoad(g) /\ ~RunsTier(g)
      /\ op' = op
  BY <1>1, <1>4, <1>5 DEF RunsLoad, RunsTier, Asks
<1>8. ASSUME NEW b \in Layer PROVE Ordered(b)' /\ Kept(b)'
  <2>1. Ordered(b) /\ Kept(b)
    BY DEF VersionInv
  <2>2. ASSUME NEW s \in Coming(b)', NEW g \in F, g.call = "run" PROVE g.request # s
    <3>1. s.kind \in {"load", "tier"}
      BY <2>2, ComingFieldsNext
    <3> QED BY <1>7, <2>2, <3>1 DEF RunsLoad, RunsTier
  <2>3. ASSUME NEW s \in Coming(b)' PROVE s \in Coming(b)
    <3>1. s \in Coming(b) \/ \E g \in F : g.call = "run" /\ g.request = s
      BY <1>2, <1>5, <1>7, <2>3, NewComes
    <3> QED BY <2>2, <3>1
  <2>4. ASSUME NEW s \in Coming(b) PROVE s \in Coming(b)'
    <3>1. CompleteCall(Top.op) \in F
      BY <1>1, <1>4, <1>5
    <3> QED BY <1>2, <1>5, <1>6, <2>4, <3>1, TiersStay
  <2>5. ASSUME NEW s \in Coming(b)', s.key = r.key PROVE s.version >= r.version
    <3>1. Settled /\ Asks(F) /\ s.key = op[Top.op].key
      BY <1>1, <1>5, <2>5 DEF VersionInv
    <3>2. \/ s = op[Top.op] /\ \E g \in F : g.call = "complete"
          \/ \E g \in F : g.call = "run" /\ g.request = s
      BY <1>2, <1>7, <2>5, <3>1, SettlesAlone
    <3>3. s = r
      BY <1>1, <2>2, <3>2
    <3> QED BY <1>3, <3>3
  <2>6. params[b] \in Nat /\ \A s : IsPreview(s)' <=> IsPreview(s)
    BY <1>2 DEF MapStays, IsPreview, OfStage, IsStaged, TierInv, TierTypes
  <2>7. Ordered(b)'
    <3>1. ASSUME NEW g \in Frames(calls'), g.call = "complete"
          PROVE  \A s \in Coming(b)' : s.key = op'[g.op].key => s.version >= op'[g.op].version
      <4>1. g.op = o
        BY <1>1, <1>6, <1>7, <3>1 DEF Outer
      <4> QED BY <1>1, <1>7, <2>5, <4>1
    <3>2. \A g \in Frames(calls') : g.call # "reload"
      BY <1>6, <1>7 DEF Outer
    <3> QED BY <1>2, <2>1, <2>3, <2>6, <3>1, <3>2, OrderedStays DEF MapStays, AskStays
  <2>8. Kept(b)'
    <3>1. \A g \in Frames(calls') : ~RunsLoad(g) /\ ~RunsTier(g)
      BY <1>6, <1>7 DEF Outer, RunsLoad, RunsTier
    <3>2. \A g \in Frames(calls) : g.call # "finally"
      BY <1>6 DEF Outer
    <3>3. ~In("run") /\ applied[b] <= params[b]
      BY <1>6, <2>1 DEF Kept
    <3>4. Closing => Closing'
      BY <1>2, <1>5, UnderSettle DEF Closing, Asks
    <3> QED BY <1>2, <2>1, <2>3, <2>4, <3>1, <3>2, <3>3, <3>4, KeptStays DEF MapStays, AskStays
  <2> QED BY <2>7, <2>8
<1>9. (Winding' => Closing') /\ Settled'
  BY <1>2, <1>5, <1>7, SettleWinds
<1>10. applied' \in [Layer -> Nat]
  BY <1>2 DEF AskStays, VersionInv
<1> QED BY <1>8, <1>9, <1>10 DEF VersionInv

\* A failed build completes nothing; its refresh goes on when its on_finally is called.
LEMMA BuildFailsTells ==
  ASSUME TierInv, TierInv', VersionInv, BuildFails
  PROVE  VersionInv'
<1>1. PICK o, r, a : o = Top.op /\ r = op[o] /\ a = r.layer
  OBVIOUS
<1>2. /\ In("settle") /\ Top.op \notin cancelled /\ r.kind \in {"load", "tier"} /\ Cancel({})
      /\ MapStays /\ project' = project /\ crossed' = crossed /\ cancelled' = cancelled
      /\ calls' = <<FinallyCall(o)>> \o Tail(calls)
      /\ applied' = IF r.kind = "tier" /\ IsPreview(r) THEN applied ELSE [applied EXCEPT ![a] = 0]
      /\ params' = params /\ applied \in [Layer -> Nat]
  BY <1>1 DEF BuildFails, Settles, Discarded, Cancel, MapStays, selectVars, mapVars, stageVars,
              busyVars, Become, VersionInv
<1>3. /\ a \in Layer /\ r \in Request /\ o \in OpId /\ Rest = Tail(calls)
  BY <1>1, <1>2, SettlingComes, UnderSettle DEF Building, Asked
<1>4. PICK c \in Frame : c = FinallyCall(o) /\ c.call = "finally" /\ c.op = o
  BY <1>3, FramesMade, CallNames
<1>5. PICK F : F = {c}
  OBVIOUS
<1>6. Asks(F)
  BY <1>2, <1>3, <1>4, <1>5, AsksFor
<1>7. /\ \A g \in Frames(calls') : g = c \/ g.call \in Outer
      /\ \A n : In(n) => n = "settle"
      /\ c \in Frames(calls') /\ op' = op
  BY <1>2, <1>5, <1>6, UnderSettle DEF Asks
<1>8. ASSUME NEW b \in Layer, b # a PROVE Aside(b, F)
  <2>1. applied'[b] = applied[b] /\ params[b] \in Nat
    BY <1>2, <1>8 DEF TierInv, TierTypes
  <2>2. op[Top.op].layer # b
    BY <1>1, <1>8
  <2> QED BY <1>2, <1>4, <1>5, <2>1, <2>2 DEF Aside, MapStays, RunsLoad, RunsTier
<1>9. Ordered(a) /\ Kept(a) /\ params[a] \in Nat
  BY <1>3 DEF VersionInv, TierInv, TierTypes
<1>10. ASSUME NEW s \in Coming(a)' PROVE s \in Coming(a)
  BY <1>4, <1>5, <1>6, <1>10, NewComes
<1>11. \A s : (IsPreview(s)' <=> IsPreview(s)) /\ (MayShow(s)' <=> MayShow(s))
  BY <1>2 DEF MapStays, IsPreview, OfStage, IsStaged, MayShow
<1>12. Ordered(a)'
  <2>1. \A g \in Frames(calls') : g.call \notin {"complete", "reload"}
    BY <1>4, <1>7 DEF Outer
  <2> QED BY <1>2, <1>3, <1>9, <1>10, <1>11, <2>1, OrderedStays DEF MapStays
<1>13. Kept(a)'
  <2>1. CASE ~(r.kind = "tier" /\ IsPreview(r))
    <3>1. applied'[a] = 0
      BY <1>2, <1>3, <2>1
    <3> QED BY <1>3, <3>1, KeptNone
  <2>2. CASE r.kind = "tier" /\ IsPreview(r)
    <3>1. applied' = applied
      BY <1>2, <2>2
    <3>2. ASSUME NEW s \in Coming(a)', s.kind = "load" \/ MayShow(s)' PROVE s.version >= applied[a]
      <4>1. ~Superseding(s.key)
        BY <1>7 DEF Superseding
      <4> QED BY <1>9, <1>10, <1>11, <3>2, <4>1 DEF Kept
    <3>3. \A g \in Frames(calls') : ~RunsLoad(g) /\ ~RunsTier(g)
      BY <1>4, <1>7 DEF Outer, RunsLoad, RunsTier
    <3>4. AsPreview(c.op)' /\ op'[c.op].layer = a
      BY <1>1, <1>4, <1>7, <1>11, <2>2 DEF AsPreview
    <3> QED BY <1>2, <1>4, <1>7, <1>9, <3>1, <3>2, <3>3, <3>4 DEF Kept
  <2> QED BY <2>1, <2>2
<1>14. \A b \in Layer : Aside(b, F) \/ (Ordered(b)' /\ Kept(b)')
  BY <1>8, <1>12, <1>13
<1>15. applied' \in [Layer -> Nat] /\ quality' = quality
  BY <1>2 DEF MapStays
<1> QED BY <1>2, <1>4, <1>5, <1>6, <1>7, <1>14, <1>15, TellsBut

\* A tier that completes comes, and no request is under way.
LEMMA UnderComplete ==
  ASSUME TierInv, VersionInv, In("complete"), Cancel({}), NEW r, NEW a, r = op[Top.op], a = r.layer
  PROVE  /\ a \in Layer /\ r \in Request /\ r \in Coming(a) /\ r.kind = "tier"
         /\ r.version \in Nat /\ r.quality \in Quality /\ r.key = TierKey(a, r.quality)
         /\ Ordered(a) /\ Kept(a) /\ params[a] \in Nat /\ applied[a] \in Nat /\ applied[a] <= params[a]
         /\ Top \in Frames(calls) /\ Top.call = "complete" /\ Rest = Tail(calls)
         /\ cancelled' = cancelled /\ Top.op \in Asked
         /\ \A y \in Frames(Rest) : y.call # "run"
         /\ \A n : In(n) => n = "complete"
<1>1. /\ calls # <<>> /\ Top.call = "complete" /\ Rest = Tail(calls)
      /\ Frames(calls) = {Top} \cup Frames(Rest) /\ \A y \in Frames(Rest) : Above(Top, y)
  BY TopIn DEF TierInv
<1>2. r \in Request /\ a \in Layer /\ r \in Coming(a) /\ Top.op \in Asked
  BY <1>1, Completes
<1>3. /\ r.kind = "tier" /\ r.version \in Nat /\ r.quality \in Quality
      /\ r.key = TierKey(a, r.quality)
  BY <1>1, <1>2, Completes, ComingFields
<1>4. \A y \in Frames(Rest) : y.call # "run"
  BY <1>1 DEF Above
<1>5. Ordered(a) /\ Kept(a) /\ params[a] \in Nat /\ applied[a] \in Nat
  BY <1>2 DEF VersionInv, TierInv, TierTypes
<1>6. applied[a] <= params[a]
  BY <1>5 DEF Kept
<1> QED BY <1>1, <1>2, <1>3, <1>4, <1>5, <1>6 DEF In, Cancel

\* Only its layer is touched.
LEMMA CompleteTells ==
  ASSUME TierInv, TierInv', VersionInv, In("complete"), Cancel({}), NEW r, NEW a, r = op[Top.op],
         a = r.layer, quality' = quality, AskStays, loaded' = loaded,
         \A b \in Layer : b # a => staged'[b] = staged[b] /\ shown'[b] = shown[b],
         NEW F, Asks(F), \A f \in F : f.call = "run" /\ f.request.layer = a,
         Ordered(a)', Kept(a)'
  PROVE  VersionInv'
<1>1. cancelled' = cancelled /\ \A n : In(n) => n = "complete"
  BY UnderComplete
<1>2. ASSUME NEW b \in Layer, b # a PROVE Aside(b, F)
  <2>1. params[b] \in Nat /\ params[b] <= params'[b]
    BY DEF AskStays, TierInv, TierTypes
  <2> QED BY <1>1, <1>2, <2>1 DEF Aside, AskStays, RunsLoad, RunsTier
<1>3. \A b \in Layer : Aside(b, F) \/ (Ordered(b)' /\ Kept(b)')
  BY <1>2
<1>4. applied' \in [Layer -> Nat] /\ project' = project
  BY DEF AskStays, VersionInv
<1> QED BY <1>1, <1>3, <1>4, TellsBut

\* It is shown, and no refresh is under way any more.
LEMMA ShowsTells ==
  ASSUME TierInv, TierInv', VersionInv, In("complete"), Cancel({}), NEW r, NEW a, r = op[Top.op],
         a = r.layer, quality' = quality, AskStays, loaded' = loaded, calls' = Rest,
         a \in loaded, r.quality = quality, shown' = [shown EXCEPT ![a] = r.version],
         staged'[a] = NotStaged, \A b \in Layer : b # a => staged'[b] = staged[b]
  PROVE  VersionInv'
<1>1. /\ a \in Layer /\ r \in Request /\ r \in Coming(a) /\ r.kind = "tier"
      /\ r.version \in Nat /\ r.key = TierKey(a, quality)
      /\ Ordered(a) /\ Kept(a) /\ params[a] \in Nat /\ applied[a] \in Nat /\ applied[a] <= params[a]
      /\ Top \in Frames(calls) /\ Top.call = "complete"
      /\ \A y \in Frames(Rest) : y.call # "run"
      /\ \A n : In(n) => n = "complete"
  BY UnderComplete
<1>2. PICK F : F = {}
  OBVIOUS
<1>3. Asks(F) /\ op' = op
  BY <1>2, AsksFor DEF Asks
<1>4. shown'[a] = r.version /\ \A b \in Layer : b # a => shown'[b] = shown[b]
  BY <1>1 DEF TierInv, TierTypes
<1>5. ASSUME NEW s \in Coming(a)' PROVE s \in Coming(a)
  BY <1>2, <1>3, <1>5, NewComes
<1>6. ASSUME NEW s \in Coming(a), s.kind = "tier", s.quality = quality PROVE s.version >= r.version
  <2>1. s.key = op[Top.op].key
    BY <1>1, <1>6, ComingFields
  <2> QED BY <1>1, <2>1 DEF Ordered
<1>7. \A s : s.layer = a => ~IsPreview(s)'
  BY DEF IsPreview, OfStage, IsStaged
<1>8. /\ \A g \in Frames(calls') : g.call \in {"complete", "reload"} => g \in Frames(calls)
      /\ \A g \in Frames(calls') : g.call # "run"
  BY <1>1, RestFrames
<1>9. Ordered(a)'
  BY <1>1, <1>3, <1>4, <1>5, <1>6, <1>7, <1>8, OrderedShown DEF AskStays
<1>10. Kept(a)'
  <2>1. r.version >= applied[a]
    <3>1. MayShow(r) /\ ~Superseding(r.key)
      BY <1>1 DEF MayShow, Superseding
    <3> QED BY <1>1, <3>1 DEF Kept
  <2>2. ~Unshown(a)'
    BY <1>1, <1>4, <2>1 DEF Unshown, AskStays
  <2>3. \A g \in Frames(calls') : ~RunsLoad(g) /\ ~RunsTier(g)
    BY <1>8 DEF RunsLoad, RunsTier
  <2>4. ~In("run") /\ applied'[a] = applied[a] /\ applied[a] <= params'[a] /\ (project => project')
    BY <1>1 DEF AskStays
  <2> QED BY <1>1, <1>5, <1>7, <2>2, <2>3, <2>4, KeptPaid
<1>11. \A f \in F : f.call = "run" /\ f.request.layer = a
  BY <1>2
<1> QED BY <1>3, <1>4, <1>9, <1>10, <1>11, CompleteTells

\* It is not: its layer is gone, or its refresh waits for another tier, or the quality is not
\* the map's any more.
LEMMA PassesTells ==
  ASSUME TierInv, TierInv', VersionInv, In("complete"), Cancel({}), NEW r, NEW a, r = op[Top.op],
         a = r.layer, quality' = quality, AskStays, loaded' = loaded, calls' = Rest,
         shown' = shown, \/ a \notin loaded /\ Unstage(a)
                         \/ staged' = staged /\ (a \in loaded => ~WillShow(r))
  PROVE  VersionInv'
<1>1. /\ a \in Layer /\ r \in Coming(a) /\ r.kind = "tier"
      /\ Ordered(a) /\ Kept(a) /\ params[a] \in Nat /\ applied[a] \in Nat /\ applied[a] <= params[a]
      /\ Top \in Frames(calls) /\ Top.call = "complete" /\ cancelled' = cancelled
      /\ \A y \in Frames(Rest) : y.call # "run"
      /\ \A n : In(n) => n = "complete"
  BY UnderComplete
<1>2. PICK F : F = {}
  OBVIOUS
<1>3. Asks(F) /\ op' = op
  BY <1>2, AsksFor DEF Asks
<1>4. ASSUME NEW s \in Coming(a)' PROVE s \in Coming(a)
  BY <1>2, <1>3, <1>4, NewComes
<1>5. /\ \A b \in Layer : b # a => staged'[b] = staged[b]
      /\ \A s : s.layer = a /\ IsPreview(s)' => IsPreview(s)
  <2>1. CASE Unstage(a)
    <3>1. staged'[a] = NotStaged /\ \A b \in Layer : b # a => staged'[b] = staged[b]
      BY <1>1, <2>1 DEF Unstage, TierInv, TierTypes
    <3> QED BY <3>1 DEF IsPreview, OfStage, IsStaged
  <2>2. CASE staged' = staged
    BY <2>2 DEF IsPreview, OfStage, IsStaged
  <2> QED BY <2>1, <2>2
<1>6. /\ \A g \in Frames(calls') : g \in Frames(calls) /\ g.call # "run"
      /\ \A g \in Frames(calls) : g \in Frames(calls') \/ g = Top
  BY <1>1, RestFrames
<1>7. Ordered(a)'
  <2>1. params[a] <= params'[a] /\ shown'[a] = shown[a] /\ (a \in loaded' <=> a \in loaded)
        /\ (a \in crossed => a \in crossed')
    BY <1>1 DEF AskStays
  <2>2. \A g \in Frames(calls') : g.call = "complete" => g \in Frames(calls) /\ op'[g.op] = op[g.op]
    BY <1>3, <1>6
  <2>3. \A g \in Frames(calls') : g.call = "reload" /\ a \in loaded =>
          \A i \in 1..Len(g.todo) : g.todo[i] # a
    BY <1>1, <1>6 DEF Ordered
  <2> QED BY <1>1, <1>4, <1>5, <2>1, <2>2, <2>3, OrderedStays
<1>8. /\ ~In("run") /\ applied'[a] = applied[a] /\ applied[a] <= params'[a] /\ (project => project')
      /\ \A g \in Frames(calls') : ~RunsLoad(g) /\ ~RunsTier(g)
  BY <1>1, <1>6 DEF AskStays, RunsLoad, RunsTier
<1>9. CASE a \notin loaded
  <2>1. ~Unshown(a)'
    BY <1>9 DEF Unshown
  <2>2. Kept(a)'
    BY <1>1, <1>4, <1>5, <1>8, <2>1, KeptPaid
  <2>3. \A f \in F : f.call = "run" /\ f.request.layer = a
    BY <1>2
  <2> QED BY <1>3, <1>5, <1>7, <2>2, <2>3, CompleteTells
<1>10. CASE a \in loaded
  <2>1. staged' = staged /\ ~WillShow(r)
    BY <1>10
  <2>2. ASSUME NEW s \in Coming(a), s.kind = "tier", WillShow(s) PROVE s \in Coming(a)'
    <3>1. op[Top.op] # s
      BY <2>1, <2>2
    <3> QED BY <1>1, <1>3, <2>2, <3>1, TiersStay
  <2>3. Closing => Closing'
    BY <1>1, <1>6 DEF Closing
  <2>4. \A g \in Frames(calls) : g.call = "finally" /\ AsPreview(g.op) =>
          (g \in Frames(calls') /\ op'[g.op] = op[g.op]) \/ op[g.op].layer # a
    BY <1>1, <1>3, <1>6
  <2>5. Kept(a)'
    <3>1. staged'[a] = staged[a] /\ shown'[a] = shown[a] /\ (a \in loaded' => a \in loaded)
      BY <2>1
    <3> QED BY <1>1, <1>4, <1>8, <2>2, <2>3, <2>4, <3>1, KeptStays
  <2>6. \A f \in F : f.call = "run" /\ f.request.layer = a
    BY <1>2
  <2> QED BY <1>3, <1>5, <1>7, <2>5, <2>6, CompleteTells
<1> QED BY <1>9, <1>10

\* A refresh goes on from its preview to its target, asked for with the newest parameters.
LEMMA TargetAsked ==
  ASSUME TierInv, TierInv', NEW o \in Asked, NEW r, r = op[o], r.kind = "tier", IsPreview(r),
         NEW a, a = r.layer, Promote(a), params' = params, quality' = quality
  PROVE  \E t, f : /\ t = TargetOf(r) /\ f = RunCall(t) /\ t \in Request /\ f \in Frame
                   /\ f.call = "run" /\ f.request = t /\ t.kind = "tier" /\ t.layer = a
                   /\ t.version = params[a] /\ WillShow(t)'
                   /\ a \in Layer /\ quality = High /\ \A s : s.layer = a => ~IsPreview(s)'
                   /\ \A b \in Layer : b # a => staged'[b] = staged[b]
<1>1. /\ r \in Request /\ a \in Layer /\ r.generation \in Nat
  BY RequestFields DEF TierInv, TierTypes
<1>2. /\ staged[a] # NotStaged /\ staged[a].generation = r.generation /\ staged[a].awaiting
      /\ staged[a].target = High /\ quality = High /\ staged[a] \in Stage
  BY <1>1 DEF IsPreview, OfStage, IsStaged, TierInv, TierTypes, Generations
<1>3. PICK t, f, g : t = TierOf(a, High, "apply", g) /\ f = RunCall(t) /\ g = r.generation
  OBVIOUS
<1>4. t = TargetOf(r) /\ High \in Quality
  BY <1>2, <1>3 DEF TargetOf, Quality
<1>5. /\ t \in Request /\ t.kind = "tier" /\ t.layer = a /\ t.quality = High
      /\ t.version = params[a] /\ t.generation = g
      /\ f \in Frame /\ f.call = "run" /\ f.request = t
  <2>1. t.kind = "tier" /\ t.layer = a /\ t.quality = High /\ t.version = params[a] /\ t.generation = g
    BY <1>3 DEF TierOf
  <2>2. params \in [Layer -> Nat]
    BY DEF TierInv, TierTypes
  <2>3. t \in Request
    BY <1>1, <1>3, <1>4, <2>2, RequestsMade
  <2> QED BY <1>3, <2>1, <2>3, FramesMade, CallNames
<1>6. /\ staged'[a] = [staged[a] EXCEPT !.awaiting = FALSE]
      /\ \A b \in Layer : b # a => staged'[b] = staged[b]
  BY <1>1 DEF Promote, TierInv, TierTypes
<1>7. /\ staged'[a].awaiting = FALSE /\ staged'[a].target = High
      /\ staged'[a].generation = r.generation
  BY <1>2, <1>6 DEF Stage
<1>8. staged'[a] # NotStaged
  BY <1>7 DEF NotStaged, Off, High
<1>9. WillShow(t)'
  BY <1>3, <1>5, <1>7, <1>8 DEF WillShow, IsTarget, OfStage, IsStaged
<1>10. \A s : s.layer = a => ~IsPreview(s)'
  BY <1>7 DEF IsPreview
<1> QED BY <1>1, <1>2, <1>3, <1>4, <1>5, <1>6, <1>9, <1>10

\* A preview of a loaded layer is shown.
LEMMA PreviewShownTells ==
  ASSUME TierInv, TierInv', VersionInv, PreviewComplete, op[Top.op].layer \in loaded
  PROVE  VersionInv'
<1>1. PICK o, r, a : o = Top.op /\ r = op[o] /\ a = r.layer
  OBVIOUS
<1>2. /\ In("complete") /\ IsPreview(r) /\ a \in loaded /\ Promote(a) /\ Cancel({})
      /\ shown' = [shown EXCEPT ![a] = r.version] /\ calls' = <<RunCall(TargetOf(r))>> \o Tail(calls)
      /\ quality' = quality /\ loaded' = loaded /\ AskStays
  BY <1>1 DEF PreviewComplete, Show, Become, selectVars, askVars, AskStays
<1>3. /\ a \in Layer /\ r \in Request /\ r \in Coming(a) /\ r.kind = "tier"
      /\ r.version \in Nat /\ r.quality \in Quality /\ o \in Asked
      /\ Ordered(a) /\ Kept(a) /\ params[a] \in Nat /\ applied[a] \in Nat /\ applied[a] <= params[a]
      /\ Top.call = "complete" /\ Rest = Tail(calls)
      /\ \A y \in Frames(Rest) : y.call # "run"
      /\ \A n : In(n) => n = "complete"
  BY <1>1, <1>2, UnderComplete
<1>4. PICK t, f : /\ t = TargetOf(r) /\ f = RunCall(t) /\ t \in Request /\ f \in Frame
                  /\ f.call = "run" /\ f.request = t /\ t.kind = "tier" /\ t.layer = a
                  /\ t.version = params[a] /\ WillShow(t)'
                  /\ a \in Layer /\ quality = High /\ (\A s : s.layer = a => ~IsPreview(s)')
                  /\ \A b \in Layer : b # a => staged'[b] = staged[b]
  <2>1. params' = params
    BY <1>2 DEF AskStays
  <2> QED BY <1>1, <1>2, <1>3, <2>1, TargetAsked
<1>5. PICK F : F = {f}
  OBVIOUS
<1>6. Asks(F) /\ op' = op /\ Frames(calls') = {f} \cup Frames(Rest)
  <2>1. calls' = <<f>> \o Rest
    BY <1>2, <1>3, <1>4
  <2>2. Asks(F)
    BY <1>2, <1>4, <1>5, <2>1, AsksFor
  <2> QED BY <1>5, <2>2 DEF Asks
<1>7. shown'[a] = r.version /\ \A b \in Layer : b # a => shown'[b] = shown[b]
  BY <1>2, <1>3 DEF TierInv, TierTypes
<1>8. \A s \in Coming(a)' : s \in Coming(a) \/ s = t
  <2>1. ASSUME NEW s \in Coming(a)' PROVE s \in Coming(a) \/ s = t
    BY <1>4, <1>5, <1>6, <2>1, NewComes
  <2> QED BY <2>1
<1>9. Ordered(a)'
  <2>1. ASSUME a \notin crossed, NEW s \in Coming(a), s.kind = "tier", s.quality = quality
        PROVE  s.version >= r.version
    <3>1. TiersNew(a) /\ MayShow(s)
      BY <1>3, <2>1 DEF Ordered, MayShow
    <3> QED BY <1>2, <1>3, <2>1, <3>1 DEF TiersNew
  <2>2. \A s \in Coming(a)' : s \in Coming(a) \/ (s.version = params[a] /\ s.kind = "tier")
    BY <1>4, <1>8
  <2>3. \A g \in Frames(calls') : g.call \in {"complete", "reload"} => g \in Frames(calls)
    BY <1>4, <1>6, RestFrames
  <2>4. params' = params /\ crossed' = crossed
    BY <1>2 DEF AskStays
  <2> QED BY <1>2, <1>3, <1>4, <1>6, <1>7, <2>1, <2>2, <2>3, <2>4, OrderedShown
<1>10. Kept(a)'
  <2>1. applied'[a] = applied[a] /\ applied[a] <= params'[a] /\ (applied[a] # 0 => project')
    BY <1>2, <1>3 DEF AskStays, Kept
  <2>2. ASSUME NEW s \in Coming(a)', s.kind = "load" \/ MayShow(s)' PROVE s.version >= applied[a]
    <3>1. CASE s = t
      BY <1>3, <1>4, <3>1
    <3>2. CASE s \in Coming(a)
      <4>1. s.kind = "load" \/ MayShow(s)
        <5>1. s.layer = a
          BY <1>3, <3>2, ComingFields
        <5> QED BY <1>2, <1>4, <2>2, <5>1 DEF MayShow
      <4>2. ~Superseding(s.key)
        BY <1>3 DEF Superseding
      <4> QED BY <1>3, <3>2, <4>1, <4>2 DEF Kept
    <3> QED BY <1>8, <3>1, <3>2
  <2>3. \A g \in Frames(calls') : RunsLoad(g) \/ RunsTier(g) => g = f
    BY <1>3, <1>6 DEF RunsLoad, RunsTier
  <2>4. t \in Coming(a)'
    BY <1>4, <1>6 DEF Coming, Building
  <2> QED BY <1>3, <1>4, <2>1, <2>2, <2>3, <2>4 DEF Kept
<1>11. \A g \in F : g.call = "run" /\ g.request.layer = a
  BY <1>4, <1>5
<1>12. \A b \in Layer : b # a => staged'[b] = staged[b] /\ shown'[b] = shown[b]
  BY <1>4, <1>7
<1> QED BY <1>1, <1>2, <1>6, <1>9, <1>10, <1>11, <1>12, CompleteTells

\* Every tier that completes.
LEMMA CompletesTell ==
  ASSUME TierInv, TierInv', VersionInv, PreviewComplete \/ TargetComplete \/ OtherComplete
  PROVE  VersionInv'
<1>1. PICK o, r, a : o = Top.op /\ r = op[o] /\ a = r.layer
  OBVIOUS
<1>2. /\ In("complete") /\ Cancel({}) /\ quality' = quality /\ AskStays /\ loaded' = loaded
  BY DEF PreviewComplete, TargetComplete, OtherComplete, selectVars, askVars, AskStays
<1>3. a \in Layer /\ Rest = Tail(calls)
  BY <1>1, <1>2, UnderComplete
<1>4. CASE a \in loaded /\ PreviewComplete
  BY <1>1, <1>4, PreviewShownTells
<1>5. CASE a \notin loaded /\ (PreviewComplete \/ TargetComplete)
  <2>1. Unstage(a) /\ shown' = shown /\ calls' = Rest
    BY <1>1, <1>3, <1>5 DEF PreviewComplete, TargetComplete, Return
  <2> QED BY <1>1, <1>2, <1>5, <2>1, PassesTells
<1>6. CASE a \in loaded /\ TargetComplete
  <2>1. /\ Unstage(a) /\ shown' = [shown EXCEPT ![a] = r.version] /\ calls' = Rest
        /\ IsTarget(r)
    BY <1>1, <1>3, <1>6 DEF TargetComplete, Show, Return
  <2>2. staged'[a] = NotStaged /\ \A b \in Layer : b # a => staged'[b] = staged[b]
    BY <1>3, <2>1 DEF Unstage, TierInv, TierTypes
  <2>3. r.quality = quality
    BY <1>1, <1>3, <2>1 DEF IsTarget, OfStage, IsStaged, TierInv, Generations
  <2> QED BY <1>1, <1>2, <1>6, <2>1, <2>2, <2>3, ShowsTells
<1>7. CASE OtherComplete
  <2>1. PICK shows \in BOOLEAN : shows <=> (~IsStaged(r) /\ r.quality = quality /\ a \in loaded)
    OBVIOUS
  <2>2. /\ ~IsPreview(r) /\ ~IsTarget(r) /\ staged' = staged /\ calls' = Rest
        /\ shows => shown' = [shown EXCEPT ![a] = r.version]
        /\ ~shows => shown' = shown
    BY <1>1, <1>3, <1>7, <2>1 DEF OtherComplete, Show, Return, stageVars
  <2>3. CASE shows
    <3>1. staged'[a] = NotStaged /\ \A b \in Layer : b # a => staged'[b] = staged[b]
      BY <1>1, <2>1, <2>2, <2>3 DEF IsStaged
    <3> QED BY <1>1, <1>2, <2>1, <2>2, <2>3, <3>1, ShowsTells
  <2>4. CASE ~shows
    <3>1. a \in loaded => ~WillShow(r)
      BY <2>1, <2>2, <2>4 DEF WillShow
    <3> QED BY <1>1, <1>2, <2>2, <2>4, <3>1, PassesTells
  <2> QED BY <2>3, <2>4
<1> QED BY <1>4, <1>5, <1>6, <1>7

\* A tier is finalised; no request is under way.
LEMMA UnderFinally ==
  ASSUME TierInv, VersionInv, In("finally"), NEW r, NEW a, r = op[Top.op], a = r.layer, r.kind = "tier"
  PROVE  /\ a \in Layer /\ r \in Request /\ r.version \in Nat /\ r.quality \in Quality
         /\ Ordered(a) /\ Kept(a) /\ params[a] \in Nat /\ applied[a] \in Nat /\ applied[a] <= params[a]
         /\ Top.call = "finally" /\ Rest = Tail(calls) /\ Top.op \in Asked
         /\ \A y \in Frames(Rest) : y.call # "run"
         /\ \A n : In(n) => n = "finally"
<1>1. /\ calls # <<>> /\ Top.call = "finally" /\ Rest = Tail(calls) /\ FrameOk(Top)
      /\ \A y \in Frames(Rest) : Above(Top, y)
  BY TopIn DEF TierInv
<1>2. Top.op \in Asked /\ r \in Request
  BY <1>1 DEF FrameOk, TierInv, TierTypes
<1>3. a \in Layer /\ r.version \in Nat /\ r.quality \in Quality
  BY <1>2, RequestFields
<1>4. \A y \in Frames(Rest) : y.call # "run"
  BY <1>1 DEF Above
<1>5. Ordered(a) /\ Kept(a) /\ params[a] \in Nat /\ applied[a] \in Nat
  BY <1>3 DEF VersionInv, TierInv, TierTypes
<1>6. applied[a] <= params[a]
  BY <1>5 DEF Kept
<1> QED BY <1>1, <1>2, <1>3, <1>4, <1>5, <1>6 DEF In

\* Only its layer is touched, and the raster is not.
LEMMA FinallyTells ==
  ASSUME TierInv, TierInv', VersionInv, In("finally"), cancelled' = cancelled, NEW r, NEW a,
         r = op[Top.op], a = r.layer, r.kind = "tier", quality' = quality, AskStays,
         loaded' = loaded, shown' = shown, \A b \in Layer : b # a => staged'[b] = staged[b],
         NEW F, Asks(F), \A f \in F : f.call = "run" /\ f.request.layer = a,
         \A s : s.layer = a /\ IsPreview(s)' => IsPreview(s),
         \A s \in Coming(a)' : s \in Coming(a) \/
           (s.version = params[a] /\ s.kind = "tier" /\ a \in loaded /\ ~IsPreview(s)'),
         Kept(a)'
  PROVE  VersionInv'
<1>1. /\ a \in Layer /\ Ordered(a) /\ params[a] \in Nat /\ \A n : In(n) => n = "finally"
  BY UnderFinally
<1>2. ASSUME NEW b \in Layer, b # a PROVE Aside(b, F)
  <2>1. params[b] \in Nat /\ params[b] <= params'[b]
    BY DEF AskStays, TierInv, TierTypes
  <2> QED BY <1>1, <1>2, <2>1 DEF Aside, AskStays, RunsLoad, RunsTier
<1>3. Ordered(a)'
  <2>1. /\ params[a] <= params'[a] /\ shown'[a] = shown[a] /\ (a \in loaded' <=> a \in loaded)
        /\ (a \in crossed => a \in crossed')
    BY <1>1 DEF AskStays
  <2>2. \A g \in Frames(calls') : g.call \in {"complete", "reload"} => g \in Frames(calls)
    BY RestFrames DEF Asks
  <2>3. \A g \in Frames(calls') : g.call = "complete" => g \in Frames(calls) /\ op'[g.op] = op[g.op]
    BY <2>2 DEF Asks
  <2>4. \A g \in Frames(calls') : g.call = "reload" /\ a \in loaded =>
          \A i \in 1..Len(g.todo) : g.todo[i] # a
    BY <1>1, <2>2 DEF Ordered
  <2>5. \A s \in Coming(a)' : s \in Coming(a) \/
          /\ s.version = params'[a] /\ (s.kind = "load" => a \notin loaded)
          /\ s.kind = "tier" => a \in loaded /\ ~IsPreview(s)'
    BY DEF AskStays
  <2> QED BY <1>1, <2>1, <2>3, <2>4, <2>5, OrderedStays
<1>4. \A b \in Layer : Aside(b, F) \/ (Ordered(b)' /\ Kept(b)')
  BY <1>2, <1>3
<1>5. applied' \in [Layer -> Nat] /\ project' = project
  BY DEF AskStays, VersionInv
<1> QED BY <1>1, <1>4, <1>5, TellsBut

\* The preview of a loaded layer did not come: its refresh goes on.
LEMMA GoesOnTells ==
  ASSUME TierInv, TierInv', VersionInv, TierFinally, GoesOn(op[Top.op])
  PROVE  VersionInv'
<1>1. PICK o, r, a : o = Top.op /\ r = op[o] /\ a = r.layer
  OBVIOUS
<1>2. /\ In("finally") /\ r.kind = "tier" /\ IsPreview(r) /\ project /\ a \in loaded
      /\ shown' = shown /\ quality' = quality /\ loaded' = loaded /\ AskStays
      /\ FinallyManager /\ cancelled' = cancelled
  BY <1>1 DEF TierFinally, GoesOn, FinallyManager, mapVars, selectVars, askVars, AskStays
<1>3. Promote(a) /\ calls' = <<RunCall(TargetOf(r))>> \o Tail(calls)
  <2>1. Promote(op[Top.op].layer) /\ Become(<<RunCall(TargetOf(op[Top.op]))>>)
    <3>1. ~EndsStage(op[Top.op])
      BY DEF GoesOn, EndsStage, IsPreview, IsTarget
    <3> QED BY <3>1, Zenon DEF TierFinally
  <2> QED BY <1>1, <2>1 DEF Become
<1>4. /\ a \in Layer /\ r \in Request /\ o \in Asked
      /\ Ordered(a) /\ Kept(a) /\ params[a] \in Nat /\ applied[a] \in Nat /\ applied[a] <= params[a]
      /\ Rest = Tail(calls) /\ \A y \in Frames(Rest) : y.call # "run"
      /\ \A n : In(n) => n = "finally"
  BY <1>1, <1>2, UnderFinally
<1>5. PICK t, f : /\ t = TargetOf(r) /\ f = RunCall(t) /\ t \in Request /\ f \in Frame
                  /\ f.call = "run" /\ f.request = t /\ t.kind = "tier" /\ t.layer = a
                  /\ t.version = params[a] /\ WillShow(t)'
                  /\ a \in Layer /\ quality = High /\ (\A s : s.layer = a => ~IsPreview(s)')
                  /\ \A b \in Layer : b # a => staged'[b] = staged[b]
  <2>1. params' = params
    BY <1>2 DEF AskStays
  <2> QED BY <1>1, <1>2, <1>3, <1>4, <2>1, TargetAsked
<1>6. PICK F : F = {f}
  OBVIOUS
<1>7. Asks(F) /\ Frames(calls') = {f} \cup Frames(Rest)
  <2>1. calls' = <<f>> \o Rest
    BY <1>3, <1>4, <1>5
  <2>2. PICK c \in Seq(Frame) : c = Rest
    BY RestFrames
  <2>3. Frames(calls') = {f} \cup Frames(Rest)
    BY <1>5, <2>1, <2>2, FramesOf
  <2> QED BY <1>2, <1>5, <1>6, <2>3 DEF Asks, FinallyManager
<1>8. \A s \in Coming(a)' : s \in Coming(a) \/ s = t
  <2>1. ASSUME NEW s \in Coming(a)' PROVE s \in Coming(a) \/ s = t
    BY <1>5, <1>6, <1>7, <2>1, NewComes
  <2> QED BY <2>1
<1>9. Kept(a)'
  <2>1. applied'[a] = applied[a] /\ applied[a] <= params'[a] /\ (applied[a] # 0 => project')
    BY <1>2, <1>4 DEF AskStays, Kept
  <2>2. ASSUME NEW s \in Coming(a)', s.kind = "load" \/ MayShow(s)' PROVE s.version >= applied[a]
    <3>1. CASE s = t
      BY <1>4, <1>5, <3>1
    <3>2. CASE s \in Coming(a)
      <4>1. s.kind = "load" \/ MayShow(s)
        <5>1. s.layer = a
          BY <1>4, <3>2, ComingFields
        <5> QED BY <1>2, <1>5, <2>2, <5>1 DEF MayShow
      <4>2. ~Superseding(s.key)
        BY <1>4 DEF Superseding
      <4> QED BY <1>4, <3>2, <4>1, <4>2 DEF Kept
    <3> QED BY <1>8, <3>1, <3>2
  <2>3. \A g \in Frames(calls') : RunsLoad(g) \/ RunsTier(g) => g = f
    BY <1>4, <1>7 DEF RunsLoad, RunsTier
  <2>4. t \in Coming(a)'
    BY <1>5, <1>7 DEF Coming, Building
  <2> QED BY <1>4, <1>5, <2>1, <2>2, <2>3, <2>4 DEF Kept
<1>10. /\ \A g \in F : g.call = "run" /\ g.request.layer = a
       /\ \A s \in Coming(a)' : s \in Coming(a) \/
            (s.version = params[a] /\ s.kind = "tier" /\ a \in loaded /\ ~IsPreview(s)')
       /\ \A s : s.layer = a /\ IsPreview(s)' => IsPreview(s)
  BY <1>2, <1>5, <1>6, <1>8
<1> QED BY <1>1, <1>2, <1>5, <1>7, <1>9, <1>10, FinallyTells

\* It ends its refresh, or no refresh waits for it.
LEMMA EndsTells ==
  ASSUME TierInv, TierInv', VersionInv, TierFinally, ~GoesOn(op[Top.op])
  PROVE  VersionInv'
<1>1. PICK o, r, a : o = Top.op /\ r = op[o] /\ a = r.layer
  OBVIOUS
<1>2. /\ In("finally") /\ r.kind = "tier" /\ ~GoesOn(r)
      /\ shown' = shown /\ quality' = quality /\ loaded' = loaded /\ AskStays
      /\ FinallyManager /\ cancelled' = cancelled
  BY <1>1 DEF TierFinally, FinallyManager, mapVars, selectVars, askVars, AskStays
<1>3. /\ calls' = Tail(calls)
      /\ \/ EndsStage(r) /\ Unstage(a)
         \/ ~EndsStage(r) /\ staged' = staged
  <2>1. CASE EndsStage(r)
    BY <1>1, <1>2, <2>1 DEF TierFinally, Return
  <2>2. CASE ~EndsStage(r)
    BY <1>1, <1>2, <2>2 DEF TierFinally, Return
  <2> QED BY <2>1, <2>2
<1>4. /\ a \in Layer /\ o \in Asked
      /\ Ordered(a) /\ Kept(a) /\ params[a] \in Nat /\ applied[a] \in Nat /\ applied[a] <= params[a]
      /\ Top.call = "finally" /\ Rest = Tail(calls) /\ \A y \in Frames(Rest) : y.call # "run"
      /\ \A n : In(n) => n = "finally"
  BY <1>1, <1>2, UnderFinally
<1>5. PICK F : F = {}
  OBVIOUS
<1>6. Asks(F) /\ op' = op
  BY <1>2, <1>3, <1>4, <1>5 DEF Asks, FinallyManager
<1>7. ASSUME NEW s \in Coming(a)' PROVE s \in Coming(a)
  BY <1>5, <1>6, <1>7, NewComes
<1>8. ASSUME NEW s \in Coming(a) PROVE s \in Coming(a)'
  BY <1>2, <1>4, <1>6, <1>8, TiersStay
<1>9. /\ \A g \in Frames(calls') : g \in Frames(calls) /\ g.call # "run" /\ ~RunsLoad(g) /\ ~RunsTier(g)
      /\ \A g \in Frames(calls) : g \in Frames(calls') \/ g = Top
  BY <1>3, <1>4, RestFrames DEF RunsLoad, RunsTier
<1>10. /\ \A b \in Layer : b # a => staged'[b] = staged[b]
       /\ \A s : s.layer = a /\ IsPreview(s)' => IsPreview(s)
       /\ Unstage(a) => staged'[a] = NotStaged
  <2>1. CASE Unstage(a)
    <3>1. staged'[a] = NotStaged /\ \A b \in Layer : b # a => staged'[b] = staged[b]
      BY <1>4, <2>1 DEF Unstage, TierInv, TierTypes
    <3> QED BY <3>1 DEF IsPreview, OfStage, IsStaged
  <2>2. CASE ~Unstage(a)
    BY <1>3, <2>2 DEF IsPreview, OfStage, IsStaged
  <2> QED BY <2>1, <2>2
<1>11. /\ ~In("run") /\ applied'[a] = applied[a] /\ applied[a] <= params'[a] /\ (project => project')
       /\ (Closing => Closing')
  <2>1. Closing => Closing'
    BY <1>4, <1>9 DEF Closing
  <2> QED BY <1>2, <1>4, <2>1 DEF AskStays
<1>12. CASE ~Unshown(a)
  <2>1. ~Unshown(a)'
    BY <1>2, <1>12 DEF Unshown, AskStays
  <2>2. Kept(a)'
    BY <1>2, <1>4, <1>7, <1>9, <1>10, <1>11, <2>1, KeptPaid
  <2>3. \A g \in F : g.call = "run" /\ g.request.layer = a
    BY <1>5
  <2> QED BY <1>1, <1>2, <1>6, <1>7, <1>10, <2>2, <2>3, FinallyTells
<1>13. CASE Unshown(a)
  <2>1. a \in loaded /\ project /\ ~IsPreview(r)
    BY <1>1, <1>2, <1>4, <1>13 DEF Unshown, Kept, GoesOn
  <2>2. Kept(a)'
    <3>1. CASE ~EndsStage(r)
      <4>1. staged' = staged
        BY <1>3, <3>1
      <4>2. \A g \in Frames(calls) : g.call = "finally" /\ AsPreview(g.op) =>
              (g \in Frames(calls') /\ op'[g.op] = op[g.op]) \/ op[g.op].layer # a
        BY <1>1, <1>6, <1>9, <2>1 DEF AsPreview
      <4>3. staged'[a] = staged[a] /\ shown'[a] = shown[a] /\ (a \in loaded' => a \in loaded)
        BY <1>2, <4>1
      <4> QED BY <1>2, <1>4, <1>7, <1>8, <1>9, <1>11, <4>2, <4>3, KeptStays
    <3>2. CASE EndsStage(r)
      <4>1. /\ IsTarget(r) /\ staged'[a] = NotStaged /\ ~staged[a].awaiting
            /\ staged[a].target = quality
        BY <1>1, <1>3, <1>4, <1>10, <2>1, <3>2
           DEF EndsStage, IsTarget, OfStage, IsStaged, TierInv, Generations
      <4>2. \A s : s.layer = a => /\ ~IsPreview(s) /\ ~IsPreview(s)'
                                  /\ (WillShow(s) => WillShow(s)')
        BY <1>2, <4>1 DEF IsPreview, WillShow, IsTarget, OfStage, IsStaged
      <4>3. ASSUME NEW s \in Coming(a)', s.kind = "load" \/ MayShow(s)' PROVE s.version >= applied[a]
        <5>1. s \in Coming(a) /\ (s.kind = "load" \/ MayShow(s))
          <6>1. s.layer = a
            BY <1>4, <4>3, ComingFieldsNext
          <6> QED BY <1>2, <1>7, <4>2, <4>3, <6>1 DEF MayShow
        <5>2. ~Superseding(s.key)
          BY <1>4 DEF Superseding
        <5> QED BY <1>4, <5>1, <5>2 DEF Kept
      <4>4. (\E s \in Coming(a)' : s.kind = "tier" /\ WillShow(s)' /\ s.version >= applied[a]) \/ Closing'
        <5>1. CASE \E s \in Coming(a) : s.kind = "tier" /\ WillShow(s) /\ s.version >= applied[a]
          <6>1. PICK s \in Coming(a) : s.kind = "tier" /\ WillShow(s) /\ s.version >= applied[a]
            BY <5>1
          <6>2. s \in Coming(a)' /\ WillShow(s)'
            BY <1>4, <1>8, <4>2, <6>1, ComingFields
          <6> QED BY <6>1, <6>2
        <5>2. \A g \in Frames(calls) : g.call = "finally" /\ op[g.op].layer = a => ~AsPreview(g.op)
          BY <4>2 DEF AsPreview
        <5> QED BY <1>4, <1>11, <1>13, <5>1, <5>2 DEF Kept
      <4>5. applied[a] # 0 => project'
        BY <1>11, <2>1
      <4> QED BY <1>9, <1>11, <4>3, <4>4, <4>5 DEF Kept
    <3> QED BY <3>1, <3>2
  <2>3. \A g \in F : g.call = "run" /\ g.request.layer = a
    BY <1>5
  <2> QED BY <1>1, <1>2, <1>6, <1>7, <1>10, <2>2, <2>3, FinallyTells
<1> QED BY <1>12, <1>13

\* A tier's on_finally.
LEMMA TierFinallyTells ==
  ASSUME TierInv, TierInv', VersionInv, TierFinally
  PROVE  VersionInv'
BY GoesOnTells, EndsTells
-----------------------------------------------------------------------------
(* The invariant of the versions, and what it is for.                      *)

\* Nothing comes at the start.
LEMMA VersionsInit == Init => VersionInv
<1> SUFFICES ASSUME Init PROVE VersionInv
  OBVIOUS
<1>1. /\ calls = <<>> /\ nextId = 1 /\ applied = [a \in Layer |-> 0] /\ shown = [a \in Layer |-> 0]
      /\ params = [a \in Layer |-> 1]
  BY DEF Init, ManagerInit
<1>2. Frames(calls) = {} /\ Asked = {}
  BY <1>1, NoFrames DEF Asked, OpId
<1>3. ASSUME NEW a \in Layer PROVE Ordered(a) /\ Kept(a)
  <2>1. Coming(a) = {}
    BY <1>2 DEF Coming
  <2>2. Ordered(a)
    BY <1>1, <1>2, <2>1 DEF Ordered, Stocked, TiersNew
  <2>3. Kept(a)
    BY <1>1, <1>2, <2>1 DEF Kept, Unshown
  <2> QED BY <2>2, <2>3
<1>4. ~Winding /\ Settled
  BY <1>2 DEF Winding, Settled
<1> QED BY <1>1, <1>3, <1>4 DEF VersionInv

\* Nothing happens.
LEMMA VersionsStutter == VersionInv /\ UNCHANGED vars => VersionInv'
<1> SUFFICES ASSUME VersionInv, UNCHANGED vars PROVE VersionInv'
  OBVIOUS
<1> USE DEF vars, managerVars, viewVars, selectVars, mapVars, stageVars, busyVars, askVars
<1>1. \A a \in Layer : Coming(a)' = Coming(a)
  BY DEF Coming, Asked, Alive, CallFor, Queued
<1>2. \A r : (IsPreview(r)' <=> IsPreview(r)) /\ (MayShow(r)' <=> MayShow(r))
             /\ (WillShow(r)' <=> WillShow(r))
  BY DEF IsPreview, IsTarget, OfStage, IsStaged, MayShow, WillShow
<1>3. ASSUME NEW a \in Layer PROVE Ordered(a)' /\ Kept(a)'
  <2>1. Ordered(a) /\ Kept(a) /\ Coming(a)' = Coming(a)
    BY <1>1 DEF VersionInv
  <2>2. Ordered(a)'
    BY <1>2, <2>1 DEF Ordered, Stocked, TiersNew
  <2>3. /\ (Unshown(a)' <=> Unshown(a)) /\ (Closing' <=> Closing)
        /\ \A k : Superseding(k)' <=> Superseding(k)
        /\ \A o : AsPreview(o)' <=> AsPreview(o)
    BY <1>2 DEF Unshown, Closing, Superseding, In, Top, AsPreview
  <2>4. Kept(a)'
    BY <1>2, <2>1, <2>3 DEF Kept
  <2> QED BY <2>2, <2>4
<1>4. (Winding' => Closing') /\ Settled'
  BY DEF VersionInv, Winding, Closing, Settled
<1> QED BY <1>3, <1>4 DEF VersionInv

\* What the operator asks for.
LEMMA OperatorTells ==
  ASSUME TierInv, TierInv', VersionInv, Operator
  PROVE  VersionInv'
<1>1. ASSUME NEW a \in Layer, EditUnloaded(a) \/ EditLive(a) PROVE VersionInv'
  BY <1>1, EditUnloadedTells, EditLiveTells
<1>2. ASSUME NEW a \in Layer, EditGeometry(a) \/ DataChanged(a) PROVE VersionInv'
  BY <1>2, RefreshTells
<1>3. ASSUME NEW a \in Layer, Select(a) \/ Overview(a) PROVE VersionInv'
  BY <1>3, SelectTells, OverviewTells
<1>4. ASSUME NEW a \in Layer, Unload(a) \/ Reload(a) PROVE VersionInv'
  BY <1>4, UnloadTells
<1>5. ASSUME NEW q \in Quality, SetQuality(q) PROVE VersionInv'
  BY <1>5, SetQualityTells
<1>6. CASE ChangeCrs \/ Repalette \/ DisplayRaster
  BY <1>6, ChangeCrsTells, RepaletteTells, DisplayRasterTells
<1>7. CASE SwitchProject \/ DeleteProject
  BY <1>7, ClosingTells
<1> QED BY <1>1, <1>2, <1>3, <1>4, <1>5, <1>6, <1>7 DEF Operator

\* VersionInv is inductive, next to TierInv.
LEMMA VersionsStep == TierInv /\ TierInv' /\ VersionInv /\ [Next]_vars => VersionInv'
<1> SUFFICES ASSUME TierInv, TierInv', VersionInv, [Next]_vars PROVE VersionInv'
  OBVIOUS
<1>1. CASE Operator
  BY <1>1, OperatorTells
<1>2. CASE ReloadNext \/ Deactivate
  BY <1>2, ReloadNextTells, DeactivateTells
<1>3. CASE ReloadDone \/ CloseDialog \/ LoadFinally \/ OtherFinally
  BY <1>3, ReturnsTell
<1>4. CASE LoadSettled \/ TierSettled \/ OtherSettled \/ BuildFails
  BY <1>4, LoadSettledTells, TierSettledTells, OtherSettledTells, BuildFailsTells
<1>5. CASE PreviewComplete \/ TargetComplete \/ OtherComplete
  BY <1>5, CompletesTell
<1>6. CASE TierFinally
  BY <1>6, TierFinallyTells
<1>7. CASE Manager \/ \E o \in OpId : PoolFinishes(o)
  BY <1>7, ManagerTells
<1>8. CASE UNCHANGED vars
  BY <1>8, VersionsStutter
<1>9. CASE Resting
  BY <1>9, <1>8 DEF Resting
<1> QED BY <1>1, <1>2, <1>3, <1>4, <1>5, <1>6, <1>7, <1>8, <1>9 DEF Next, Controller

\* VersionInv holds in every behaviour.
LEMMA VersionsAlways == Spec => []VersionInv
BY TiersAlways, VersionsInit, VersionsStep, PTL DEF Spec

\* A tier that is shown is not older than the raster on the map.
LEMMA CompletesNewer ==
  ASSUME TierInv, VersionInv, PreviewComplete \/ TargetComplete \/ OtherComplete,
         NEW a \in Layer, a \notin crossed
  PROVE  shown'[a] >= shown[a]
<1>1. PICK r : r = op[Top.op]
  OBVIOUS
<1>2. In("complete") /\ Cancel({})
  BY DEF PreviewComplete, TargetComplete, OtherComplete
<1>3. PICK l : l = r.layer
  OBVIOUS
<1>4. /\ l \in Layer /\ r \in Coming(l) /\ r.kind = "tier" /\ r.version \in Nat
      /\ Ordered(l)
  BY <1>1, <1>2, <1>3, UnderComplete
<1>5. shown \in [Layer -> Nat] /\ shown[a] \in Nat /\ shown[a] >= shown[a]
  BY DEF TierInv, TierTypes
<1>6. shown' = shown \/ (shown' = [shown EXCEPT ![l] = r.version] /\ MayShow(r))
  <2>1. CASE PreviewComplete
    BY <1>1, <1>3, <2>1 DEF PreviewComplete, Show, MayShow
  <2>2. CASE TargetComplete
    <3>1. IsTarget(r) => r.quality = quality
      BY <1>3, <1>4 DEF IsTarget, OfStage, IsStaged, TierInv, Generations
    <3> QED BY <1>1, <1>3, <2>2, <3>1 DEF TargetComplete, Show, MayShow
  <2>3. CASE OtherComplete
    BY <1>1, <1>3, <2>3 DEF OtherComplete, Show, MayShow
  <2> QED BY <2>1, <2>2, <2>3
<1>7. CASE a # l \/ shown' = shown
  BY <1>4, <1>5, <1>6, <1>7
<1>8. CASE a = l /\ MayShow(r) /\ shown' = [shown EXCEPT ![l] = r.version]
  <2>1. TiersNew(l)
    BY <1>4, <1>8 DEF Ordered
  <2> QED BY <1>4, <1>5, <1>8, <2>1 DEF TiersNew
<1> QED BY <1>6, <1>7, <1>8

\* A load that is shown is not older than the raster on the map.
LEMMA LoadsNewer ==
  ASSUME TierInv, VersionInv, LoadSettled, NEW a \in Layer
  PROVE  shown'[a] >= shown[a]
<1>1. PICK r : r = op[Top.op]
  OBVIOUS
<1>2. PICK l : l = r.layer
  OBVIOUS
<1>3. /\ In("settle") /\ Top.op \notin cancelled /\ r.kind = "load"
      /\ shown' = [shown EXCEPT ![l] = r.version]
  BY <1>1, <1>2 DEF LoadSettled, Settles, Discarded, Show
<1>4. l \in Layer /\ r \in Coming(l)
  BY <1>1, <1>2, <1>3, SettlingComes DEF Building
<1>5. r.version >= shown[l]
  BY <1>3, <1>4 DEF VersionInv, Ordered, Stocked
<1>6. shown \in [Layer -> Nat]
  BY DEF TierInv, TierTypes
<1>7. CASE a = l
  BY <1>3, <1>4, <1>5, <1>6, <1>7
<1>8. CASE a # l
  BY <1>3, <1>6, <1>8
<1> QED BY <1>7, <1>8

\* A rebuild never puts back an older version than the one on the map, unless a reload
\* for a palette, which cancels nothing, crossed a tier of the layer: through previews
\* and targets, live corrections, selections, reloads, failures and closes.
THEOREM NewestIsShown == Spec => NewestShown
<1>1. ASSUME TierInv, VersionInv, [Next]_vars
      PROVE  [\A a \in Layer : shown'[a] >= shown[a] \/ shown'[a] = 0 \/ a \in crossed]_vars
  <2> DEFINE Rising == \A a \in Layer : shown'[a] >= shown[a] \/ shown'[a] = 0 \/ a \in crossed
  <2> SUFFICES Rising
    OBVIOUS
  <2>1. ASSUME shown' = shown PROVE Rising
    <3>1. \A a \in Layer : shown[a] \in Nat
      BY <1>1 DEF TierInv, TierTypes
    <3> QED BY <2>1, <3>1
  <2>2. ASSUME NEW as \in SUBSET Layer, Clear(as) PROVE Rising
    <3>1. \A a \in Layer : shown[a] \in Nat /\ shown'[a] \in {0, shown[a]}
      BY <1>1, <2>2 DEF Clear, Dropped, TierInv, TierTypes
    <3> QED BY <3>1
  <2> USE DEF mapVars, viewVars
  <2>3. CASE Operator
    <3>1. shown' = shown \/ \E as \in SUBSET Layer : Clear(as)
      BY <1>1, <2>3, OperatorClears
    <3> QED BY <2>1, <2>2, <3>1
  <2>4. CASE LoadSettled
    BY <1>1, <2>4, LoadsNewer
  <2>5. CASE PreviewComplete \/ TargetComplete \/ OtherComplete
    BY <1>1, <2>5, CompletesNewer
  <2>6. CASE Deactivate
    BY <2>1, <2>2, <2>6 DEF Deactivate
  <2>7. CASE ReloadNext \/ ReloadDone \/ CloseDialog \/ TierSettled \/ OtherSettled \/ BuildFails
    BY <2>1, <2>7 DEF ReloadNext, ReloadDone, CloseDialog, TierSettled, OtherSettled, BuildFails
  <2>8. CASE LoadFinally \/ TierFinally \/ OtherFinally
    BY <2>1, <2>8 DEF LoadFinally, TierFinally, OtherFinally
  <2>9. CASE Manager
    BY <2>1, <2>9 DEF Manager
  <2>10. CASE \E o \in OpId : PoolFinishes(o)
    BY <2>1, <2>10 DEF PoolFinishes
  <2>11. CASE Resting \/ UNCHANGED vars
    BY <2>1, <2>11 DEF Resting, vars
  <2> QED BY <1>1, <2>3, <2>4, <2>5, <2>6, <2>7, <2>8, <2>9, <2>10, <2>11 DEF Next, Controller
<1> QED BY <1>1, TiersAlways, VersionsAlways, PTL DEF Spec, NewestShown

\* What was applied to a loaded layer is on the map once no build of it is under way,
\* unless its build failed or a live correction or a selection met a staged refresh: no
\* preview, failed preview, supersession or late result loses it.
THEOREM LiveIsShown == Spec => []LiveShows
<1>1. TierInv /\ VersionInv => LiveShows
  <2> SUFFICES ASSUME TierInv, VersionInv, AtRest, NEW a \in loaded,
                      applied[a] # 0, OpsOf(a, {"load", "tier"}) = {}
               PROVE  shown[a] >= applied[a]
    BY DEF LiveShows
  <2>1. a \in Layer /\ Kept(a) /\ shown[a] \in Nat /\ applied[a] \in Nat
    BY DEF VersionInv, TierInv, TierTypes
  <2>2. Frames(calls) = {}
    BY RestTells
  <2>3. ASSUME NEW r \in Coming(a), r.kind = "tier" PROVE FALSE
    <3>1. PICK o \in OpsOf(a, {r.kind}) : op[o] = r
      BY <2>1, <2>3, UnderWay
    <3> QED BY <2>3, <3>1 DEF OpsOf
  <2>4. ~Unshown(a)
    BY <2>1, <2>2, <2>3 DEF Kept, Closing
  <2> QED BY <2>1, <2>4 DEF Unshown
<1> QED BY <1>1, TiersAlways, VersionsAlways, PTL
=============================================================================
