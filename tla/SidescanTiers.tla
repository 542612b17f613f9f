---------------------------- MODULE SidescanTiers ----------------------------
(***************************************************************************)
(* ui/features/map/sidescan: the sidescan map controller, a client of the  *)
(* OperationManager.  It loads layers (a Low raster first), upgrades the   *)
(* selected one to the requested quality, and rebuilds a loaded layer when *)
(* its corrections change, in one operation (live) or staged: a Low        *)
(* preview, then the requested tier (geometry).                            *)
(*                                                                         *)
(* A raster is the version of its layer's stored parameters it was built   *)
(* from.  Off, Low and High stand for the qualities: CoverageOnly goes the *)
(* way of Low, Medium that of High.  Loading from persisted rasters only   *)
(* (cache_only) is left out, and the layers are indexed sidescan layers of *)
(* the project, which is reopened once it was closed.                      *)
(***************************************************************************)
EXTENDS OperationManager, SequencesExt

CONSTANTS
  Layer,    \* layer ids
  NoLayer,  \* no layer selected
  Plans     \* bounds: budgets, each saying how often the operator does each
            \* thing, how many builds fail, how many rasters are written to the
            \* disk cache

Deed == {"live", "geometry", "data", "select", "overview", "unload", "reload",
         "quality", "crs", "palette", "switch", "delete", "raster", "fail", "write"}
Off     == 0
Low     == 3
High    == 5
Quality == {Off, Low, High}

LoadKey(a)    == <<"load", a>>
TierKey(a, q) == <<"tier", a, q>>
WriteKey(a, q) == <<"write", a, q>>
RasterKey     == <<"raster">>

ASSUME TiersAssumption ==
  /\ NoLayer \notin Layer
  /\ IsFiniteSet(Layer)
  /\ Plans \subseteq [Deed -> Nat]
  /\ Lane = {"map", "apply", "cache"}
  /\ RasterKey \in Key
  /\ \A a \in Layer, q \in Quality : {LoadKey(a), TierKey(a, q), WriteKey(a, q)} \subseteq Key

VARIABLES
  project,     \* m_project is not null
  quality,     \* m_quality
  active,      \* m_active_layer_id
  loaded,      \* m_loaded_layers
  resident,    \* m_resident_quality, Off when absent
  intensity,   \* the keys of m_layer_intensity_cache
  staged,      \* m_staged_refreshes
  generation,  \* m_next_refresh_generation
  builds,      \* m_active_builds
  dataState,   \* m_data_state
  params,      \* the version of each layer's stored parameters
  shown,       \* MapView: the version on the map, 0 when none
  applied,     \* history: the last version applied to a loaded layer, 0 when
               \* its layer was taken off the map, its build failed, or a live
               \* correction or a selection met a staged refresh
  crossed,     \* history: layers reloaded for a palette while a tier of theirs was under way
  removed,     \* history: m_next_id when the layer was last taken off the map
  left         \* what is left of the budget

selectVars == <<project, quality, active>>
mapVars    == <<loaded, resident, intensity, shown>>
stageVars  == <<staged, generation>>
busyVars   == <<builds, dataState>>
askVars    == <<params, applied, crossed, removed>>
viewVars   == <<selectVars, mapVars, stageVars, busyVars, askVars>>
vars       == <<managerVars, viewVars, left>>

NotStaged == [generation |-> 0, target |-> Off, awaiting |-> FALSE]

CompleteCall(o)   == [call |-> "complete", op |-> o]   \* a tier is in m_quality_tier_cache
ReloadCall(todo)  == [call |-> "reload", todo |-> todo]
DeactivateCall(c) == [call |-> "deactivate", clear |-> c]
DialogCall        == [call |-> "dialog"]               \* a modal event loop

Init ==
  /\ ManagerInit
  /\ project = TRUE
  /\ quality \in {Low, High}
  /\ active = NoLayer
  /\ loaded = {}
  /\ resident = [a \in Layer |-> Off]
  /\ intensity = {}
  /\ staged = [a \in Layer |-> NotStaged]
  /\ generation = 1
  /\ builds = 0
  /\ dataState = "Idle"
  /\ params = [a \in Layer |-> 1]
  /\ shown = [a \in Layer |-> 0]
  /\ applied = [a \in Layer |-> 0]
  /\ crossed = {}
  /\ removed = [a \in Layer |-> 0]
  /\ left \in Plans

Does(d) == left[d] > 0 /\ left' = [left EXCEPT ![d] = @ - 1]

-----------------------------------------------------------------------------
(* What the controller asks the manager for.  The parameters are captured  *)
(* when run is called.                                                     *)

\* The upgrade a load stages: only the selected layer's.
LoadOf(a, selected) ==
  [kind |-> "load", key |-> LoadKey(a), lane |-> "map", layer |-> a, version |-> params[a],
   next |-> IF selected /\ quality = High THEN High ELSE Off]

TierOf(a, q, lane, gen) ==
  [kind |-> "tier", key |-> TierKey(a, q), lane |-> lane, layer |-> a, version |-> params[a],
   quality |-> q, generation |-> gen]

WriteOf(a, q) == [kind |-> "write", key |-> WriteKey(a, q), lane |-> "cache"]
RasterLoad    == [kind |-> "raster", key |-> RasterKey, lane |-> NoLane]

TierKeys(a) == {TierKey(a, q) : q \in Quality}

\* What is cancelled before a layer's map data is dropped.
BuildKeys_Load(a) == {LoadKey(a)}
BuildKeys(a) == {LoadKey(a)} \cup TierKeys(a)
BuildsOf(as) == Current(UNION {BuildKeys(a) : a \in as})

\* activateLayer for a layer that is not loaded; rest is the stack after it.
StartLoad(a, selected, rest) ==
  IF quality = Off
  THEN /\ calls' = rest
       /\ UNCHANGED busyVars
  ELSE /\ calls' = <<RunCall(LoadOf(a, selected))>> \o rest
       /\ builds' = builds + 1
       /\ dataState' = "Loading"

\* The entries of a set of layers are erased.
Dropped(f, as, none) == [a \in Layer |-> IF a \in as THEN none ELSE f[a]]

\* The layers' data leaves the map.
Clear(as) ==
  /\ shown' = Dropped(shown, as, 0)
  /\ removed' = Dropped(removed, as, nextId)

-----------------------------------------------------------------------------
(* What the operator and the rest of the window ask for, from the event    *)
(* loop.                                                                   *)

Stored(as) == params' = [a \in Layer |-> IF a \in as THEN params[a] + 1 ELSE params[a]]
AfterStore(r) == [r EXCEPT !.version = @ + 1]

\* applyInvalidations: only loaded layers are rebuilt.
EditUnloaded(a) ==
  /\ AtRest /\ a \notin loaded
  /\ Does("live")
  /\ Stored({a})
  /\ UNCHANGED <<managerVars, selectVars, mapVars, stageVars, busyVars, applied, crossed, removed>>

\* applyLiveCorrections.
EditLive(a) ==
  /\ AtRest /\ project /\ a \in loaded
  /\ Does("live")
  /\ Stored({a})
  /\ applied' = [applied EXCEPT ![a] = IF staged[a] = NotStaged THEN params'[a] ELSE 0]
  /\ Push(<<RunCall(AfterStore(TierOf(a, quality, "apply", 0)))>>)
  /\ Cancel({})
  /\ UNCHANGED <<selectVars, mapVars, stageVars, busyVars, crossed, removed>>

\* applyGeometryCorrections, after its caller stored the new parameters.
StageRefresh(a) ==
  LET first == IF quality > Low THEN Low ELSE quality IN
  /\ generation' = generation + 1
  /\ staged' = [staged EXCEPT ![a] = [generation |-> generation, target |-> quality,
                                      awaiting |-> quality > Low]]
  /\ Stored({a})
  /\ applied' = [applied EXCEPT ![a] = params'[a]]
  /\ Push(<<RunCall(AfterStore(TierOf(a, first, "apply", generation)))>>)

EditGeometry(a) ==
  /\ AtRest /\ project /\ a \in loaded
  /\ Does("geometry")
  /\ StageRefresh(a)
  /\ Cancel(Current(TierKeys(a)))
  /\ UNCHANGED <<selectVars, mapVars, busyVars, crossed, removed>>

\* onViewerRefresh: the layer's store was replaced.  The old map stays.
DataChanged(a) ==
  /\ AtRest /\ project /\ a \in loaded
  /\ Does("data")
  /\ StageRefresh(a)
  /\ Cancel(BuildsOf({a}))
  /\ resident' = [resident EXCEPT ![a] = Off]
  /\ intensity' = intensity \ {a}
  /\ UNCHANGED <<selectVars, loaded, shown, busyVars, crossed, removed>>

\* activateLayer of the layer the operator selects.
Select(a) ==
  LET upgrades == a \in loaded /\ resident[a] # quality /\ quality > Low IN
  /\ AtRest
  /\ Does("select")
  /\ active' = a
  /\ project' = TRUE
  /\ IF a \in loaded
     THEN /\ Push(IF upgrades THEN <<RunCall(TierOf(a, quality, "map", 0))>> ELSE <<>>)
          /\ UNCHANGED busyVars
     ELSE StartLoad(a, TRUE, calls)
  /\ applied' = IF upgrades /\ staged[a] # NotStaged THEN [applied EXCEPT ![a] = 0] ELSE applied
  /\ Cancel({})
  /\ UNCHANGED <<quality, mapVars, stageVars, params, crossed, removed>>

\* activateLayer of a layer that is shown with the survey.
Overview(a) ==
  /\ AtRest /\ a \notin loaded
  /\ Does("overview")
  /\ project' = TRUE
  /\ StartLoad(a, FALSE, calls)
  /\ Cancel({})
  /\ UNCHANGED <<quality, active, mapVars, stageVars, askVars>>

\* unloadLayer.
Unload(a) ==
  /\ AtRest
  /\ Does("unload")
  /\ Cancel(BuildsOf({a}))
  /\ Clear({a})
  /\ loaded' = loaded \ {a}
  /\ resident' = [resident EXCEPT ![a] = Off]
  /\ intensity' = intensity \ {a}
  /\ staged' = [staged EXCEPT ![a] = NotStaged]
  /\ active' = IF active = a THEN NoLayer ELSE active
  /\ applied' = [applied EXCEPT ![a] = 0]
  /\ crossed' = crossed \ {a}
  /\ UNCHANGED <<calls, project, quality, generation, busyVars, params>>

\* reloadLayer: the map keeps the old raster until the new one is there.
Reload(a) ==
  /\ AtRest /\ project
  /\ Does("reload")
  /\ Cancel(BuildsOf({a}))
  /\ StartLoad(a, a = active, calls)
  /\ loaded' = loaded \ {a}
  /\ resident' = [resident EXCEPT ![a] = Off]
  /\ intensity' = intensity \ {a}
  /\ staged' = [staged EXCEPT ![a] = NotStaged]
  /\ applied' = [applied EXCEPT ![a] = 0]
  /\ crossed' = crossed \ {a}
  /\ UNCHANGED <<selectVars, shown, generation, params, removed>>

\* The controller's caches and its staged refreshes are emptied.
Forget ==
  /\ resident' = [a \in Layer |-> Off]
  /\ intensity' = {}
  /\ staged' = [a \in Layer |-> NotStaged]
  /\ applied' = [a \in Layer |-> 0]
  /\ crossed' = {}

\* setMapSonarQuality; the selected layer is reloaded first.  Without a project
\* nothing is loaded or selected.
SetQuality(q) ==
  LET first == IF active = NoLayer THEN <<>> ELSE <<active>> IN
  /\ AtRest /\ q # quality
  /\ Does("quality")
  /\ quality' = q
  /\ Cancel(BuildsOf(Layer))
  /\ Forget
  /\ loaded' = {}
  /\ IF q = Off
     THEN Clear(loaded) /\ UNCHANGED calls
     ELSE /\ \E others \in SetToSeqs(loaded \ {active}) :
               calls' = <<ReloadCall(first \o others)>>
          /\ UNCHANGED <<shown, removed>>
  /\ UNCHANGED <<project, active, generation, busyVars, params>>

\* onViewerRefresh: the CRS changed, so every loaded layer is reloaded.
ChangeCrs ==
  /\ AtRest /\ project /\ active # NoLayer
  /\ Does("crs")
  /\ Cancel(BuildsOf(Layer))
  /\ Forget
  /\ loaded' = {}
  /\ Stored(Layer)
  /\ \E all \in SetToSeqs(loaded \cup {active}) : calls' = <<ReloadCall(all)>>
  /\ UNCHANGED <<selectVars, shown, generation, busyVars, removed>>

\* The operations that build a layer.
OpsOf(a, kinds) == {o \in Pending : op[o].kind \in kinds /\ op[o].layer = a}

\* repaletteAllLayers: a layer without intensities is loaded again.  Nothing is
\* cancelled: a tier of the layer that is under way goes on.
Repalette ==
  LET lost == loaded \ intensity IN
  /\ AtRest /\ project /\ lost # {}
  /\ Does("palette")
  /\ loaded' = loaded \ lost
  /\ resident' = Dropped(resident, lost, Off)
  /\ \E all \in SetToSeqs(lost) : calls' = <<ReloadCall(all)>>
  /\ Cancel({})
  /\ crossed' = crossed \cup {a \in lost : OpsOf(a, {"tier"}) \ cancelled # {}}
  /\ UNCHANGED <<selectVars, intensity, shown, stageVars, busyVars, params, applied, removed>>

\* displayRaster of one raster layer: keyed, but in no lane.
DisplayRaster ==
  /\ AtRest
  /\ Does("raster")
  /\ Push(<<RunCall(RasterLoad)>>)
  /\ Cancel({})
  /\ UNCHANGED viewVars

\* closeProject and loadProjectPath: projectAboutToChange, cancelAll, then
\* bindProjectUi with its cancelAll and its ProjectReplaced.
Rebind == <<CancelAllCall, DeactivateCall(TRUE)>>
SwitchProject ==
  /\ AtRest /\ project
  /\ Does("switch")
  /\ Push(<<DeactivateCall(FALSE), CancelAllCall>> \o Rebind)
  /\ Cancel({})
  /\ UNCHANGED viewVars

\* deleteProject cancels first; a dialog may report what could not be moved to
\* the trash before projectAboutToChange.
DeleteProject ==
  /\ AtRest /\ project
  /\ Does("delete")
  /\ \E dialog \in {<<>>, <<DialogCall>>} :
       Push(<<CancelAllCall>> \o dialog \o <<DeactivateCall(FALSE)>> \o Rebind)
  /\ Cancel({})
  /\ UNCHANGED viewVars

Operator ==
  \/ \E a \in Layer :
       \/ EditUnloaded(a) \/ EditLive(a) \/ EditGeometry(a) \/ DataChanged(a)
       \/ Select(a) \/ Overview(a) \/ Unload(a) \/ Reload(a)
  \/ \E q \in Quality : SetQuality(q)
  \/ ChangeCrs \/ Repalette \/ DisplayRaster \/ SwitchProject \/ DeleteProject

-----------------------------------------------------------------------------
(* The controller's frames.                                                *)

ReloadNext ==
  /\ In("reload") /\ Top.todo # <<>>
  /\ StartLoad(Head(Top.todo), Head(Top.todo) = active,
               <<ReloadCall(Tail(Top.todo))>> \o Tail(calls))
  /\ Cancel({})
  /\ UNCHANGED <<selectVars, mapVars, stageVars, askVars, left>>

ReloadDone ==
  /\ In("reload") /\ Top.todo = <<>>
  /\ Return
  /\ Cancel({})
  /\ UNCHANGED <<viewVars, left>>

Deactivate ==
  /\ In("deactivate")
  /\ Cancel(BuildsOf(Layer))
  /\ Forget
  /\ builds' = 0
  /\ dataState' = "Idle"
  /\ active' = NoLayer
  /\ project' = FALSE
  /\ IF Top.clear THEN Clear(Layer) /\ loaded' = {}
                  ELSE UNCHANGED <<shown, loaded, removed>>
  /\ Return
  /\ UNCHANGED <<quality, generation, params, left>>

CloseDialog ==
  /\ In("dialog")
  /\ Return
  /\ Cancel({})
  /\ UNCHANGED <<viewVars, left>>

-----------------------------------------------------------------------------
(* on_done.                                                                *)

Settles(kind) == In("settle") /\ ~Discarded(Top.op) /\ op[Top.op].kind = kind

\* A raster that was not read from the disk cache is written to it.
MaybeWrite(a, q, more) ==
  \/ Does("write") /\ Become(<<RunCall(WriteOf(a, q))>> \o more)
  \/ Become(more) /\ UNCHANGED left

\* The raster of request r, of quality q, is now on the map.
Show(r, q) ==
  /\ shown' = [shown EXCEPT ![r.layer] = r.version]
  /\ resident' = [resident EXCEPT ![r.layer] = q]
  /\ intensity' = intensity \cup {r.layer}

LoadSettled ==
  LET r == op[Top.op]
      upgrades == r.next # Off /\ project /\ quality = r.next IN
  /\ Settles("load")
  /\ Show(r, Low)
  /\ loaded' = loaded \cup {r.layer}
  /\ MaybeWrite(r.layer, Low,
       (IF upgrades THEN <<RunCall(TierOf(r.layer, r.next, "map", 0))>> ELSE <<>>)
         \o <<FinallyCall(Top.op)>>)
  /\ Cancel({})
  /\ UNCHANGED <<selectVars, stageVars, busyVars, askVars>>

TierSettled ==
  LET r == op[Top.op] IN
  /\ Settles("tier")
  /\ MaybeWrite(r.layer, r.quality, <<CompleteCall(Top.op), FinallyCall(Top.op)>>)
  /\ Cancel({})
  /\ UNCHANGED viewVars

OtherSettled ==
  /\ \/ Settles("raster") \/ Settles("write")
  /\ Become(<<FinallyCall(Top.op)>>)
  /\ Cancel({})
  /\ UNCHANGED <<viewVars, left>>

\* Does the staged refresh wait for this tier, as its preview or as its target?
IsStaged(r)  == staged[r.layer] # NotStaged
OfStage(r)   == IsStaged(r) /\ staged[r.layer].generation = r.generation
IsPreview(r) == OfStage(r) /\ staged[r.layer].awaiting /\ r.quality = Low
IsTarget(r)  == OfStage(r) /\ ~staged[r.layer].awaiting /\ r.quality = staged[r.layer].target

\* A build that failed; on_done does nothing more.
BuildFails ==
  LET r == op[Top.op] IN
  /\ \/ Settles("load")
     \/ Settles("tier")
  /\ Does("fail")
  /\ applied' = IF r.kind = "tier" /\ IsPreview(r) THEN applied
                                                   ELSE [applied EXCEPT ![r.layer] = 0]
  /\ Become(<<FinallyCall(Top.op)>>)
  /\ Cancel({})
  /\ UNCHANGED <<selectVars, mapVars, stageVars, busyVars, params, crossed, removed>>

Unstage(a) == staged' = [staged EXCEPT ![a] = NotStaged]
Promote(a) == staged' = [staged EXCEPT ![a].awaiting = FALSE]
TargetOf(r) == TierOf(r.layer, staged[r.layer].target, "apply", r.generation)

\* handleRefreshTierComplete, then the slot of prebuildTierComplete.
PreviewComplete ==
  LET r == op[Top.op] IN
  /\ In("complete") /\ IsPreview(r)
  /\ IF r.layer \in loaded
     THEN /\ Promote(r.layer)
          /\ Show(r, Low)
          /\ Become(<<RunCall(TargetOf(r))>>)
     ELSE /\ Unstage(r.layer)
          /\ Return
          /\ UNCHANGED <<shown, resident, intensity>>
  /\ Cancel({})
  /\ UNCHANGED <<selectVars, loaded, generation, busyVars, askVars, left>>

TargetComplete ==
  LET r == op[Top.op] IN
  /\ In("complete") /\ IsTarget(r)
  /\ Unstage(r.layer)
  /\ IF r.layer \in loaded THEN Show(r, r.quality)
                           ELSE UNCHANGED <<shown, resident, intensity>>
  /\ Return
  /\ Cancel({})
  /\ UNCHANGED <<selectVars, loaded, generation, busyVars, askVars, left>>

\* A tier no refresh waits for: shown unless one is under way, the quality
\* changed or the layer was unloaded.
OtherComplete ==
  LET r == op[Top.op] IN
  /\ In("complete") /\ ~IsPreview(r) /\ ~IsTarget(r)
  /\ IF ~IsStaged(r) /\ r.quality = quality /\ r.layer \in loaded
     THEN Show(r, r.quality)
     ELSE UNCHANGED <<shown, resident, intensity>>
  /\ Return
  /\ Cancel({})
  /\ UNCHANGED <<selectVars, loaded, stageVars, busyVars, askVars, left>>

-----------------------------------------------------------------------------
(* on_finally.                                                             *)

FinallyManager ==
  /\ Finalised
  /\ UNCHANGED <<nextId, op, entries, keyed, cancelled, running, waiting, launched>>

LoadFinally_OnSuccess ==
  /\ In("finally") /\ op[Top.op].kind = "load"
  /\ IF Top.op \in cancelled
     THEN UNCHANGED busyVars
     ELSE /\ builds' = IF builds > 0 THEN builds - 1 ELSE 0
          /\ dataState' = IF builds' = 0 /\ dataState = "Loading" THEN "Ready" ELSE dataState
  /\ Return
  /\ FinallyManager
  /\ UNCHANGED <<selectVars, mapVars, stageVars, askVars, left>>
LoadFinally ==
  /\ In("finally") /\ op[Top.op].kind = "load"
  /\ builds' = IF builds > 0 THEN builds - 1 ELSE 0
  /\ dataState' = IF builds' = 0 /\ dataState = "Loading" THEN "Ready" ELSE dataState
  /\ Return
  /\ FinallyManager
  /\ UNCHANGED <<selectVars, mapVars, stageVars, askVars, left>>

\* handleRefreshTierFinished: a refresh that still waits for this tier will not
\* get it.  Without its preview it goes on to its target; otherwise it ends.
GoesOn_Never(r) == FALSE
GoesOn(r) == IsPreview(r) /\ project /\ r.layer \in loaded
EndsStage_Preview(r) == IsPreview(r) /\ ~GoesOn(r)
EndsStage(r) == (IsPreview(r) /\ ~GoesOn(r)) \/ IsTarget(r)

TierFinally ==
  LET r == op[Top.op] IN
  /\ In("finally") /\ r.kind = "tier"
  /\ CASE GoesOn(r)    -> Promote(r.layer) /\ Become(<<RunCall(TargetOf(r))>>)
       [] EndsStage(r) -> Unstage(r.layer) /\ Return
       [] OTHER        -> UNCHANGED staged /\ Return
  /\ FinallyManager
  /\ UNCHANGED <<selectVars, mapVars, generation, busyVars, askVars, left>>

OtherFinally ==
  /\ In("finally") /\ op[Top.op].kind \in {"raster", "write"}
  /\ Return
  /\ FinallyManager
  /\ UNCHANGED <<viewVars, left>>

-----------------------------------------------------------------------------
\* The pool's events reach the main thread from its event loop or a dialog's.
PoolFinishes(o) ==
  /\ AtRest \/ In("dialog")
  /\ Finish(o)
  /\ UNCHANGED <<viewVars, left>>

Controller ==
  \/ ReloadNext \/ ReloadDone \/ Deactivate \/ CloseDialog
  \/ LoadSettled \/ TierSettled \/ OtherSettled \/ BuildFails
  \/ PreviewComplete \/ TargetComplete \/ OtherComplete
  \/ LoadFinally \/ TierFinally \/ OtherFinally

Manager == ManagerStep /\ UNCHANGED <<viewVars, left>>

\* Nothing is under way and the operator leaves it at that.
Resting == AtRest /\ Pending = {} /\ UNCHANGED vars

Next ==
  \/ Operator \/ Controller \/ Manager
  \/ \E o \in OpId : PoolFinishes(o)
  \/ Resting

Spec == Init /\ [][Next]_vars

\* The main thread goes on with what it does and every background function
\* returns.
FairSpec ==
  /\ Spec
  /\ WF_vars(Controller) /\ WF_vars(Manager)
  /\ \A o \in OpId : WF_vars(PoolFinishes(o))

-----------------------------------------------------------------------------
Loads           == {o \in Pending : op[o].kind = "load"}

\* A rebuild never puts back an older version than the one on the map, unless a reload
\* for a palette, which cancels nothing, crossed a tier of the layer.
NewestShown ==
  [][\A a \in Layer : shown'[a] >= shown[a] \/ shown'[a] = 0 \/ a \in crossed]_vars

\* Once a layer is taken off the map, by unloadLayer, by Off or by a project
\* switch, no build that was asked for before puts it back.
LateResultsDropped ==
  [][\A a \in Layer : shown'[a] \notin {0, shown[a]} => Top.op >= removed[a]]_vars

\* The busy counter balances: it is never below zero, and without a load the viewer
\* is not Loading.
BusyEnds == builds >= 0 /\ (AtRest /\ Loads = {} => builds = 0 /\ dataState # "Loading")

\* What was applied to a loaded layer is on the map once its builds are done,
\* unless the build failed or a live correction or a selection met a staged refresh.
LiveShows ==
  AtRest => \A a \in loaded :
    applied[a] # 0 /\ OpsOf(a, {"load", "tier"}) = {} => shown[a] >= applied[a]

\* Every staged refresh comes to an end: it cannot be left behind, where it
\* would keep every later tier off the map.
RefreshEnds == \A a \in Layer : staged[a] # NotStaged ~> staged[a] = NotStaged
=============================================================================
