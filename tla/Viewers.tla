------------------------------- MODULE Viewers -------------------------------
(***************************************************************************)
(* ui/features/waterfall and ui/features/subbottom: the two viewer windows *)
(* of a line, clients of the OperationManager.  The waterfall loads a      *)
(* window of one band of its line, and rebuilds its rows from the pings it *)
(* holds when the parameters or the navigation corrections change: one key *)
(* for all three, so each supersedes the others.  The sub-bottom window    *)
(* loads all traces of its line, then processes them, under two keys.      *)
(*                                                                         *)
(* Parameters are a member of a small set, pings and rows are the place    *)
(* they were read from, and a navigation run keeps that place.  The lines  *)
(* are layers of the viewer's modality; the windows stay open.             *)
(***************************************************************************)
EXTENDS OperationManager

CONSTANTS
  Line,    \* layer ids
  NoLine,  \* no layer, no traces
  Dry,     \* lines whose index has no sub-bottom traces
  Band,    \* frequency bands
  Param,   \* processing parameters
  Plans    \* bounds: budgets, each saying how often each thing is done

Deed  == {"open", "reload", "band", "scroll", "params", "apply", "nav",
          "profile", "profileParams", "replace", "fail", "gone"}
Row   == {0, 1}    \* where a window may start
NoRow == -1

Pipeline   == "wf:pipeline"
TraceLoad  == "sbpwin:load"
TraceProc  == "sbpwin:proc"

NoPlace  == [line |-> NoLine]
NoTraces == [line |-> NoLine]

ASSUME ViewersAssumption ==
  /\ NoLine \notin Line /\ Dry \subseteq Line
  /\ Band # {} /\ Param # {}
  /\ Plans \subseteq [Deed -> Nat]
  /\ Lane = {"heavy"} /\ Key = {Pipeline, TraceLoad, TraceProc}

VARIABLES
  wf,         \* WaterfallWindow and its view: layer, band, first (m_window_first_row),
              \* params, raw (m_raw_pings), rows (the parameters of m_rows),
              \* state, repipe (its timer runs), scroll (m_pending_abs_row)
  sb,         \* SubBottomWindow and its view: layer, params, raw (m_traces_raw),
              \* traces, state, proc (its timer runs); and, a history,
              \* gone (the line's load found no file)
  overtaken,  \* history: the last load of a window was superseded by a rebuild
  left        \* what is left of the budget

viewerVars == <<wf, sb, overtaken>>
vars       == <<managerVars, viewerVars, left>>

\* applyStoredNavParams or a navigation panel, then the sub-bottom window's clearLayer,
\* then both windows'.
NavCall     == [call |-> "nav"]
NoTraceCall == [call |-> "noTraces"]
ClearCall   == [call |-> "clear"]

\* The band a line is opened with, its layer's preferred one.
MainBand == CHOOSE b \in Band : TRUE

Init ==
  /\ ManagerInit
  /\ LET p == CHOOSE p \in Param : TRUE IN
       /\ wf = [layer |-> NoLine, band |-> MainBand, first |-> 0, params |-> p, raw |-> NoPlace,
                rows |-> p, state |-> "Idle", repipe |-> FALSE, scroll |-> NoRow]
       /\ sb = [layer |-> NoLine, params |-> p, raw |-> NoLine, traces |-> NoTraces,
                state |-> "Idle", proc |-> FALSE, gone |-> FALSE]
  /\ overtaken = FALSE
  /\ left \in Plans

Does(d) == left[d] > 0 /\ left' = [left EXCEPT ![d] = @ - 1]

-----------------------------------------------------------------------------
(* What the windows ask the manager for.  w is the window as it is then.   *)

LoadOf(w, r) ==
  [kind |-> "load", key |-> Pipeline, lane |-> "heavy", params |-> w.params,
   raw |-> [line |-> w.layer, band |-> w.band, row |-> r]]
RepipeOf(w) ==
  [kind |-> "rows", key |-> Pipeline, lane |-> "heavy", params |-> w.params, raw |-> w.raw]
NavOf(w) ==
  [kind |-> "rows", key |-> Pipeline, lane |-> NoLane, params |-> w.params, raw |-> w.raw]
TracesOf(l) == [kind |-> "traces", key |-> TraceLoad, lane |-> "heavy", line |-> l]
ProcOf(s) ==
  [kind |-> "proc", key |-> TraceProc, lane |-> NoLane, line |-> s.raw, params |-> s.params]

\* loadWindow of a window with a layer; more is what its caller does next.
LoadWindow(w, r, more) ==
  /\ wf' = [w EXCEPT !.state = "Loading"]
  /\ overtaken' = FALSE
  /\ Push(<<RunCall(LoadOf(w, r))>> \o more)

\* A rebuild that is asked for now supersedes this load.
Overtakes == \E o \in Current({Pipeline}) : op[o].kind = "load"

Empty(w) == w.raw = NoPlace

\* invalidateProcessedCache.
Invalidated(w) == IF Empty(w) THEN w ELSE [w EXCEPT !.state = "Processing", !.repipe = TRUE]

-----------------------------------------------------------------------------
(* The waterfall.                                                          *)

\* setLayer.  The parameters become the line's stored ones, the pings of the
\* line before stay in the view.
SetLayer(l, p, more) ==
  /\ Cancel(Current({Pipeline}))
  /\ LoadWindow([wf EXCEPT !.layer = l, !.params = p, !.band = MainBand, !.first = 0,
                           !.repipe = FALSE, !.scroll = NoRow], 0, more)

\* A line is selected or the viewer opened, or the sound velocity or the
\* source's CRS changed: its navigation corrections are applied at once.  When
\* a line is selected, the sub-bottom window is cleared.
OpenLine(l) ==
  /\ AtRest
  /\ Does("open")
  /\ \E p \in Param, more \in {<<>>, <<NoTraceCall>>} :
       SetLayer(l, p, <<NavCall>> \o more)
  /\ UNCHANGED sb

\* onViewerRefresh: reloadCurrentLayer.
ReloadLine ==
  /\ AtRest /\ wf.layer # NoLine
  /\ Does("reload")
  /\ \E p \in Param : SetLayer(wf.layer, p, <<>>)
  /\ UNCHANGED sb

\* onFrequencyBandChanged.
ChooseBand(b) ==
  /\ AtRest /\ wf.layer # NoLine /\ b # wf.band
  /\ Does("band")
  /\ LoadWindow([wf EXCEPT !.band = b, !.first = 0], 0, <<>>)
  /\ Cancel({})
  /\ UNCHANGED sb

\* onScrollbarMoved and onScrollBeyondBounds: a row outside the window loaded
\* arms the timer, one inside stops it.
Scroll(r) ==
  /\ AtRest /\ wf.layer # NoLine
  /\ Does("scroll")
  /\ wf' = [wf EXCEPT !.scroll = IF r = wf.first /\ ~Empty(wf) THEN NoRow ELSE r]
  /\ UNCHANGED <<managerVars, sb, overtaken>>

ScrollFires ==
  /\ AtRest /\ wf.scroll # NoRow
  /\ LoadWindow([wf EXCEPT !.scroll = NoRow], wf.scroll, <<>>)
  /\ Cancel({})
  /\ UNCHANGED <<sb, left>>

\* pushParams and applyExternalParams.
Changed(w, p) == IF p = w.params THEN w ELSE Invalidated([w EXCEPT !.params = p])

ChangeParams(p) ==
  /\ AtRest /\ p # wf.params
  /\ Does("params")
  /\ wf' = Changed(wf, p)
  /\ UNCHANGED <<managerVars, sb, overtaken>>

\* The automatic stretch is turned on or off.
ChangeStretch ==
  /\ AtRest
  /\ Does("params")
  /\ wf' = Invalidated(wf)
  /\ UNCHANGED <<managerVars, sb, overtaken>>

\* applyActiveTools: parameters, then navigation.
ApplyTools(p) ==
  /\ AtRest /\ wf.layer # NoLine
  /\ Does("apply")
  /\ wf' = Changed(wf, p)
  /\ Push(<<NavCall>>)
  /\ Cancel({})
  /\ UNCHANGED <<sb, overtaken>>

\* A navigation panel, or a change of the working CRS.
ApplyNav ==
  /\ AtRest /\ wf.layer # NoLine
  /\ Does("nav")
  /\ Push(<<NavCall>>)
  /\ Cancel({})
  /\ UNCHANGED viewerVars

\* scheduleNavProcessing.
NavNext ==
  /\ In("nav")
  /\ IF Empty(wf)
     THEN Return /\ UNCHANGED <<wf, overtaken>>
     ELSE /\ wf' = [wf EXCEPT !.state = "Processing"]
          /\ overtaken' = (overtaken \/ Overtakes)
          /\ Become(<<RunCall(NavOf(wf))>>)
  /\ Cancel({})
  /\ UNCHANGED <<sb, left>>

\* onRepipeDebounce.
RepipeFires ==
  /\ AtRest /\ wf.repipe
  /\ wf' = [wf EXCEPT !.repipe = FALSE]
  /\ IF wf.layer = NoLine \/ Empty(wf)
     THEN UNCHANGED <<calls, overtaken>>
     ELSE /\ Push(<<RunCall(RepipeOf(wf))>>)
          /\ overtaken' = (overtaken \/ Overtakes)
  /\ Cancel({})
  /\ UNCHANGED <<sb, left>>

Cleared(w) == [w EXCEPT !.layer = NoLine, !.first = 0, !.raw = NoPlace, !.state = "Idle",
                        !.repipe = FALSE, !.scroll = NoRow]

-----------------------------------------------------------------------------
(* The sub-bottom window.                                                  *)

\* scheduleProcessing.  Empty traces clear the view and leave the state as it is.
Scheduled(s) == IF s.raw = NoLine THEN [s EXCEPT !.traces = NoTraces]
                                  ELSE [s EXCEPT !.state = "Processing", !.proc = TRUE]

ClearedTraces(s) == [s EXCEPT !.layer = NoLine, !.raw = NoLine, !.traces = NoTraces,
                              !.state = "Idle", !.proc = FALSE, !.gone = FALSE]

TraceKeys_Load == {TraceLoad}
TraceKeys == {TraceLoad, TraceProc}

\* setLayer, then the line's stored parameters; reloadCurrentLayer keeps them.
OpenProfile(l) ==
  /\ AtRest
  /\ Does("profile")
  /\ Cancel(Current(TraceKeys))
  /\ \E p \in Param :
       sb' = [ClearedTraces(sb) EXCEPT !.layer = l, !.params = p,
                                       !.state = IF l \in Dry THEN "Idle" ELSE "Loading"]
  /\ IF l \in Dry THEN UNCHANGED calls ELSE Push(<<RunCall(TracesOf(l))>>)
  /\ UNCHANGED <<wf, overtaken>>

\* applyGainParams, applySignalParams and applyNavToLine, in a row.
ChangeProfileParams(p) ==
  /\ AtRest
  /\ Does("profileParams")
  /\ sb' = Scheduled([sb EXCEPT !.params = p])
  /\ UNCHANGED <<managerVars, wf, overtaken>>

\* onProcDebounce.
ProcFires ==
  /\ AtRest /\ sb.proc
  /\ IF sb.raw = NoLine
     THEN sb' = [sb EXCEPT !.proc = FALSE] /\ UNCHANGED calls
     ELSE /\ sb' = [sb EXCEPT !.proc = FALSE, !.state = "Processing"]
          /\ Push(<<RunCall(ProcOf(sb))>>)
  /\ Cancel({})
  /\ UNCHANGED <<wf, overtaken, left>>

NoTraceNext ==
  /\ In("noTraces")
  /\ Cancel(Current(TraceKeys))
  /\ sb' = ClearedTraces(sb)
  /\ Return
  /\ UNCHANGED <<wf, overtaken, left>>

\* Nothing is selected any more, or the project is replaced, which cancels all
\* operations first.
Replace ==
  /\ AtRest
  /\ Does("replace")
  /\ \E before \in {<<>>, <<CancelAllCall>>} : Push(before \o <<ClearCall>>)
  /\ Cancel({})
  /\ UNCHANGED viewerVars

ClearNext ==
  /\ In("clear")
  /\ Cancel(Current(Key))
  /\ wf' = Cleared(wf)
  /\ sb' = ClearedTraces(sb)
  /\ Return
  /\ UNCHANGED <<overtaken, left>>

-----------------------------------------------------------------------------
(* on_done and on_finally.                                                 *)

Settles(kind) == In("settle") /\ ~Discarded(Top.op) /\ op[Top.op].kind = kind
Settled == Become(<<FinallyCall(Top.op)>>) /\ Cancel({}) /\ UNCHANGED overtaken

\* The parameters changed while the window was loading.
Stale_Never(r) == FALSE
Stale(r) == r.params # wf.params

WindowLoaded ==
  LET r == op[Top.op]
      w == [wf EXCEPT !.raw = r.raw, !.rows = r.params, !.first = r.raw.row,
                      !.state = "Ready"] IN
  /\ Settles("load")
  /\ wf' = IF Stale(r) THEN Invalidated(w) ELSE w
  /\ Settled
  /\ UNCHANGED <<sb, left>>

WindowFails ==
  /\ Settles("load")
  /\ Does("fail")
  /\ wf' = [wf EXCEPT !.raw = NoPlace, !.state = "Failed"]
  /\ Settled
  /\ UNCHANGED sb

RowsRebuilt ==
  LET r == op[Top.op] IN
  /\ Settles("rows")
  /\ wf' = [wf EXCEPT !.raw = r.raw, !.rows = r.params, !.state = "Ready"]
  /\ Settled
  /\ UNCHANGED <<sb, left>>

RowsFail ==
  /\ Settles("rows")
  /\ Does("fail")
  /\ wf' = [wf EXCEPT !.state = "Failed"]
  /\ Settled
  /\ UNCHANGED sb

TracesLoaded ==
  /\ Settles("traces")
  /\ sb' = Scheduled([sb EXCEPT !.raw = op[Top.op].line])
  /\ Settled
  /\ UNCHANGED <<wf, left>>

\* The file is gone: loadAllSubBottomTraces returns no traces, which is no error.
TracesGone ==
  /\ Settles("traces")
  /\ Does("gone")
  /\ sb' = [Scheduled(sb) EXCEPT !.gone = TRUE]
  /\ Settled
  /\ UNCHANGED wf

TracesFail ==
  /\ Settles("traces")
  /\ Does("fail")
  /\ sb' = [sb EXCEPT !.state = "Failed"]
  /\ Settled
  /\ UNCHANGED wf

TracesProcessed ==
  LET r == op[Top.op] IN
  /\ Settles("proc")
  /\ sb' = [sb EXCEPT !.traces = [line |-> r.line, params |-> r.params], !.state = "Ready"]
  /\ Settled
  /\ UNCHANGED <<wf, left>>

\* Processing that throws gives no traces.
ProcFails ==
  /\ Settles("proc")
  /\ Does("fail")
  /\ sb' = [sb EXCEPT !.traces = NoTraces, !.state = "Ready"]
  /\ Settled
  /\ UNCHANGED wf

\* None of these operations has an on_finally.
ViewerFinally ==
  /\ In("finally")
  /\ Finalised
  /\ Return
  /\ UNCHANGED <<nextId, op, entries, keyed, cancelled, running, waiting, launched,
                 viewerVars, left>>

-----------------------------------------------------------------------------
Operator ==
  \/ \E l \in Line : OpenLine(l) \/ OpenProfile(l)
  \/ \E b \in Band : ChooseBand(b)
  \/ \E r \in Row : Scroll(r)
  \/ \E p \in Param : ChangeParams(p) \/ ApplyTools(p) \/ ChangeProfileParams(p)
  \/ ReloadLine \/ ChangeStretch \/ ApplyNav \/ Replace

Timer == ScrollFires \/ RepipeFires \/ ProcFires

Window ==
  \/ NavNext \/ NoTraceNext \/ ClearNext
  \/ WindowLoaded \/ WindowFails \/ RowsRebuilt \/ RowsFail
  \/ TracesLoaded \/ TracesGone \/ TracesFail \/ TracesProcessed \/ ProcFails
  \/ ViewerFinally

PoolFinishes(o) == AtRest /\ Finish(o) /\ UNCHANGED <<viewerVars, left>>

Manager == ManagerStep /\ UNCHANGED <<viewerVars, left>>

\* Nothing runs, no timer either, and the operator leaves it at that.
Resting ==
  /\ AtRest /\ launched = {}
  /\ wf.scroll = NoRow /\ ~wf.repipe /\ ~sb.proc
  /\ UNCHANGED vars

Next ==
  \/ Operator \/ Timer \/ Window \/ Manager
  \/ \E o \in OpId : PoolFinishes(o)
  \/ Resting

Spec == Init /\ [][Next]_vars

\* The main thread goes on with what it does, every background function
\* returns and every timer that is left alone fires.
FairSpec ==
  /\ Spec
  /\ WF_vars(Window) /\ WF_vars(Manager)
  /\ WF_vars(ScrollFires) /\ WF_vars(RepipeFires) /\ WF_vars(ProcFires)
  /\ \A o \in OpId : WF_vars(PoolFinishes(o))

-----------------------------------------------------------------------------
Busy(keys) == Current(keys) \ cancelled # {}
Asking     == [line |-> wf.layer, band |-> wf.band, row |-> wf.first]
RowsStand  == AtRest /\ ~Busy({Pipeline}) /\ ~wf.repipe /\ wf.state = "Ready"

\* The rows a waterfall at rest calls Ready were built with the parameters on
\* its controls: through loads, scrolls and rebuilds that supersede each other
\* and parameters that change under way.  And they are the rows of the line,
\* band and first row that contacts are picked at, unless a rebuild of the
\* pings held before superseded the load.
RowsTrue ==
  RowsStand => /\ wf.rows = wf.params
               /\ overtaken \/ wf.raw = Asking

\* "Ready: display is current" (ViewerWindow.h): of the line that is chosen.
ReadyIsCurrent == RowsStand => wf.raw.line = wf.layer

\* The traces of a sub-bottom window at rest are those of its line with its
\* parameters, or there are none: late processing of the line before never shows.
TracesTrue ==
  (AtRest /\ ~Busy({TraceLoad, TraceProc}) /\ ~sb.proc /\ sb.traces # NoTraces) =>
    sb.traces = [line |-> sb.layer, params |-> sb.params]

\* No window stays busy, whatever waits in the heavy lane, is superseded there
\* or fails; but for a sub-bottom line whose file is gone.
ViewersSettle ==
  []<>(/\ wf.state \notin {"Loading", "Processing"}
       /\ sb.gone \/ sb.state \notin {"Loading", "Processing"})
=============================================================================
