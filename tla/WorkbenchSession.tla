-------------------------- MODULE WorkbenchSession --------------------------
(***************************************************************************)
(* An interactive session: titan_decoder/workbench_ui/services.py under    *)
(* the desktop window (desktop_ui/app.py) or the terminal workbench        *)
(* (workbench_ui/app.py).                                                  *)
(*                                                                         *)
(* Worker threads run the operator's requests.  All of them share one      *)
(* configuration, one cancel event, and the process's offline guard.  The  *)
(* desktop refuses a request and a change of settings while a worker runs; *)
(* the terminal refuses neither (its exclusive workers mark the previous   *)
(* one as cancelled, and its thread goes on).  Only the desktop has a key  *)
(* that cancels, and a deep scan.                                          *)
(*                                                                         *)
(* The engine is AnalysisEngine; here a run of it is whole, or cut short   *)
(* when it saw the cancel event, or it raises.                             *)
(***************************************************************************)
EXTENDS OfflineGuard, Naturals

CONSTANTS
    Desktop,        \* the desktop window, as opposed to the terminal
    Profiles,       \* analysis profiles
    Unset,          \* the limits of the configuration file
    MaxFiles,       \* files in a directory
    MaxStarts,      \* bound of the model: requests
    MaxToggles,     \* bound of the model: changes of the settings
    MaxEscapes,     \* bound of the model: uses of the cancel key
    Faults          \* what may fail, a subset of FaultKinds

FaultKinds == {"read", "run", "save"}

ASSUME SessionAssumption ==
    /\ Desktop \in BOOLEAN
    /\ Profiles # {} /\ Unset \notin Profiles
    /\ MaxFiles \in Nat \ {0}
    /\ MaxStarts \in Nat /\ MaxToggles \in Nat /\ MaxEscapes \in Nat
    /\ Faults \subseteq FaultKinds

VARIABLES
    state,          \* self.state: what the operator has set
    config,         \* self.config: plugin_offline, and the profile's limits
    cancel,         \* self.cancel_event.is_set()
    pc,             \* pc[t]: where worker t is
    run,            \* run[t]: its request
    shown,          \* the result on the screen
    starts, toggles, escapes

counters == <<starts, toggles, escapes>>
sessionVars == <<state, config, cancel, pc, run, shown, counters>>
vars == <<sessionVars, guardVars>>

Settings == [offline : BOOLEAN, profile : Profiles]

Configs == [offline : BOOLEAN, profile : Profiles \cup {Unset}]

Kinds == {"single", "queue", "scan"}

\* A request: its kind, the files left, whether it runs offline, the settings
\* its engine was built with, whether the engine's run was cut short or
\* raised, the reports kept, whether it tells that it was cancelled, whether
\* a provider was allowed to go out; and, as history, what was asked.
Run == [kind : Kinds, left : 0 .. MaxFiles, offline : BOOLEAN,
        engine : Configs, cut : BOOLEAN, raised : BOOLEAN,
        kept : SUBSET {"whole", "cut"}, told : BOOLEAN, external : BOOLEAN,
        asked : Configs]

Request(k, settings) ==
    [kind |-> k, left |-> IF k = "single" THEN 1 ELSE MaxFiles,
     offline |-> FALSE, engine |-> settings, cut |-> FALSE, raised |-> FALSE,
     kept |-> {}, told |-> FALSE, external |-> FALSE, asked |-> settings]

Defaults == [offline |-> TRUE, profile |-> Unset]

NoRequest == Request("single", Defaults)

Init ==
    /\ GuardInit
    /\ state \in [offline : {TRUE}, profile : Profiles]
    /\ config = Defaults
    /\ cancel = FALSE
    /\ pc = [t \in Threads |-> "idle"]
    /\ run = [t \in Threads |-> NoRequest]
    /\ shown = [cut |-> FALSE, told |-> FALSE]
    /\ starts = 0 /\ toggles = 0 /\ escapes = 0

Idle(t) == pc[t] = "idle"

Goto(t, label) == pc' = [pc EXCEPT ![t] = label]

Becomes(t, r) == run' = [run EXCEPT ![t] = r]

-----------------------------------------------------------------------------
(* The operator *)

\* Variant: a request is accepted while another one runs.
MayStartAlways == TRUE

\* worker.isRunning().
MayStart == Desktop => \A t \in Threads : Idle(t)

Start(t, k) ==
    /\ Idle(t) /\ MayStart /\ starts < MaxStarts
    /\ k = "scan" => Desktop
    /\ Becomes(t, Request(k, state))
    /\ Goto(t, IF k = "single" THEN "clear" ELSE "reset")
    /\ starts' = starts + 1
    /\ UNCHANGED <<state, config, cancel, shown, toggles, escapes, guardVars>>

\* Variant: the settings can be changed while a worker runs.
MayToggleAlways == TRUE

\* _engine_controls_available.
MayToggle == Desktop => \A t \in Threads : Idle(t)

Toggle(settings) ==
    /\ MayToggle /\ toggles < MaxToggles /\ settings # state
    /\ state' = settings /\ toggles' = toggles + 1
    /\ UNCHANGED <<config, cancel, pc, run, shown, starts, escapes, guardVars>>

\* cancel_current.
Escape ==
    /\ Desktop /\ escapes < MaxEscapes /\ \E t \in Threads : ~Idle(t)
    /\ cancel' = TRUE /\ escapes' = escapes + 1
    /\ UNCHANGED <<state, config, pc, run, shown, starts, toggles, guardVars>>

-----------------------------------------------------------------------------
(* The loops over files: analyze_path and DeepScanner.scan *)

Worker == UNCHANGED <<state, counters>>

\* cancel_event.clear() on entry.
Reset(t) ==
    /\ pc[t] = "reset"
    /\ cancel' = FALSE
    /\ Goto(t, IF run[t].kind = "queue" THEN "next" ELSE "build")
    /\ Worker /\ UNCHANGED <<config, run, shown, guardVars>>

HasMore(n) == n > 0

\* The next file, unless the event is set; a file that cannot be read is an
\* error of that file.
NextFile(t) ==
    /\ pc[t] = "next" /\ HasMore(run[t].left) /\ ~cancel
    /\ Becomes(t, [run[t] EXCEPT !.left = @ - 1, !.cut = FALSE,
                                 !.raised = FALSE])
    /\ \/ Goto(t, IF run[t].kind = "queue" THEN "clear"
                   ELSE IF run[t].offline THEN "enter" ELSE "run")
       \/ "read" \in Faults /\ UNCHANGED pc
    /\ Worker /\ UNCHANGED <<config, cancel, shown, guardVars>>

LoopEnds(t) ==
    /\ pc[t] = "next"
    /\ ~HasMore(run[t].left) \/ cancel
    /\ Becomes(t, [run[t] EXCEPT !.told = @ \/ (cancel /\ HasMore(run[t].left))])
    /\ Goto(t, "finish")
    /\ Worker /\ UNCHANGED <<config, cancel, shown, guardVars>>

-----------------------------------------------------------------------------
(* analyze, _configured_engine and _analyze_data; the body of scan's loop *)

Clear(t) ==
    /\ pc[t] = "clear"
    /\ cancel' = FALSE /\ Goto(t, "plugins")
    /\ Worker /\ UNCHANGED <<config, run, shown, guardVars>>

SetPlugins(t) ==
    /\ pc[t] = "plugins"
    /\ config' = [config EXCEPT !.offline = state.offline]
    /\ Goto(t, "limits")
    /\ Worker /\ UNCHANGED <<cancel, run, shown, guardVars>>

SetLimits(t) ==
    /\ pc[t] = "limits"
    /\ config' = [config EXCEPT !.profile = state.profile]
    /\ Goto(t, "build")
    /\ Worker /\ UNCHANGED <<cancel, run, shown, guardVars>>

\* TitanEngine(cfg).  A deep scan builds its engine from the configuration as
\* it is, and is told here whether it runs offline.
Build(t) ==
    /\ pc[t] = "build"
    /\ Becomes(t, [run[t] EXCEPT !.engine = config, !.offline = state.offline])
    /\ Goto(t, IF run[t].kind = "scan" THEN "next" ELSE "mode")
    /\ Worker /\ UNCHANGED <<config, cancel, shown, guardVars>>

\* if self.state.offline.
ReadMode(t) ==
    /\ pc[t] = "mode"
    /\ Becomes(t, [run[t] EXCEPT !.offline = state.offline])
    /\ Goto(t, IF state.offline THEN "enter" ELSE "run")
    /\ Worker /\ UNCHANGED <<config, cancel, shown, guardVars>>

EnterGuard(t) ==
    /\ pc[t] = "enter"
    /\ \/ (Save(t) \/ Announce(t)) /\ UNCHANGED pc
       \/ Block(t) /\ Goto(t, "run")
    /\ Worker /\ UNCHANGED <<config, cancel, run, shown>>

\* run_analysis begins: a cancel event that is set already cuts it short.
BeginRun(t) ==
    /\ pc[t] = "run"
    /\ Becomes(t, [run[t] EXCEPT !.cut = cancel])
    /\ Goto(t, "running")
    /\ Worker /\ UNCHANGED <<config, cancel, shown, guardVars>>

\* The engine polls the cancel event.
SeeCancel(t) ==
    /\ pc[t] = "running" /\ cancel /\ ~run[t].cut
    /\ Becomes(t, [run[t] EXCEPT !.cut = TRUE])
    /\ Worker /\ UNCHANGED <<config, cancel, pc, shown, guardVars>>

\* Variant: the guard is not left when run_analysis raises.
EndRunWithoutFinally(t) ==
    /\ pc[t] = "running"
    /\ \E raised \in BOOLEAN :
         /\ raised => "run" \in Faults
         /\ Becomes(t, [run[t] EXCEPT !.raised = raised])
         /\ Goto(t, IF guard[t] = "inside" /\ ~raised THEN "leave" ELSE "check")
    /\ Worker /\ UNCHANGED <<config, cancel, shown, guardVars>>

EndRun(t) ==
    /\ pc[t] = "running"
    /\ \E raised \in BOOLEAN :
         /\ raised => "run" \in Faults
         /\ Becomes(t, [run[t] EXCEPT !.raised = raised])
         /\ Goto(t, IF guard[t] = "inside" THEN "leave" ELSE "check")
    /\ Worker /\ UNCHANGED <<config, cancel, shown, guardVars>>

LeaveGuard(t) ==
    /\ pc[t] = "leave"
    /\ \/ Restore(t) /\ UNCHANGED pc
       \/ Withdraw(t) /\ Goto(t, "check")
    /\ Worker /\ UNCHANGED <<config, cancel, run, shown>>

\* Variant: the cancel event is not looked at after the run.
RejectedRaisedOnly(t) == run[t].raised

\* An exception, or the check of the cancel event, which a scan does not make.
Rejected(t) == run[t].raised \/ (cancel /\ run[t].kind # "scan")

\* The file's report is an error: of the request, or of one file of many.
Reject(t) ==
    /\ pc[t] = "check" /\ Rejected(t)
    /\ IF run[t].kind = "single"
       THEN Goto(t, "idle") /\ Becomes(t, NoRequest)
       ELSE /\ Goto(t, "next")
            /\ Becomes(t, [run[t] EXCEPT !.told = @ \/ ~run[t].raised])
    /\ Worker /\ UNCHANGED <<config, cancel, shown, guardVars>>

\* May the provider of the file go out?  A scan has its mode, analyze_path
\* asks the state again, and analyze calls no provider.
External(t) ==
    CASE run[t].kind = "scan"  -> ~run[t].offline
      [] run[t].kind = "queue" -> ~state.offline
      [] OTHER                 -> FALSE

\* The providers have been asked and the report is kept.
Keep(t) ==
    /\ pc[t] = "check" /\ ~Rejected(t)
    /\ Becomes(t, [run[t] EXCEPT
         !.kept = @ \cup {IF run[t].cut THEN "cut" ELSE "whole"},
         !.external = @ \/ External(t)])
    /\ Goto(t, IF run[t].kind = "single" THEN "finish" ELSE "next")
    /\ Worker /\ UNCHANGED <<config, cancel, shown, guardVars>>

\* A deep scan drops a file whose report cannot be written.
Drop(t) ==
    /\ pc[t] = "check" /\ ~Rejected(t)
    /\ run[t].kind = "scan" /\ "save" \in Faults
    /\ Becomes(t, [run[t] EXCEPT !.external = @ \/ External(t)])
    /\ Goto(t, "next")
    /\ Worker /\ UNCHANGED <<config, cancel, shown, guardVars>>

\* The result is handed to the window; analyze_path raises if it has none.
Finish(t) ==
    /\ pc[t] = "finish"
    /\ shown' = IF run[t].kind = "queue" /\ run[t].kept = {} THEN shown
                ELSE [cut |-> "cut" \in run[t].kept,
                      told |-> IF run[t].kind = "scan" THEN cancel
                               ELSE run[t].told]
    /\ Goto(t, "idle") /\ Becomes(t, NoRequest)
    /\ Worker /\ UNCHANGED <<config, cancel, guardVars>>

WorkerStep(t) ==
    \/ Reset(t) \/ NextFile(t) \/ LoopEnds(t)
    \/ Clear(t) \/ SetPlugins(t) \/ SetLimits(t) \/ Build(t) \/ ReadMode(t)
    \/ EnterGuard(t) \/ BeginRun(t) \/ SeeCancel(t) \/ EndRun(t)
    \/ LeaveGuard(t) \/ Reject(t) \/ Keep(t) \/ Drop(t) \/ Finish(t)

Next ==
    \/ \E t \in Threads : WorkerStep(t) \/ \E k \in Kinds : Start(t, k)
    \/ \E settings \in Settings : Toggle(settings)
    \/ Escape

Spec == Init /\ [][Next]_vars

-----------------------------------------------------------------------------
(* Properties *)

TypeOK ==
    /\ state \in Settings /\ config \in Configs /\ cancel \in BOOLEAN
    /\ pc \in [Threads -> {"idle", "reset", "next", "clear", "plugins",
                 "limits", "build", "mode", "enter", "run", "running",
                 "leave", "check", "finish"}]
    /\ run \in [Threads -> Run]
    /\ shown \in [cut : BOOLEAN, told : BOOLEAN]
    /\ starts \in 0 .. MaxStarts /\ toggles \in 0 .. MaxToggles
    /\ escapes \in 0 .. MaxEscapes

\* While an engine runs for a request that was made offline the network is
\* blocked ("Offline mode (the default) wraps analysis in the network guard",
\* docs/INTERACTIVE_CONSOLE.md; block_network).
OfflineRunGuarded ==
    \A t \in Threads :
      pc[t] = "running" /\ run[t].asked.offline => installed # Real

\* A session at rest has its network back, whatever failed before.
NetworkBack == (\A t \in Threads : Idle(t)) => installed = Real /\ ~blocked

\* An analysis runs with the settings the operator saw when it was requested,
\* although they are read four times while it is set up, from a configuration
\* it shares (_configured_engine, _analyze_data, analyze_path).
RunsAsAsked ==
    \A t \in Threads : run[t].kind # "scan" /\ pc[t] = "running" =>
      /\ run[t].engine = run[t].asked
      /\ run[t].offline = run[t].asked.offline
      /\ run[t].external => ~run[t].asked.offline

\* The plugins of an offline request are offline ("Offline mode refuses
\* plugins that declare network", docs/PLUGIN_API.md), in a deep scan too.
OfflinePlugins ==
    \A t \in Threads :
      pc[t] = "running" /\ run[t].asked.offline => run[t].engine.offline

\* What was cut short by the cancel key is never shown as a finished result:
\* analyze and analyze_path drop it, a deep scan says that it was cancelled.
CutIsTold ==
    /\ shown.cut => shown.told
    /\ \A t \in Threads : "cut" \in run[t].kept => run[t].kind = "scan"
=============================================================================
