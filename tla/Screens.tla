------------------------------ MODULE Screens ------------------------------
(***************************************************************************)
(* The workbench application (workbench_ui/app.py): the panels that show   *)
(* the current snapshot, the handlers of the user's keys, and the worker   *)
(* threads of start_analysis and start_decoder.  A worker that a newer one *)
(* replaces is not stopped, only marked; it goes on to the end.  Every     *)
(* refresh awaits the removal of the panel it found and then mounts a new  *)
(* one, and workers' refreshes run as tasks of their own: between the two  *)
(* any other refresh may run.  The user's handlers run one at a time.      *)
(* Removal and mounting are Textual's: a query that finds nothing and a    *)
(* second widget with the same id raise, and an exception of a handler, or *)
(* of a worker that no newer one has replaced, ends the application.       *)
(***************************************************************************)
EXTENDS Naturals, Sequences

CONSTANTS
    DecoderIds,         \* rows of the decoder list
    MaxRequests,        \* bound: requests and loaded reports of a session
    InitialDecoder

ASSUME ScreensAssumption == MaxRequests \in Nat /\ InitialDecoder \in DecoderIds

VARIABLES
    app,            \* [snapshot, decoder, started, exited]
    panels,         \* on the screen: [cards, view, details]; the view has an
                    \* id of its own, of the details there may be several
    tasks,          \* tasks[0]: the user's handler; tasks[i]: request i's worker
    overlapped      \* history: two refreshes of one panel overlapped

screenVars == <<app, panels, tasks, overlapped>>

\* What the evidence field holds: nothing, the path of a directory, or a
\* file's path or text, which may be refused too.
Fields == {"empty", "directory", "data"}
Handler == 0
Workers == 1 .. MaxRequests
Actors == {Handler} \cup Workers
Fresh == app.started + 1

\* A refresh of the view is between its query and its last use of the view,
\* one of the details between its query and the mount.
InView == {"viewOut", "viewIn", "viewSeen"}
InDetails == {"detailsOut", "detailsIn"}
Refreshing == {"results", "details"} \cup InView \cup InDetails

NoView == [what |-> "none", of |-> 0]
Task_(kind, stage) == [kind |-> kind, at |-> stage, field |-> "empty", shows |-> NoView]

ScreensInit ==
    /\ app = [snapshot |-> 0, decoder |-> InitialDecoder, started |-> 0, exited |-> FALSE]
    /\ panels = [cards |-> 0, view |-> [what |-> "results", of |-> 0],
                 details |-> <<[decoder |-> InitialDecoder, of |-> 0]>>]
    /\ tasks = [a \in Actors |-> Task_("none", "done")]
    /\ overlapped = FALSE

\* A newer worker has been started since: both are of one exclusive group.
Replaced(a) == \E b \in a + 1 .. app.started : tasks[b].kind \in {"analysis", "decoder"}

\* An exception leaves a task.
Raises(a) ==
    /\ tasks' = [tasks EXCEPT ![a].at = "lost"]
    /\ app' = [app EXCEPT !.exited = a = Handler \/ ~Replaced(a)]

Overlaps(a, stages) ==
    overlapped' = (overlapped \/ \E b \in Actors \ {a} : tasks[b].at \in stages)

-----------------------------------------------------------------------------
(* Refreshes, by any task *)

\* _replace_dynamic_view: the new panel is built before it is called.
QueryView(a, task, state) ==
    /\ tasks' = [tasks EXCEPT ![a] = [task EXCEPT !.at =
                   IF panels.view = NoView THEN "lost" ELSE "viewOut"]]
    /\ app' = [state EXCEPT !.exited = panels.view = NoView /\ (a = Handler \/ ~Replaced(a))]
    /\ Overlaps(a, InView)

\* The removal; whoever awaits that of the same widget goes on.
DetachView(a) ==
    /\ tasks[a].at = "viewOut"
    /\ panels' = [panels EXCEPT !.view = NoView]
    /\ tasks' = [b \in Actors |-> IF tasks[b].at = "viewOut"
                                  THEN [tasks[b] EXCEPT !.at = "viewIn"] ELSE tasks[b]]
    /\ UNCHANGED <<app, overlapped>>

AfterView(kind) ==
    CASE kind \in {"analysis", "report"} -> "viewSeen"
      [] kind = "decoder" -> "details"
      [] OTHER -> "done"

MountView(a) ==
    /\ tasks[a].at = "viewIn"
    /\ \/ /\ panels.view = NoView
          /\ panels' = [panels EXCEPT !.view = tasks[a].shows]
          /\ tasks' = [tasks EXCEPT ![a] = Task_(@.kind, AfterView(@.kind))]
          /\ UNCHANGED app
       \/ panels.view # NoView /\ Raises(a) /\ UNCHANGED panels
    /\ UNCHANGED overlapped

\* refresh_decoder_details finds the first details there are.
QueryDetails(a, state) ==
    /\ tasks' = [tasks EXCEPT ![a].at = IF panels.details = <<>> THEN "lost" ELSE "detailsOut"]
    /\ app' = [state EXCEPT !.exited = panels.details = <<>> /\ (a = Handler \/ ~Replaced(a))]
    /\ Overlaps(a, InDetails)

DetachDetails(a) ==
    /\ tasks[a].at = "detailsOut"
    /\ panels' = [panels EXCEPT !.details = Tail(panels.details)]
    /\ tasks' = [b \in Actors |-> IF tasks[b].at = "detailsOut"
                                  THEN [tasks[b] EXCEPT !.at = "detailsIn"] ELSE tasks[b]]
    /\ UNCHANGED <<app, overlapped>>

\* The details are built after the removal, of what is current then.
MountDetails(a) ==
    /\ tasks[a].at = "detailsIn"
    /\ panels' = [panels EXCEPT !.details = Append(@, [decoder |-> app.decoder, of |-> app.snapshot])]
    /\ tasks' = [tasks EXCEPT ![a].at = "done"]
    /\ UNCHANGED <<app, overlapped>>

\* With reveal, refresh_results queries the view again; a loaded report goes
\* on to the details at once, a worker calls for them.
RevealView(a) ==
    /\ tasks[a].at = "viewSeen"
    /\ \/ panels.view = NoView /\ Raises(a) /\ UNCHANGED overlapped
       \/ panels.view # NoView /\ a = Handler /\ QueryDetails(a, app)
       \/ /\ panels.view # NoView /\ a # Handler
          /\ tasks' = [tasks EXCEPT ![a].at = "details"] /\ UNCHANGED <<app, overlapped>>
    /\ UNCHANGED panels

-----------------------------------------------------------------------------
(* The user *)

AtRest == tasks[Handler].at \in {"done", "lost"}

Started(kind) ==
    /\ Fresh <= MaxRequests
    /\ tasks' = [tasks EXCEPT ![Fresh] = Task_(kind, "begun")]

\* The button, return in the evidence field, and a drop, which fills the field.
Submit ==
    /\ AtRest /\ \E kind \in {"analysis", "decoder"} : Started(kind)
    /\ app' = [app EXCEPT !.started = Fresh]
    /\ UNCHANGED <<panels, overlapped>>

SelectDecoder ==
    /\ AtRest /\ \E d \in DecoderIds : QueryDetails(Handler, [app EXCEPT !.decoder = d])
    /\ UNCHANGED panels

Shows(what, snapshot) == [what |-> what, of |-> snapshot]

\* load_latest_report: a report that cannot be read leaves everything.
LoadReport ==
    /\ AtRest /\ Fresh <= MaxRequests
    /\ panels' = [panels EXCEPT !.cards = Fresh]
    /\ QueryView(Handler, [Task_("report", "begun") EXCEPT !.shows = Shows("results", Fresh)],
                 [app EXCEPT !.snapshot = Fresh, !.started = Fresh])

\* The reports, correlation, timeline, indicator, analyst and settings views
\* take the place of the results.
ShowOverlay ==
    /\ AtRest
    /\ QueryView(Handler, [Task_("overlay", "begun") EXCEPT !.shows = Shows("overlay", app.snapshot)], app)
    /\ UNCHANGED panels

ShowDashboard ==
    /\ AtRest /\ panels.view.what # "results"
    /\ panels' = IF panels.view = NoView THEN panels ELSE [panels EXCEPT !.cards = app.snapshot]
    /\ QueryView(Handler, [Task_("dashboard", "begun") EXCEPT !.shows = Shows("results", app.snapshot)], app)

-----------------------------------------------------------------------------
(* A worker thread: each step below is one call into the application's loop *)

\* The field holds what the user has made of it by now.
ReadField(i) ==
    /\ tasks[i].at = "begun"
    /\ \E field \in Fields : tasks' = [tasks EXCEPT ![i].at = "running", ![i].field = field]
    /\ UNCHANGED <<app, panels, overlapped>>

\* No input, and a directory for a decoder, are refused; anything else may fail.
Unusable(w) == w.field = "empty" \/ (w.field = "directory" /\ w.kind = "decoder")

Work(i) ==
    /\ tasks[i].at = "running"
    /\ \E stage \in {"done"} \cup (IF Unusable(tasks[i]) THEN {} ELSE {"assign"}) :
         tasks' = [tasks EXCEPT ![i] = Task_(@.kind, stage)]
    /\ UNCHANGED <<app, panels, overlapped>>

AssignSnapshot(i) ==
    /\ tasks[i].at = "assign" /\ tasks' = [tasks EXCEPT ![i].at = "results"]
    /\ app' = [app EXCEPT !.snapshot = i] /\ UNCHANGED <<panels, overlapped>>

\* Variant: a worker shows its own result.
ShownBy(i) == i

\* The results are built of what is current.
Shown(i) == app.snapshot

RefreshResults(i) ==
    /\ tasks[i].at = "results"
    /\ panels' = [panels EXCEPT !.cards = Shown(i)]
    /\ QueryView(i, [tasks[i] EXCEPT !.shows = Shows("results", Shown(i))], app)

RefreshDetails(i) ==
    /\ tasks[i].at = "details" /\ QueryDetails(i, app) /\ UNCHANGED panels

ScreensNext ==
    /\ ~app.exited
    /\ \/ Submit \/ SelectDecoder \/ LoadReport \/ ShowOverlay \/ ShowDashboard
       \/ \E i \in Workers :
            \/ ReadField(i) \/ Work(i) \/ AssignSnapshot(i)
            \/ RefreshResults(i) \/ RefreshDetails(i)
       \/ \E a \in Actors :
            \/ DetachView(a) \/ MountView(a) \/ RevealView(a)
            \/ DetachDetails(a) \/ MountDetails(a)

ScreensSpec == ScreensInit /\ [][ScreensNext]_screenVars

-----------------------------------------------------------------------------
(* Properties *)

\* While no two refreshes of one panel overlapped, the application is not
\* ended by an exception, and, whatever the order in which overlapping
\* requests end, whatever is opened meanwhile, and with a refresh of the view
\* running beside one of the details: once no task is between its result and
\* its last refresh, every panel shows the one current snapshot, and there is
\* one panel of details, of the selected decoder; a refused or failed request
\* shows nothing.  (When two refreshes of one panel overlap, either may find
\* no panel or mount a second one, and the application ends, or old details
\* stay on the screen.)
ScreenAgrees ==
    ~overlapped =>
        /\ ~app.exited
        /\ (\A a \in Actors : tasks[a].at \notin Refreshing) =>
             /\ panels.cards = app.snapshot
             /\ panels.view.of = app.snapshot /\ panels.view # NoView
             /\ panels.details = <<[decoder |-> app.decoder, of |-> app.snapshot]>>
             /\ tasks[app.snapshot].at = "done"
=============================================================================
