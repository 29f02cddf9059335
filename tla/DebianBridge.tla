---------------------------- MODULE DebianBridge ----------------------------
(***************************************************************************)
(* DebianWorkbenchServices (titan_decoder/desktop_ui/debian_services.py)   *)
(* hands every operation of the native window to a process of its own,     *)
(* desktop_ui/debian_bridge.py, and reads lines of JSON from it until its  *)
(* output ends.  The first request of a window asks for the capabilities   *)
(* and keeps the answer.  The user may cancel at any moment, in another    *)
(* thread.                                                                 *)
(***************************************************************************)
EXTENDS Naturals, Sequences

CONSTANTS
    MaxLines,           \* bound: lines that wait in the queue
    MaxAnalyses,        \* bound: requests of the window
    MaxCancels          \* bound: cancels by the user

VARIABLES
    bridgePc,           \* where _request is, or idle
    operation,          \* capabilities or analyze
    process,            \* none, running, or ended
    returnCode,         \* of the process: 0 or 1
    lines,              \* output_queue
    closed,             \* the reader thread has put its None
    response,           \* the last result seen: none, or the operation it is of
    cancelEvent,
    overdue,            \* the deadline has passed
    inventory,          \* _capabilities_cache: none, compatible or other
    outcome,            \* of the last request: none, snapshot or error
    requests, cancels,  \* counts
    cancelledDuring     \* whether the user cancelled while analyze was exchanged

bridgeVars == <<bridgePc, operation, process, returnCode, lines, closed, response,
                cancelEvent, overdue, inventory, outcome, requests, cancels, cancelledDuring>>
processVars == <<process, returnCode, lines, closed>>
userVars == <<requests, cancels, cancelledDuring>>

BridgeInit ==
    /\ bridgePc = "idle" /\ operation = "analyze" /\ process = "none" /\ returnCode = 0
    /\ lines = <<>> /\ closed = FALSE /\ response = "none" /\ cancelEvent = FALSE
    /\ overdue = FALSE /\ inventory = "none" /\ outcome = "none"
    /\ requests = 0 /\ cancels = 0 /\ cancelledDuring = FALSE

\* Variant: what is still running runs on.
LeaveRunning(result) ==
    /\ bridgePc' = "idle" /\ outcome' = result
    /\ UNCHANGED <<operation, response, cancelEvent, overdue, inventory>>
    /\ UNCHANGED processVars /\ UNCHANGED userVars

\* The finally clause: whatever is still running is stopped and waited for.
Leave(result) ==
    /\ bridgePc' = "idle" /\ process' = "none" /\ lines' = <<>> /\ closed' = FALSE
    /\ outcome' = result
    /\ UNCHANGED <<operation, returnCode, response, cancelEvent, overdue, inventory>>
    /\ UNCHANGED userVars

Begin(op) ==
    /\ bridgePc' = "spawn" /\ operation' = op
    /\ response' = "none" /\ overdue' = FALSE /\ cancelEvent' = FALSE

\* analyze, analyze_path, run_decoder and deep_scan_path clear the event;
\* capabilities, when it has to ask, clears it again.
RequestAnalysis ==
    /\ bridgePc = "idle" /\ requests < MaxAnalyses
    /\ requests' = requests + 1 /\ outcome' = "none" /\ cancelledDuring' = FALSE
    /\ bridgePc' = "ensure" /\ cancelEvent' = FALSE
    /\ UNCHANGED <<operation, response, overdue, inventory, cancels>> /\ UNCHANGED processVars

EnsureCompatible ==
    /\ bridgePc = "ensure"
    /\ \/ /\ inventory = "none" /\ Begin("capabilities") /\ UNCHANGED outcome
       \/ /\ inventory = "other" /\ bridgePc' = "idle" /\ outcome' = "error"
          /\ UNCHANGED <<operation, response, overdue, cancelEvent>>
       \/ /\ inventory = "compatible" /\ bridgePc' = "spawn" /\ operation' = "analyze"
          /\ response' = "none" /\ overdue' = FALSE /\ UNCHANGED <<cancelEvent, outcome>>
    /\ UNCHANGED inventory /\ UNCHANGED processVars /\ UNCHANGED userVars

Spawn ==
    /\ bridgePc = "spawn"
    /\ \/ /\ bridgePc' = "write" /\ process' = "running" /\ returnCode' = 0
          /\ lines' = <<>> /\ closed' = FALSE /\ UNCHANGED outcome
       \/ /\ bridgePc' = "idle" /\ outcome' = "error" /\ UNCHANGED processVars
    /\ UNCHANGED <<operation, response, cancelEvent, overdue, inventory>> /\ UNCHANGED userVars

\* A process that has ended does not read: BrokenPipeError.
Write ==
    /\ bridgePc = "write"
    /\ \/ process = "ended" /\ Leave("error")
       \/ /\ bridgePc' = "loop"
          /\ UNCHANGED <<operation, response, cancelEvent, overdue, inventory, outcome>>
          /\ UNCHANGED processVars /\ UNCHANGED userVars

\* What a line does to the locals of the loop.
TakeLine(line) ==
    /\ lines' = Tail(lines)
    /\ response' = IF line = "result" THEN operation ELSE response
    /\ bridgePc' = IF line = "end" THEN "wait" ELSE "loop"
    /\ UNCHANGED <<operation, process, returnCode, closed, cancelEvent, overdue, inventory, outcome>>
    /\ UNCHANGED userVars

Loop ==
    /\ bridgePc = "loop"
    /\ IF cancelEvent \/ overdue THEN Leave("error")
       ELSE IF lines # <<>> THEN TakeLine(Head(lines))
       ELSE /\ process = "ended" /\ closed /\ bridgePc' = "wait"
            /\ UNCHANGED <<operation, response, cancelEvent, overdue, inventory, outcome>>
            /\ UNCHANGED processVars /\ UNCHANGED userVars

Wait ==
    /\ bridgePc = "wait"
    /\ \/ overdue /\ Leave("error")
       \/ /\ process = "ended" /\ ~overdue /\ bridgePc' = "check"
          /\ UNCHANGED <<operation, response, cancelEvent, overdue, inventory, outcome>>
          /\ UNCHANGED processVars /\ UNCHANGED userVars
Check ==
    /\ bridgePc = "check"
    /\ IF cancelEvent \/ returnCode # 0 \/ response = "none" THEN Leave("error")
       ELSE IF operation = "analyze" THEN Leave("snapshot")
       ELSE /\ inventory' \in {"compatible", "other"}
            /\ bridgePc' = "ensure" /\ process' = "none" /\ lines' = <<>> /\ closed' = FALSE
            /\ UNCHANGED <<operation, returnCode, response, cancelEvent, overdue, outcome>>
            /\ UNCHANGED userVars

-----------------------------------------------------------------------------
(* The other actors *)

\* debian_bridge.main prints its progress and one result; anything else on its
\* standard output is noise.
Say ==
    /\ process = "running" /\ ~closed /\ Len(lines) < MaxLines
    /\ \E line \in {"noise", "progress", "result"} : lines' = Append(lines, line)
    /\ UNCHANGED <<bridgePc, operation, process, returnCode, closed, response, cancelEvent,
                   overdue, inventory, outcome>> /\ UNCHANGED userVars

\* The output ends with the process, or before it.
CloseOutput ==
    /\ process # "none" /\ ~closed /\ Len(lines) <= MaxLines
    /\ closed' = TRUE /\ lines' = Append(lines, "end")
    /\ UNCHANGED <<bridgePc, operation, process, returnCode, response, cancelEvent,
                   overdue, inventory, outcome>> /\ UNCHANGED userVars

Exit ==
    /\ process = "running" /\ process' = "ended" /\ returnCode' \in {0, 1}
    /\ UNCHANGED <<bridgePc, operation, lines, closed, response, cancelEvent,
                   overdue, inventory, outcome>> /\ UNCHANGED userVars

\* cancel_current sets the event and ends the process.
UserCancels ==
    /\ cancels < MaxCancels /\ cancels' = cancels + 1
    /\ cancelEvent' = TRUE
    /\ cancelledDuring' = (cancelledDuring \/ (operation = "analyze" /\ bridgePc \in
                             {"spawn", "write", "loop", "wait", "check"}))
    /\ process' = IF process = "running" THEN "ended" ELSE process
    /\ returnCode' = IF process = "running" THEN 1 ELSE returnCode
    /\ UNCHANGED <<bridgePc, operation, lines, closed, response, overdue, inventory,
                   outcome, requests>>

BridgeDeadline ==
    /\ bridgePc \in {"write", "loop", "wait"} /\ ~overdue /\ overdue' = TRUE
    /\ UNCHANGED <<bridgePc, operation, response, cancelEvent, inventory, outcome>>
    /\ UNCHANGED processVars /\ UNCHANGED userVars

BridgeNext ==
    \/ RequestAnalysis \/ EnsureCompatible \/ Spawn \/ Write \/ Loop \/ Wait \/ Check
    \/ Say \/ CloseOutput \/ Exit \/ UserCancels \/ BridgeDeadline

BridgeSpec == BridgeInit /\ [][BridgeNext]_bridgeVars

-----------------------------------------------------------------------------
(* Properties *)

\* A snapshot is shown only if the process of this very request ended well and
\* said it, and the user did not cancel during the exchange, however late;
\* no process of the window outlives its request.  (A cancel before the
\* exchange, while the capabilities are asked for, can be lost.)
SnapshotIsAsked ==
    /\ outcome = "snapshot" =>
         /\ ~cancelledDuring /\ returnCode = 0
         /\ response = "analyze" /\ inventory = "compatible"
    /\ bridgePc \in {"idle", "ensure", "spawn"} => process = "none"
=============================================================================
