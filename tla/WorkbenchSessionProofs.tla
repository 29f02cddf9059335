----------------------- MODULE WorkbenchSessionProofs ----------------------
(***************************************************************************)
(* Theorems about the offline guard and the desktop session, for any       *)
(* number of threads, profiles and files, and any set of faults.  What makes*)
(* the session safe is that at most one thread works (_start_analysis and  *)
(* _engine_controls_available): the guard is then used by one thread at a  *)
(* time, and nothing that a request reads again has changed since it was   *)
(* made.                                                                   *)
(***************************************************************************)
EXTENDS WorkbenchSession, TLAPS

(***************************************************************************)
(* The guard used by one thread at a time.  The thread that is in it found *)
(* the real functions, and what is installed follows from where it is.     *)
(***************************************************************************)
GuardPcs == {"outside", "saved", "announced", "inside", "restored"}

GuardType ==
    /\ installed \in Threads \cup {Real} /\ blocked \in BOOLEAN
    /\ guard \in [Threads -> GuardPcs]
    /\ old \in [Threads -> Threads \cup {Real}]

GuardInv ==
    /\ GuardType
    /\ Reopened
    /\ \A t \in Threads : ~Outside(t) =>
         /\ Alone(t)
         /\ old[t] = Real
         /\ installed = IF guard[t] = "inside" THEN t ELSE Real
         /\ blocked = (guard[t] # "saved")

LEMMA GuardInvInit == GuardInit => GuardInv
  BY GuardAssumption DEF GuardInit, GuardInv, GuardType, GuardPcs, Reopened, Outside

LEMMA GuardInvStep == GuardInv /\ [SerialNext]_guardVars => GuardInv'
<1> SUFFICES ASSUME GuardInv, [SerialNext]_guardVars PROVE GuardInv'
  OBVIOUS
<1> USE GuardAssumption
        DEF GuardInv, GuardType, GuardPcs, Outside, Alone, Reopened, GuardMoves
<1>1. ASSUME NEW t \in Threads, Alone(t) /\ Save(t) PROVE GuardInv'
  BY <1>1 DEF Save
<1>2. ASSUME NEW t \in Threads, Announce(t) PROVE GuardInv'
  BY <1>2 DEF Announce
<1>3. ASSUME NEW t \in Threads, Block(t) PROVE GuardInv'
  BY <1>3 DEF Block
<1>4. ASSUME NEW t \in Threads, Restore(t) PROVE GuardInv'
  BY <1>4 DEF Restore
<1>5. ASSUME NEW t \in Threads, Withdraw(t) PROVE GuardInv'
  BY <1>5 DEF Withdraw
<1>6. CASE UNCHANGED guardVars
  BY <1>6 DEF guardVars
<1> QED
  BY <1>1, <1>2, <1>3, <1>4, <1>5, <1>6 DEF SerialNext

LEMMA GuardInvariant == SerialGuard => []GuardInv
<1> QED BY GuardInvInit, GuardInvStep, PTL DEF SerialGuard

\* As long as threads enter the guard one at a time, it holds for whoever is
\* inside, and nothing of it is left when nobody is (block_network).
THEOREM SerialGuardWorks == SerialGuard => [](Guarded /\ Reopened)
<1>1. GuardInv => Guarded /\ Reopened
  BY GuardAssumption DEF GuardInv, GuardType, GuardPcs, Guarded, Outside
<1> QED BY <1>1, GuardInvariant, PTL

(***************************************************************************)
(* Type correctness, of both front ends.                                   *)
(***************************************************************************)
LEMMA DefaultTypes ==
  /\ Defaults \in Configs
  /\ NoRequest \in Run
  /\ \A k \in Kinds, c \in Settings : Request(k, c) \in Run
<1>1. 1 \in 0 .. MaxFiles /\ MaxFiles \in 0 .. MaxFiles
  BY SessionAssumption
<1> QED
  BY <1>1 DEF Defaults, NoRequest, Request, Run, Configs, Settings, Kinds

\* A request is replaced, and the others stay.
LEMMA RunUpdate ==
  ASSUME run \in [Threads -> Run], NEW t \in Threads, NEW r \in Run,
         Becomes(t, r)
  PROVE  /\ run' \in [Threads -> Run]
         /\ run'[t] = r
         /\ \A u \in Threads : u # t => run'[u] = run[u]
  BY DEF Becomes

LEMMA ExternalType ==
  ASSUME TypeOK, NEW t \in Threads
  PROVE  External(t) \in BOOLEAN
  BY DEF External

\* The changes that the steps make to a request keep its type.
LEMMA RunChanges ==
  ASSUME TypeOK, NEW t \in Threads
  PROVE  /\ HasMore(run[t].left) =>
              [run[t] EXCEPT !.left = @ - 1, !.cut = FALSE, !.raised = FALSE]
                \in Run
         /\ [run[t] EXCEPT !.told = @ \/ (cancel /\ HasMore(run[t].left))] \in Run
         /\ [run[t] EXCEPT !.engine = config, !.offline = state.offline] \in Run
         /\ [run[t] EXCEPT !.offline = state.offline] \in Run
         /\ \A b \in BOOLEAN : [run[t] EXCEPT !.cut = b] \in Run
         /\ \A b \in BOOLEAN : [run[t] EXCEPT !.raised = b] \in Run
         /\ [run[t] EXCEPT !.told = @ \/ ~run[t].raised] \in Run
         /\ [run[t] EXCEPT
                !.kept = @ \cup {IF run[t].cut THEN "cut" ELSE "whole"},
                !.external = @ \/ External(t)] \in Run
         /\ [run[t] EXCEPT !.external = @ \/ External(t)] \in Run
<1> DEFINE r == run[t]
<1>1. /\ r \in Run /\ config \in Configs /\ state \in Settings
      /\ cancel \in BOOLEAN /\ External(t) \in BOOLEAN
  BY ExternalType DEF TypeOK
<1>2. state.offline \in BOOLEAN
  BY <1>1 DEF Settings
<1>3. HasMore(r.left) => r.left - 1 \in 0 .. MaxFiles
  BY <1>1, SessionAssumption DEF Run, HasMore
<1> HIDE DEF r
<1>4. HasMore(r.left) =>
        [r EXCEPT !.left = @ - 1, !.cut = FALSE, !.raised = FALSE] \in Run
  BY <1>1, <1>3 DEF Run
<1>5. /\ [r EXCEPT !.told = @ \/ (cancel /\ HasMore(r.left))] \in Run
      /\ [r EXCEPT !.told = @ \/ ~r.raised] \in Run
  BY <1>1 DEF Run
<1>6. /\ [r EXCEPT !.engine = config, !.offline = state.offline] \in Run
      /\ [r EXCEPT !.offline = state.offline] \in Run
  BY <1>1, <1>2 DEF Run
<1>7. \A b \in BOOLEAN : /\ [r EXCEPT !.cut = b] \in Run
                         /\ [r EXCEPT !.raised = b] \in Run
  BY <1>1 DEF Run
<1>8. r.kept \cup {IF r.cut THEN "cut" ELSE "whole"} \in SUBSET {"whole", "cut"}
  BY <1>1 DEF Run
<1>9. /\ [r EXCEPT !.kept = @ \cup {IF r.cut THEN "cut" ELSE "whole"},
                   !.external = @ \/ External(t)] \in Run
      /\ [r EXCEPT !.external = @ \/ External(t)] \in Run
  BY <1>1, <1>8 DEF Run
<1> QED BY <1>4, <1>5, <1>6, <1>7, <1>9 DEF r

LEMMA TypeStep == TypeOK /\ [Next]_vars => TypeOK'
<1> SUFFICES ASSUME TypeOK, [Next]_vars PROVE TypeOK'
  OBVIOUS
<1> USE SessionAssumption DEF TypeOK, Goto, Worker, counters
<1>1. ASSUME NEW t \in Threads, NEW k \in Kinds, Start(t, k) PROVE TypeOK'
  BY <1>1, DefaultTypes, RunUpdate DEF Start
<1>2. ASSUME NEW c \in Settings, Toggle(c) PROVE TypeOK'
  BY <1>2 DEF Toggle
<1>3. CASE Escape
  BY <1>3 DEF Escape
<1>4. CASE UNCHANGED vars
  BY <1>4 DEF vars, sessionVars
<1>5. ASSUME NEW t \in Threads, Reset(t) PROVE TypeOK'
  BY <1>5 DEF Reset
<1>6. ASSUME NEW t \in Threads, NextFile(t) PROVE TypeOK'
  <2>1. run' \in [Threads -> Run]
    BY <1>6, RunChanges, RunUpdate DEF NextFile
  <2> QED BY <1>6, <2>1 DEF NextFile
<1>7. ASSUME NEW t \in Threads, LoopEnds(t) PROVE TypeOK'
  <2>1. run' \in [Threads -> Run]
    BY <1>7, RunChanges, RunUpdate DEF LoopEnds
  <2> QED BY <1>7, <2>1 DEF LoopEnds
<1>8. ASSUME NEW t \in Threads, Clear(t) PROVE TypeOK'
  BY <1>8 DEF Clear
<1>9. ASSUME NEW t \in Threads, SetPlugins(t) PROVE TypeOK'
  <2>1. config' \in Configs
    BY <1>9 DEF SetPlugins, Configs, Settings
  <2> QED BY <1>9, <2>1 DEF SetPlugins
<1>10. ASSUME NEW t \in Threads, SetLimits(t) PROVE TypeOK'
  <2>1. config' \in Configs
    BY <1>10 DEF SetLimits, Configs, Settings
  <2> QED BY <1>10, <2>1 DEF SetLimits
<1>11. ASSUME NEW t \in Threads, Build(t) PROVE TypeOK'
  <2>1. run' \in [Threads -> Run]
    BY <1>11, RunChanges, RunUpdate DEF Build
  <2> QED BY <1>11, <2>1 DEF Build
<1>12. ASSUME NEW t \in Threads, ReadMode(t) PROVE TypeOK'
  <2>1. run' \in [Threads -> Run]
    BY <1>12, RunChanges, RunUpdate DEF ReadMode
  <2> QED BY <1>12, <2>1 DEF ReadMode
<1>13. ASSUME NEW t \in Threads, EnterGuard(t) PROVE TypeOK'
  BY <1>13 DEF EnterGuard
<1>14. ASSUME NEW t \in Threads, BeginRun(t) PROVE TypeOK'
  <2>1. run' \in [Threads -> Run]
    BY <1>14, RunChanges, RunUpdate DEF BeginRun
  <2> QED BY <1>14, <2>1 DEF BeginRun
<1>15. ASSUME NEW t \in Threads, SeeCancel(t) PROVE TypeOK'
  <2>1. run' \in [Threads -> Run]
    BY <1>15, RunChanges, RunUpdate DEF SeeCancel
  <2> QED BY <1>15, <2>1 DEF SeeCancel
<1>16. ASSUME NEW t \in Threads, EndRun(t) PROVE TypeOK'
  <2>1. run' \in [Threads -> Run]
    BY <1>16, RunChanges, RunUpdate DEF EndRun
  <2> QED BY <1>16, <2>1 DEF EndRun
<1>17. ASSUME NEW t \in Threads, LeaveGuard(t) PROVE TypeOK'
  BY <1>17 DEF LeaveGuard
<1>18. ASSUME NEW t \in Threads, Reject(t) PROVE TypeOK'
  <2>1. run' \in [Threads -> Run]
    BY <1>18, RunChanges, RunUpdate, DefaultTypes DEF Reject
  <2> QED BY <1>18, <2>1 DEF Reject
<1>19. ASSUME NEW t \in Threads, Keep(t) PROVE TypeOK'
  <2>1. run' \in [Threads -> Run]
    BY <1>19, RunChanges, RunUpdate DEF Keep
  <2> QED BY <1>19, <2>1 DEF Keep
<1>20. ASSUME NEW t \in Threads, Drop(t) PROVE TypeOK'
  <2>1. run' \in [Threads -> Run]
    BY <1>20, RunChanges, RunUpdate DEF Drop
  <2> QED BY <1>20, <2>1 DEF Drop
<1>21. ASSUME NEW t \in Threads, Finish(t) PROVE TypeOK'
  <2>1. run' \in [Threads -> Run]
    BY <1>21, DefaultTypes, RunUpdate DEF Finish
  <2>2. shown' \in [cut : BOOLEAN, told : BOOLEAN]
    BY <1>21 DEF Finish, Run
  <2> QED BY <1>21, <2>1, <2>2 DEF Finish
<1> QED
  BY <1>1, <1>2, <1>3, <1>4, <1>5, <1>6, <1>7, <1>8,
     <1>9, <1>10, <1>11, <1>12, <1>13, <1>14, <1>15, <1>16,
     <1>17, <1>18, <1>19, <1>20, <1>21
     DEF Next, WorkerStep

LEMMA SessionTypeInit == Init => TypeOK
<1> SUFFICES ASSUME Init PROVE TypeOK
  OBVIOUS
<1>1. state \in Settings
  BY DEF Init, Settings
<1>2. run \in [Threads -> Run]
  BY DefaultTypes DEF Init
<1>3. /\ starts \in 0 .. MaxStarts /\ toggles \in 0 .. MaxToggles
      /\ escapes \in 0 .. MaxEscapes
  BY SessionAssumption DEF Init
<1> QED BY <1>1, <1>2, <1>3, DefaultTypes DEF Init, TypeOK

\* Every variable of a session keeps its type.
THEOREM SessionTypeCorrect == Spec => []TypeOK
<1> QED BY SessionTypeInit, TypeStep, PTL DEF Spec
-----------------------------------------------------------------------------
(* The session *)

Resting(t) == Idle(t) /\ run[t] = NoRequest /\ Outside(t)

\* Where a thread is in block_network, by where it is in its request.
Place(t) ==
  /\ pc[t] = "enter" =>
       guard[t] \in {"outside", "saved", "announced"} /\ run[t].offline
  /\ pc[t] \in {"run", "running"} =>
       guard[t] = IF run[t].offline THEN "inside" ELSE "outside"
  /\ pc[t] = "leave" => guard[t] \in {"inside", "restored"}
  /\ pc[t] \notin {"enter", "run", "running", "leave"} => Outside(t)

\* Which requests reach which steps.
Route(t) ==
  /\ pc[t] \in {"reset", "next"} => run[t].kind # "single"
  /\ pc[t] \in {"clear", "plugins", "limits", "mode"} => run[t].kind # "scan"

\* What has been read of the settings, so far.
Setup(t) ==
  /\ run[t].asked = state
  /\ pc[t] = "limits" => config.offline = state.offline
  /\ pc[t] = "build" /\ run[t].kind # "scan" => config = state
  /\ pc[t] \in {"mode", "enter", "run", "running"} /\ run[t].kind # "scan" =>
       run[t].engine = state
  /\ pc[t] \in {"enter", "run", "running"} => run[t].offline = state.offline
  /\ run[t].kind = "scan" /\ pc[t] \notin {"reset", "build"} =>
       run[t].offline = state.offline
  /\ run[t].external => ~state.offline

\* What was cut short, and that the cancel event still says so.
Cut(t) ==
  /\ pc[t] \in {"running", "leave", "check"} /\ run[t].cut => cancel
  /\ "cut" \in run[t].kept => run[t].kind = "scan" /\ cancel
  /\ pc[t] = "reset" => run[t].kept = {}

Working(t) == Place(t) /\ Route(t) /\ Setup(t) /\ Cut(t)

DesktopInv ==
  /\ TypeOK /\ GuardInv
  /\ shown.cut => shown.told
  /\ \A t \in Threads :
       \/ Resting(t)
       \/ ~Idle(t) /\ Working(t) /\ \A u \in Threads \ {t} : Resting(u)

-----------------------------------------------------------------------------
(* A step of a thread, as the others see it *)

\* The step leaves whatever belongs to another thread alone.
Local(t) ==
  /\ state' = state
  /\ \A u \in Threads \ {t} :
       pc'[u] = pc[u] /\ run'[u] = run[u] /\ guard'[u] = guard[u]

LEMMA OthersRest ==
  ASSUME DesktopInv, NEW t \in Threads, ~Idle(t), Local(t),
         TypeOK', GuardInv', (shown.cut => shown.told)',
         (Resting(t) \/ (~Idle(t) /\ Working(t)))'
  PROVE  DesktopInv'
<1>1. \A u \in Threads \ {t} : Resting(u)
  BY DEF DesktopInv, Resting
<1>2. \A u \in Threads \ {t} : Resting(u)'
  BY <1>1 DEF Local, Resting, Idle, Outside, NoRequest, Defaults, Request
<1> QED BY <1>2 DEF DesktopInv

LEMMA WorkerIsLocal ==
  ASSUME TypeOK, GuardType, NEW t \in Threads, WorkerStep(t)
  PROVE  Local(t)
<1> USE DEF TypeOK, GuardType, Local, Worker, Goto, Becomes, guardVars, GuardMoves
<1>1. CASE Reset(t) \/ NextFile(t) \/ LoopEnds(t) \/ Clear(t)
  BY <1>1 DEF Reset, NextFile, LoopEnds, Clear
<1>2. CASE SetPlugins(t) \/ SetLimits(t) \/ Build(t) \/ ReadMode(t)
  BY <1>2 DEF SetPlugins, SetLimits, Build, ReadMode
<1>3. CASE EnterGuard(t) \/ LeaveGuard(t)
  BY <1>3 DEF EnterGuard, LeaveGuard, Save, Announce, Block, Restore, Withdraw
<1>4. CASE BeginRun(t) \/ SeeCancel(t) \/ EndRun(t)
  BY <1>4 DEF BeginRun, SeeCancel, EndRun
<1>5. CASE Reject(t) \/ Keep(t) \/ Drop(t) \/ Finish(t)
  BY <1>5 DEF Reject, Keep, Drop, Finish
<1> QED BY <1>1, <1>2, <1>3, <1>4, <1>5 DEF WorkerStep

\* The guard is used by one thread at a time.
LEMMA GuardIsSerial ==
  ASSUME DesktopInv, NEW t \in Threads, WorkerStep(t)
  PROVE  [SerialNext]_guardVars
<1>1. CASE EnterGuard(t)
  <2>1. Alone(t)
    BY <1>1 DEF EnterGuard, DesktopInv, Resting, Idle, Alone
  <2> QED BY <1>1, <2>1 DEF EnterGuard, SerialNext
<1>2. CASE LeaveGuard(t)
  BY <1>2 DEF LeaveGuard, SerialNext
<1>3. CASE ~EnterGuard(t) /\ ~LeaveGuard(t)
  <2>1. UNCHANGED guardVars
    BY <1>3 DEF WorkerStep, Reset, NextFile, LoopEnds, Clear, SetPlugins,
       SetLimits, Build, ReadMode, BeginRun, SeeCancel, EndRun, Reject, Keep,
       Drop, Finish, guardVars
  <2> QED BY <2>1
<1> QED BY <1>1, <1>2, <1>3

-----------------------------------------------------------------------------
(* What a step of a thread makes of its own request *)

\* Everything a step starts from.
LEMMA AtWork ==
  ASSUME DesktopInv, NEW t \in Threads, ~Idle(t)
  PROVE  /\ Working(t) /\ run[t] \in Run
         /\ state \in Configs /\ config \in Configs /\ cancel \in BOOLEAN
         /\ shown.cut => shown.told
         /\ TypeOK /\ GuardType
<1>1. state \in Configs
  BY DEF DesktopInv, TypeOK, Settings, Configs
<1> QED BY <1>1 DEF DesktopInv, TypeOK, Resting, GuardInv

LEMMA LoopKeeps ==
  ASSUME DesktopInv, NEW t \in Threads,
         Reset(t) \/ NextFile(t) \/ LoopEnds(t)
  PROVE  (~Idle(t) /\ Working(t))'
<1>1. ~Idle(t)
  BY DEF Reset, NextFile, LoopEnds, Idle
<1>2. /\ Working(t) /\ run[t] \in Run
      /\ state \in Configs /\ config \in Configs /\ cancel \in BOOLEAN
      /\ TypeOK /\ GuardType
  BY <1>1, AtWork
<1> USE DEF Worker, Goto, guardVars, Idle, Outside, Working
<1>3. CASE Reset(t)
  BY <1>2, <1>3 DEF Reset, TypeOK, Place, Route, Setup, Cut, Run, Kinds
<1>4. CASE NextFile(t)
  <2>1. run'[t] = [run[t] EXCEPT !.left = @ - 1, !.cut = FALSE, !.raised = FALSE]
    BY <1>2, <1>4 DEF NextFile, TypeOK, Becomes
  <2>3. /\ run[t].kind \in {"queue", "scan"}
        /\ run[t].offline \in BOOLEAN
    BY <1>2, <1>4 DEF NextFile, Route, Run, Kinds
  <2>4. \/ pc'[t] = "clear" /\ run[t].kind = "queue"
        \/ pc'[t] = "enter" /\ run[t].kind = "scan" /\ run[t].offline
        \/ pc'[t] = "run" /\ run[t].kind = "scan" /\ ~run[t].offline
        \/ pc'[t] = "next"
    BY <1>2, <1>4, <2>3 DEF NextFile, TypeOK
  <2> DEFINE r == run[t]
             q == run'[t]
  <2>2. /\ q.kind = r.kind /\ q.offline = r.offline /\ q.asked = r.asked
        /\ q.kept = r.kept /\ q.external = r.external /\ q.cut = FALSE
    BY <1>2, <2>1 DEF Run
  <2> HIDE DEF r, q
  <2> QED BY <1>2, <1>4, <2>3, <2>4, <2>2 DEF NextFile, Place, Route, Setup, Cut, r, q
<1>5. CASE LoopEnds(t)
  <2>1. /\ run'[t] = [run[t] EXCEPT
                !.told = @ \/ (cancel /\ HasMore(run[t].left))]
        /\ pc'[t] = "finish"
    BY <1>2, <1>5 DEF LoopEnds, TypeOK, Becomes
  <2> DEFINE r == run[t]
             q == run'[t]
  <2>2. /\ q.kind = r.kind /\ q.offline = r.offline /\ q.asked = r.asked
        /\ q.kept = r.kept /\ q.external = r.external
    BY <1>2, <2>1 DEF Run
  <2> HIDE DEF r, q
  <2> QED BY <1>2, <1>5, <2>1, <2>2 DEF LoopEnds, Place, Route, Setup, Cut, r, q
<1> QED BY <1>3, <1>4, <1>5

LEMMA SetupKeeps ==
  ASSUME DesktopInv, NEW t \in Threads,
         \/ Clear(t) \/ SetPlugins(t) \/ SetLimits(t)
         \/ Build(t) \/ ReadMode(t) \/ EnterGuard(t)
  PROVE  (~Idle(t) /\ Working(t))'
<1>1. ~Idle(t)
  BY DEF Clear, SetPlugins, SetLimits, Build, ReadMode, EnterGuard, Idle
<1>2. /\ Working(t) /\ run[t] \in Run
      /\ state \in Configs /\ config \in Configs /\ cancel \in BOOLEAN
      /\ TypeOK /\ GuardType
  BY <1>1, AtWork
<1> DEFINE r == run[t]
           q == run'[t]
<1> USE DEF Worker, Goto, guardVars, Idle, Outside, Working
<1>3. CASE Clear(t)
  BY <1>2, <1>3 DEF Clear, TypeOK, Place, Route, Setup, Cut, Run, Kinds
<1>4. CASE SetPlugins(t)
  <2>1. config'.offline = state.offline
    BY <1>2, <1>4 DEF SetPlugins, Configs
  <2> QED BY <1>2, <1>4, <2>1 DEF SetPlugins, TypeOK, Place, Route, Setup, Cut
<1>5. CASE SetLimits(t)
  <2>1. config' = state
    BY <1>2, <1>5 DEF SetLimits, Configs, Setup
  <2> QED BY <1>2, <1>5, <2>1 DEF SetLimits, TypeOK, Place, Route, Setup, Cut
<1>6. CASE Build(t)
  <2>1. /\ q = [r EXCEPT !.engine = config, !.offline = state.offline]
        /\ pc'[t] = IF r.kind = "scan" THEN "next" ELSE "mode"
    BY <1>2, <1>6 DEF Build, TypeOK, Becomes
  <2>2. /\ q.kind = r.kind /\ q.asked = r.asked /\ q.kept = r.kept
        /\ q.external = r.external
        /\ q.offline = state.offline /\ q.engine = config
    BY <1>2, <2>1 DEF Run
  <2> HIDE DEF r, q
  <2> QED BY <1>2, <1>6, <2>1, <2>2 DEF Build, Place, Route, Setup, Cut, r, q
<1>7. CASE ReadMode(t)
  <2>1. /\ q = [r EXCEPT !.offline = state.offline]
        /\ pc'[t] = IF state.offline THEN "enter" ELSE "run"
    BY <1>2, <1>7 DEF ReadMode, TypeOK, Becomes
  <2>2. /\ q.kind = r.kind /\ q.asked = r.asked /\ q.kept = r.kept
        /\ q.external = r.external
        /\ q.offline = state.offline /\ q.engine = r.engine
    BY <1>2, <2>1 DEF Run
  <2> HIDE DEF r, q
  <2> QED BY <1>2, <1>7, <2>1, <2>2 DEF ReadMode, Place, Route, Setup, Cut, r, q
<1>8. CASE EnterGuard(t)
  <2>1. /\ q = r
        /\ \/ pc'[t] = "enter" /\ guard'[t] \in {"saved", "announced"}
           \/ pc'[t] = "run" /\ guard'[t] = "inside"
    BY <1>2, <1>8 DEF EnterGuard, Save, Announce, Block, GuardMoves, TypeOK,
       GuardType
  <2> HIDE DEF r, q
  <2>2. r.offline
    BY <1>2, <1>8
       DEF EnterGuard, Save, Announce, Block, GuardMoves, Setup, Place, r
  <2> QED BY <1>2, <1>8, <2>1, <2>2 DEF EnterGuard, Place, Route, Setup, Cut, r, q
<1> QED BY <1>3, <1>4, <1>5, <1>6, <1>7, <1>8

LEMMA EngineKeeps ==
  ASSUME DesktopInv, NEW t \in Threads,
         BeginRun(t) \/ SeeCancel(t) \/ EndRun(t) \/ LeaveGuard(t)
  PROVE  (~Idle(t) /\ Working(t))'
<1>1. ~Idle(t)
  BY DEF BeginRun, SeeCancel, EndRun, LeaveGuard, Idle
<1>2. /\ Working(t) /\ run[t] \in Run
      /\ state \in Configs /\ config \in Configs /\ cancel \in BOOLEAN
      /\ TypeOK /\ GuardType
  BY <1>1, AtWork
<1> DEFINE r == run[t]
           q == run'[t]
<1> USE DEF Worker, Goto, guardVars, Idle, Outside, Working
<1>3. CASE BeginRun(t) \/ SeeCancel(t)
  <2>1. /\ \E b \in {cancel, TRUE} : q = [r EXCEPT !.cut = b]
        /\ pc[t] \in {"run", "running"} /\ pc'[t] = "running"
        /\ SeeCancel(t) => cancel
        /\ BeginRun(t) => q = [r EXCEPT !.cut = cancel]
        /\ UNCHANGED <<cancel, config, state, guard>>
    BY <1>2, <1>3 DEF BeginRun, SeeCancel, TypeOK, Becomes
  <2>2. /\ q.kind = r.kind /\ q.asked = r.asked /\ q.kept = r.kept
        /\ q.external = r.external /\ q.offline = r.offline
        /\ q.engine = r.engine /\ q.cut => cancel
    BY <1>2, <1>3, <2>1 DEF Run
  <2> HIDE DEF r, q
  <2> QED BY <1>2, <2>1, <2>2 DEF Place, Route, Setup, Cut, r, q
<1>4. CASE EndRun(t)
  <2>1. /\ \E b \in BOOLEAN : q = [r EXCEPT !.raised = b]
        /\ pc[t] = "running"
        /\ pc'[t] = IF guard[t] = "inside" THEN "leave" ELSE "check"
        /\ UNCHANGED <<cancel, config, state, guard>>
    BY <1>2, <1>4 DEF EndRun, TypeOK, Becomes
  <2>2. /\ q.kind = r.kind /\ q.asked = r.asked /\ q.kept = r.kept
        /\ q.external = r.external /\ q.offline = r.offline
        /\ q.engine = r.engine /\ q.cut = r.cut
    BY <1>2, <2>1 DEF Run
  <2> HIDE DEF r, q
  <2> QED BY <1>2, <2>1, <2>2 DEF Place, Route, Setup, Cut, r, q
<1>5. CASE LeaveGuard(t)
  <2>1. /\ q = r /\ pc[t] = "leave"
        /\ \/ pc'[t] = "leave" /\ guard'[t] = "restored"
           \/ pc'[t] = "check" /\ guard'[t] = "outside"
        /\ UNCHANGED <<cancel, config, state>>
    BY <1>2, <1>5
       DEF LeaveGuard, Restore, Withdraw, GuardMoves, TypeOK, GuardType
  <2> HIDE DEF r, q
  <2> QED BY <1>2, <2>1 DEF Place, Route, Setup, Cut, r, q
<1> QED BY <1>3, <1>4, <1>5

LEMMA ReportKeeps ==
  ASSUME DesktopInv, NEW t \in Threads,
         Reject(t) \/ Keep(t) \/ Drop(t) \/ Finish(t)
  PROVE  /\ (Resting(t) \/ (~Idle(t) /\ Working(t)))'
         /\ (shown.cut => shown.told)'
<1>1. ~Idle(t)
  BY DEF Reject, Keep, Drop, Finish, Idle
<1>2. /\ Working(t) /\ run[t] \in Run
      /\ state \in Configs /\ config \in Configs /\ cancel \in BOOLEAN
      /\ shown.cut => shown.told
      /\ TypeOK /\ GuardType
  BY <1>1, AtWork
<1> DEFINE r == run[t]
           q == run'[t]
<1> USE DEF Worker, Goto, guardVars, Idle, Outside, Working
<1>3. CASE Reject(t) /\ r.kind = "single"
  BY <1>2, <1>3 DEF Reject, TypeOK, Becomes, Resting, Place, NoRequest, Defaults,
     Request
<1>4. CASE Reject(t) /\ r.kind # "single"
  <2>1. /\ q = [r EXCEPT !.told = @ \/ ~r.raised]
        /\ pc[t] = "check" /\ pc'[t] = "next"
        /\ UNCHANGED <<cancel, config, state, guard, shown>>
    BY <1>2, <1>4 DEF Reject, TypeOK, Becomes
  <2>2. /\ q.kind = r.kind /\ q.asked = r.asked /\ q.kept = r.kept
        /\ q.external = r.external /\ q.offline = r.offline
    BY <1>2, <2>1 DEF Run
  <2> HIDE DEF r, q
  <2> QED BY <1>2, <1>4, <2>1, <2>2 DEF Place, Route, Setup, Cut, r, q
<1>5. CASE Keep(t) \/ Drop(t)
  <2>1. /\ pc[t] = "check" /\ pc'[t] \in {"finish", "next"}
        /\ pc'[t] = "next" => r.kind # "single"
        /\ ~Rejected(t)
        /\ UNCHANGED <<cancel, config, state, guard, shown>>
    BY <1>2, <1>5 DEF Keep, Drop, TypeOK
  <2>2. /\ q.kind = r.kind /\ q.asked = r.asked /\ q.offline = r.offline
        /\ q.kept = r.kept
             \/ q.kept = r.kept \cup {IF r.cut THEN "cut" ELSE "whole"}
        /\ q.external = (r.external \/ External(t))
    <3>1. CASE Keep(t)
      <4>1. q = [r EXCEPT
                   !.kept = @ \cup {IF r.cut THEN "cut" ELSE "whole"},
                   !.external = @ \/ External(t)]
        BY <1>2, <3>1 DEF Keep, TypeOK, Becomes
      <4> QED BY <1>2, <4>1 DEF Run
    <3>2. CASE Drop(t)
      <4>1. q = [r EXCEPT !.external = @ \/ External(t)]
        BY <1>2, <3>2 DEF Drop, TypeOK, Becomes
      <4> QED BY <1>2, <4>1 DEF Run
    <3> QED BY <1>5, <3>1, <3>2
  <2>3. External(t) => ~state.offline
    BY <1>2, <2>1 DEF External, Setup
  <2>4. r.cut => r.kind = "scan" /\ cancel
    BY <1>2, <2>1 DEF Rejected, Cut
  <2> HIDE DEF r, q
  <2> QED
    BY <1>2, <2>1, <2>2, <2>3, <2>4 DEF Place, Route, Setup, Cut, r, q
<1>6. CASE Finish(t)
  <2>1. Resting(t)'
    BY <1>2, <1>6 DEF Finish, TypeOK, Becomes, Resting, Place, NoRequest,
       Defaults, Request
  <2>2. (shown.cut => shown.told)'
    BY <1>2, <1>6 DEF Finish, Cut
  <2> QED BY <2>1, <2>2
<1> QED BY <1>3, <1>4, <1>5, <1>6

-----------------------------------------------------------------------------
(* The invariant, and what follows from it *)

LEMMA DesktopInvInit == Init => DesktopInv
<1> SUFFICES ASSUME Init PROVE DesktopInv
  OBVIOUS
<1>1. TypeOK /\ GuardInv
  BY SessionTypeInit, GuardInvInit DEF Init
<1>2. \A t \in Threads : Resting(t)
  BY DEF Init, GuardInit, Resting, Idle, Outside
<1> QED BY <1>1, <1>2 DEF DesktopInv, Init

LEMMA WorkerKeeps ==
  ASSUME DesktopInv, NEW t \in Threads, WorkerStep(t)
  PROVE  DesktopInv'
<1>1. ~Idle(t)
  BY DEF WorkerStep, Reset, NextFile, LoopEnds, Clear, SetPlugins, SetLimits,
     Build, ReadMode, EnterGuard, BeginRun, SeeCancel, EndRun, LeaveGuard,
     Reject, Keep, Drop, Finish, Idle
<1>2. TypeOK'
  BY TypeStep DEF DesktopInv, Next
<1>3. GuardInv'
  BY GuardIsSerial, GuardInvStep DEF DesktopInv
<1>4. Local(t)
  BY WorkerIsLocal DEF DesktopInv, GuardInv
<1>5. /\ (Resting(t) \/ (~Idle(t) /\ Working(t)))'
      /\ (shown.cut => shown.told)'
  <2>1. CASE Reject(t) \/ Keep(t) \/ Drop(t) \/ Finish(t)
    BY <2>1, ReportKeeps
  <2>2. CASE ~(Reject(t) \/ Keep(t) \/ Drop(t) \/ Finish(t))
    <3>1. shown' = shown
      BY <2>2 DEF WorkerStep, Reset, NextFile, LoopEnds, Clear, SetPlugins,
         SetLimits, Build, ReadMode, EnterGuard, BeginRun, SeeCancel, EndRun,
         LeaveGuard
    <3>2. (~Idle(t) /\ Working(t))'
      BY <2>2, LoopKeeps, SetupKeeps, EngineKeeps DEF WorkerStep
    <3> QED BY <3>1, <3>2 DEF DesktopInv
  <2> QED BY <2>1, <2>2
<1> QED BY <1>1, <1>2, <1>3, <1>4, <1>5, OthersRest

LEMMA DesktopInvStep ==
  ASSUME Desktop
  PROVE  DesktopInv /\ [Next]_vars => DesktopInv' /\ [SerialNext]_guardVars
<1> SUFFICES ASSUME DesktopInv, [Next]_vars
             PROVE  DesktopInv' /\ [SerialNext]_guardVars
  OBVIOUS
<1>1. TypeOK'
  BY TypeStep DEF DesktopInv
<1>2. ASSUME NEW t \in Threads, WorkerStep(t)
      PROVE  DesktopInv' /\ [SerialNext]_guardVars
  BY <1>2, WorkerKeeps, GuardIsSerial
<1>3. ASSUME NEW t \in Threads, NEW k \in Kinds, Start(t, k)
      PROVE  DesktopInv' /\ [SerialNext]_guardVars
  <2>1. UNCHANGED guardVars
    BY <1>3 DEF Start
  <2>2. GuardInv'
    BY <2>1, GuardInvStep DEF DesktopInv
  <2>3. \A u \in Threads : Resting(u)
    BY <1>3 DEF Start, MayStart, DesktopInv, Resting
  <2>4. \A u \in Threads \ {t} : Resting(u)'
    BY <1>3, <2>1, <2>3
       DEF Start, DesktopInv, TypeOK, Becomes, Goto, Resting, Idle, Outside,
           guardVars, NoRequest, Defaults, Request
  <2>5. /\ run'[t] = Request(k, state)
        /\ pc'[t] = IF k = "single" THEN "clear" ELSE "reset"
        /\ UNCHANGED <<state, config, cancel, shown, guard>>
        /\ Outside(t)
    BY <1>3, <2>1, <2>3
       DEF Start, DesktopInv, TypeOK, Becomes, Goto, Resting, guardVars
  <2>6. (~Idle(t) /\ Working(t))'
    <3> DEFINE q == run'[t]
    <3>1. /\ q.kind = k /\ q.asked = state /\ q.external = FALSE
          /\ q.kept = {}
      BY <2>5 DEF Request
    <3>2. pc'[t] \in {"clear", "reset"}
          /\ (k = "single" <=> pc'[t] = "clear")
      BY <2>5
    <3> HIDE DEF q
    <3>3. Place(t)'
      BY <2>5, <3>2 DEF Place, Outside
    <3>4. Route(t)' /\ Cut(t)'
      BY <3>1, <3>2 DEF Route, Cut, Kinds, q
    <3>5. Setup(t)'
      BY <2>5, <3>1, <3>2 DEF Setup, Kinds, q
    <3> QED BY <3>2, <3>3, <3>4, <3>5 DEF Working, Idle
  <2> QED
    BY <1>1, <2>1, <2>2, <2>4, <2>5, <2>6 DEF DesktopInv
<1>4. ASSUME NEW c \in Settings, Toggle(c)
      PROVE  DesktopInv' /\ [SerialNext]_guardVars
  <2>1. UNCHANGED <<guardVars, pc, run, shown>>
    BY <1>4 DEF Toggle
  <2>2. GuardInv'
    BY <2>1, GuardInvStep DEF DesktopInv
  <2>3. \A u \in Threads : Resting(u)
    BY <1>4 DEF Toggle, MayToggle, DesktopInv, Resting
  <2>4. \A u \in Threads : Resting(u)'
    BY <2>1, <2>3
       DEF Resting, Idle, Outside, guardVars, NoRequest, Defaults, Request
  <2> QED BY <1>1, <2>1, <2>2, <2>4 DEF DesktopInv
<1>5. CASE Escape
  <2>1. UNCHANGED <<guardVars, pc, run, shown, state, config>> /\ cancel' = TRUE
    BY <1>5 DEF Escape
  <2>2. GuardInv'
    BY <2>1, GuardInvStep DEF DesktopInv
  <2>3. ASSUME NEW u \in Threads
        PROVE  /\ Resting(u) => Resting(u)'
               /\ ~Idle(u) /\ Working(u) => (~Idle(u) /\ Working(u))'
    BY <2>1 DEF Resting, Working, Place, Route, Setup, Cut, Idle, Outside,
       guardVars, NoRequest, Defaults, Request
  <2> QED BY <1>1, <2>1, <2>2, <2>3 DEF DesktopInv
<1>6. CASE UNCHANGED vars
  <2>1. UNCHANGED <<guardVars, pc, run, shown, state, config, cancel>>
    BY <1>6 DEF vars, sessionVars
  <2>2. GuardInv'
    BY <2>1, GuardInvStep DEF DesktopInv
  <2>3. ASSUME NEW u \in Threads
        PROVE  /\ Resting(u) => Resting(u)'
               /\ ~Idle(u) /\ Working(u) => (~Idle(u) /\ Working(u))'
    BY <2>1 DEF Resting, Working, Place, Route, Setup, Cut, Idle, Outside,
       guardVars, NoRequest, Defaults, Request
  <2> QED BY <1>1, <2>1, <2>2, <2>3 DEF DesktopInv
<1> QED BY <1>2, <1>3, <1>4, <1>5, <1>6 DEF Next

LEMMA DesktopInvariant ==
  ASSUME Desktop
  PROVE  Spec => []DesktopInv
<1>1. DesktopInv /\ [Next]_vars => DesktopInv'
  BY DesktopInvStep
<1> QED BY DesktopInvInit, <1>1, PTL DEF Spec

\* The desktop session uses the guard as block_network needs it used: it
\* implements the guard of one thread at a time.
THEOREM DesktopGuardsSerially ==
  ASSUME Desktop
  PROVE  Spec => SerialGuard
<1>1. Init => GuardInit
  BY DEF Init
<1>2. DesktopInv /\ [Next]_vars => [SerialNext]_guardVars
  BY DesktopInvStep
<1> QED BY <1>1, <1>2, DesktopInvariant, PTL DEF Spec, SerialGuard

\* In the desktop session the network is blocked while an engine runs for an
\* offline request (_analyze_data, DeepScanner.scan).
THEOREM DesktopOfflineRuns ==
  ASSUME Desktop
  PROVE  Spec => []OfflineRunGuarded
<1>1. DesktopInv => OfflineRunGuarded
  <2> SUFFICES ASSUME DesktopInv, NEW t \in Threads,
                      pc[t] = "running", run[t].asked.offline
               PROVE  installed # Real
    BY DEF OfflineRunGuarded
  <2>1. Working(t) /\ GuardInv
    BY DEF DesktopInv, Resting, Idle
  <2>2. guard[t] = "inside"
    BY <2>1 DEF Working, Place, Setup
  <2> QED BY <2>1, <2>2, GuardAssumption DEF GuardInv, Outside
<1> QED BY <1>1, DesktopInvariant, PTL

\* Once no worker runs the network is back, whatever raised (block_network's
\* finally clause).
THEOREM DesktopNetworkBack ==
  ASSUME Desktop
  PROVE  Spec => []NetworkBack
<1>1. DesktopInv => NetworkBack
  BY DEF DesktopInv, NetworkBack, Resting, GuardInv, Reopened
<1> QED BY <1>1, DesktopInvariant, PTL

\* In the desktop session an analysis runs with the settings it was asked for
\* (_configured_engine, _analyze_data, analyze_path).
THEOREM DesktopRunsAsAsked ==
  ASSUME Desktop
  PROVE  Spec => []RunsAsAsked
<1>1. DesktopInv => RunsAsAsked
  BY DEF DesktopInv, RunsAsAsked, Resting, Idle, Working, Setup
<1> QED BY <1>1, DesktopInvariant, PTL

\* In the desktop session a result that was cut short is dropped or says so
\* (_analyze_data, DeepScanner.scan).
THEOREM DesktopCutIsTold ==
  ASSUME Desktop
  PROVE  Spec => []CutIsTold
<1>1. NoRequest.kept = {}
  BY DEF NoRequest, Request
<1>2. DesktopInv => CutIsTold
  BY <1>1 DEF DesktopInv, CutIsTold, Resting, Working, Cut
<1> QED BY <1>2, DesktopInvariant, PTL
=============================================================================
