---------------------------- MODULE OfflineGuard ----------------------------
(***************************************************************************)
(* The offline guard, titan_decoder/core/offline_guard.py: block_network   *)
(* replaces the socket functions of the process, and puts back on leaving  *)
(* what it found on entering.  There is no lock and no count of users.     *)
(*                                                                         *)
(* The three functions go through the same steps, so one stands for them:  *)
(* installed is Real, or the thread whose blocker is in place.             *)
(***************************************************************************)
CONSTANTS
    Threads,        \* threads of the process
    Real            \* the socket functions of Python

ASSUME GuardAssumption == Real \notin Threads

VARIABLES
    installed,      \* socket.socket.connect and the other two
    blocked,        \* _NETWORK_BLOCKED
    guard,          \* guard[t]: where t is in block_network
    old             \* old[t]: the functions t found

guardVars == <<installed, blocked, guard, old>>

GuardInit ==
    /\ installed = Real /\ blocked = FALSE
    /\ guard = [t \in Threads |-> "outside"]
    /\ old = [t \in Threads |-> Real]

GuardMoves(t, from, to) ==
    guard[t] = from /\ guard' = [guard EXCEPT ![t] = to]

Save(t) ==
    /\ GuardMoves(t, "outside", "saved")
    /\ old' = [old EXCEPT ![t] = installed]
    /\ UNCHANGED <<installed, blocked>>

Announce(t) ==
    /\ GuardMoves(t, "saved", "announced")
    /\ blocked' = TRUE
    /\ UNCHANGED <<installed, old>>

Block(t) ==
    /\ GuardMoves(t, "announced", "inside")
    /\ installed' = t
    /\ UNCHANGED <<blocked, old>>

\* The finally clause: however the body ended.
Restore(t) ==
    /\ GuardMoves(t, "inside", "restored")
    /\ installed' = old[t]
    /\ UNCHANGED <<blocked, old>>

Withdraw(t) ==
    /\ GuardMoves(t, "restored", "outside")
    /\ blocked' = FALSE
    /\ UNCHANGED <<installed, old>>

Outside(t) == guard[t] = "outside"

Alone(t) == \A u \in Threads \ {t} : Outside(u)

\* The guard as it is used when one thread at a time enters it.
SerialNext ==
    \E t \in Threads :
      \/ Alone(t) /\ Save(t)
      \/ Announce(t) \/ Block(t) \/ Restore(t) \/ Withdraw(t)

SerialGuard == GuardInit /\ [][SerialNext]_guardVars

-----------------------------------------------------------------------------
(* Properties *)

\* Inside the guard the network is blocked, and is_network_blocked says so.
Guarded ==
    \A t \in Threads : guard[t] = "inside" => installed # Real /\ blocked

\* When nobody is inside the network is back.
Reopened == (\A t \in Threads : Outside(t)) => installed = Real /\ ~blocked
=============================================================================
