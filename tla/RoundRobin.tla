---------------------------- MODULE RoundRobin ----------------------------
(***************************************************************************)
(* What the scheduler promises the tasks: they share the CPU in the order  *)
(* of their creation.  The CPU passes from a task to the first live one    *)
(* after it, cyclically, and a task that has exited is never given it      *)
(* again.  Tasks are named by their place in that order.                   *)
(***************************************************************************)
EXTENDS Integers

CONSTANTS
  MaxTasks,   \* a natural number
  Boot        \* not the name of a task

VARIABLES
  n,      \* how many tasks exist
  dead,   \* those that have exited
  cur     \* whose turn it is: Boot until the first task is started

vars == <<n, dead, cur>>

Created == 0 .. n - 1

(* The tasks strictly after a and strictly before b in the cyclic order.   *)
Between(a, b) ==
  IF a < b THEN {k \in Created : a < k /\ k < b}
           ELSE {k \in Created : a < k \/ k < b}

----------------------------------------------------------------------------
Init == n = 0 /\ dead = {} /\ cur = Boot

Create ==
  /\ n < MaxTasks
  /\ n' = n + 1
  /\ UNCHANGED <<dead, cur>>

Start ==
  /\ cur = Boot /\ n > 0
  /\ cur' = 0
  /\ UNCHANGED <<n, dead>>

Exit ==
  /\ cur \in Created \ dead
  /\ dead' = dead \cup {cur}
  /\ UNCHANGED <<n, cur>>

Switch ==
  /\ cur \in Created
  /\ \E s \in Created \ dead :
       /\ s # cur
       /\ Between(cur, s) \subseteq dead
       /\ cur' = s
  /\ UNCHANGED <<n, dead>>

Next == Create \/ Start \/ Exit \/ Switch

Spec == Init /\ [][Next]_vars

----------------------------------------------------------------------------
(* How many places after the running task another one is.                  *)
Places(t) == IF cur <= t THEN t - cur ELSE t - cur + MaxTasks

(* Nobody is overtaken: whoever takes the CPU from whomever, and whatever  *)
(* has been created or has exited since, each live task that waits for the *)
(* CPU gets it or comes nearer to it.  So it waits for less than MaxTasks  *)
(* switches.                                                               *)
Nearer ==
  cur \in Created /\ cur' # cur =>
    \A t \in Created \ dead : t # cur => Places(t)' < Places(t)

ComesNearer == [][Nearer]_vars
=============================================================================
