---------------------------- MODULE SchedProofs ----------------------------
(***************************************************************************)
(* Proofs about Sched, for every number of tasks, every slice and every    *)
(* number of failed forks.                                                 *)
(*                                                                         *)
(* One inductive invariant, IInv, carries all of them.  Its parts lean on  *)
(* each other: that a critical section is never preempted needs the exact  *)
(* value of preempt_count; that the ring may be walked needs do_fork to be *)
(* in no other hands meanwhile, which is the former; that the walk ends    *)
(* needs kernel_process to be alive; that a resumed task finds interrupts  *)
(* as it must needs every waiting task to stand where schedule_tail comes  *)
(* next.  One lemma per action shows that the action preserves it, NextInv *)
(* collects them, and each theorem at the end follows from Invariance,     *)
(* the last one with an argument about steps of its own.                   *)
(***************************************************************************)
EXTENDS Sched, TLAPS

(* The constants, as facts about numbers.                                  *)
LEMMA ConstantFacts ==
  /\ MaxTasks \in Nat /\ MaxTasks >= 2
  /\ TaskSlice \in Nat /\ TaskSlice > 0
  /\ MaxFailedForks \in Nat
  /\ Boot = -1 /\ NoTask = -2
  /\ Levels = {1, 2, 3}
  /\ \A t : t \in Tasks <=> t \in Int /\ 0 <= t /\ t < MaxTasks
  /\ \A t : t \in Procs <=> t \in Tasks \/ t = Boot
BY SchedAssumption DEF Boot, NoTask, Levels, Tasks, Procs

(* What Goto does, point by point.                                         *)
LEMMA GotoFacts ==
  ASSUME TypeOK, NEW l \in Loc, frame' = Goto(l)
  PROVE  /\ frame' \in [Procs -> [Levels -> Loc]]
         /\ frame'[current][depth[current]] = l
         /\ \A t \in Procs, d \in Levels :
              t # current \/ d # depth[current] => frame'[t][d] = frame[t][d]
BY ConstantFacts DEF TypeOK, Goto

(* Code outside schedule is always the first activation of its task.       *)
LEMMA FirstActivation ==
  ASSUME IInv, Top(current) \notin SchedLocs
  PROVE  current \in Procs /\ depth[current] = 1 /\ Top(current) = frame[current][1]
<1>1. current \in Procs /\ depth[current] \in {1, 2}
  BY DEF IInv, TypeOK
<1>2. depth[current] # 2
  BY <1>1 DEF IInv, StackShape, Top
<1> QED
  BY <1>1, <1>2 DEF Top

(* Who is in a critical section is the task that runs.                     *)
LEMMA CriticalRuns ==
  ASSUME IInv, NEW t \in Procs, frame[t][1] \in Critical \ {"tail"}
  PROVE  t = current /\ depth[t] = 1
<1>1. depth[t] \in {1, 2}
  BY DEF IInv, TypeOK
<1>2. depth[t] = 1
  BY <1>1 DEF IInv, NeverPreemptedInside
<1>3. t = current
  BY <1>2 DEF IInv, OthersWait, Top, Critical, ForkLocs, SchedLocs, ResumePoints
<1> QED BY <1>2, <1>3

(* kernel_main starts with an empty table and nothing owed.                *)
LEMMA InitInv == Init => IInv
<1> SUFFICES ASSUME Init PROVE IInv
  OBVIOUS
<1>1. TypeOK
  BY ConstantFacts DEF Init, ZeroedRam, TypeOK, Loc, Critical, ForkLocs, SchedLocs, Bodies, Fns
<1>2. \A t \in Procs :
        /\ depth[t] = 1 /\ frame[t][1] = (IF t = Boot THEN "kmain" ELSE "none")
        /\ state[t] = "RUNNING" /\ counter[t] = 0 /\ preempt_count[t] = 0
        /\ flag[t] = FALSE /\ failed[t] = 0 /\ newTask[t] = NoTask
        /\ \A d \in Levels : last[t][d] = NoTask
  BY ConstantFacts DEF Init, ZeroedRam
<1>3. \A t \in Procs : frame[t][1] \notin Critical
  BY <1>2 DEF Critical, ForkLocs, SchedLocs
<1>4. StackShape /\ OthersWait /\ NeverPreemptedInside
  BY SMTT(30), <1>2 DEF Init, StackShape, OthersWait, NeverPreemptedInside, Top
<1>5. PreemptCountBalanced
  BY <1>2, <1>3 DEF PreemptCountBalanced
<1>6. PagesTaken
  <2>1. ~Publishing
    BY <1>2 DEF Publishing
  <2>2. \A i \in Tasks : task[i] = NoTask
    BY DEF Init
  <2> QED BY <1>2, <2>1, <2>2, ConstantFacts DEF Init, PagesTaken
<1>7. RingMatchesTable
  <2>1. ~\E t \in Procs : frame[t][1] = "fork_link"
    BY <1>2
  <2>2. Linked = 0
    BY <2>1 DEF Init, Linked
  <2> QED BY <2>2 DEF RingMatchesTable
<1>8. BootPhase
  BY <1>2, ConstantFacts DEF Init, BootPhase
<1>9. KernelProcessLives /\ ZombiesExit
  BY <1>2, ConstantFacts DEF KernelProcessLives, ZombiesExit
<1>10. WalkedPastZombies /\ InterruptsOnInBodies
  BY <1>2, ConstantFacts DEF Init, WalkedPastZombies, InterruptsOnInBodies, At, Top
<1>11. LastPending /\ SliceTidiedOrOwed
  BY <1>2 DEF LastPending, SliceTidiedOrOwed
<1> QED
  BY <1>1, <1>4, <1>5, <1>6, <1>7, <1>8, <1>9, <1>10, <1>11 DEF IInv

----------------------------------------------------------------------------
(* Most steps only move the first activation of the running task from one  *)
(* place to another, outside the places where the table, a switch or the   *)
(* birth of a task is under way.                                           *)
Crit(l) == IF l \in Critical THEN 1 ELSE 0

Plain == Loc \ {"none", "dead", "born", "tail", "fork_publish", "fork_link"}

(* A step that only moves the running activation to another place, and may *)
(* change the interrupt mask: what such a step has to observe.             *)
LEMMA MoveStep ==
  ASSUME IInv, NEW l \in Plain, Top(current) \in Plain,
         depth[current] = 1, current # 1,
         irq_on' \in BOOLEAN,
         counter' \in [Procs -> 0 .. TaskSlice], flag' \in [Procs -> BOOLEAN],
         preempt_count' \in [Procs -> Int], failed' \in [Procs -> 0 .. MaxFailedForks],
         pPrev' \in [Procs -> Tasks \cup {NoTask}],
         frame' = Goto(l),
         UNCHANGED <<current, depth, tableVars, fn, newTask, last>>,
         state' \in [Procs -> {"RUNNING", "ZOMBIE"}],
         \A t \in Procs \ {current} :
           /\ preempt_count'[t] = preempt_count[t] /\ failed'[t] = failed[t]
           /\ counter'[t] = counter[t] /\ flag'[t] = flag[t] /\ state'[t] = state[t],
         preempt_count'[current] - failed'[current]
           = preempt_count[current] - failed[current] + Crit(l) - Crit(Top(current)),
         IF current = Boot
         THEN /\ l \in {"kmain", "fork_alloc"} /\ (l = "fork_alloc" => nr_tasks < 2)
              /\ counter' = counter /\ flag' = flag
         ELSE l # "kmain",
         l = "pick" => pPrev'[current] = current,
         state'[current] = "ZOMBIE" => l \in {"exit_free", "exit_sched", "pick"},
         l \in Bodies \cup {"enable"} => irq_on'
  PROVE  IInv'
<1> USE DEF tableVars
<1>1. /\ current \in Procs /\ depth \in [Procs -> 1 .. 2] /\ l \in Loc
      /\ Top(current) = frame[current][1] /\ 1 \in Levels /\ 2 \in Levels
  BY ConstantFacts DEF IInv, TypeOK, Top, Plain
<1>2. /\ frame'[current][1] = l
      /\ \A t \in Procs, d \in Levels :
           t # current \/ d # 1 => frame'[t][d] = frame[t][d]
  BY <1>1, GotoFacts DEF IInv
<1>3. \A t \in Procs \ {current} : Top(t)' = Top(t)
  BY <1>1, <1>2, ConstantFacts DEF Top
<1>4. StackShape' /\ OthersWait' /\ NeverPreemptedInside'
  BY <1>1, <1>2, <1>3 DEF IInv, StackShape, OthersWait, NeverPreemptedInside
<1>5. PreemptCountBalanced'
  <2> SUFFICES ASSUME NEW t \in Procs
               PROVE  preempt_count'[t] = failed'[t] + (depth[t] - 1) + Crit(frame'[t][1])
    BY DEF PreemptCountBalanced, Crit
  <2>1. preempt_count[t] = failed[t] + (depth[t] - 1) + Crit(frame[t][1])
    BY DEF IInv, PreemptCountBalanced, Crit
  <2>2. /\ preempt_count[t] \in Int /\ failed[t] \in Int /\ depth[t] \in Int
        /\ preempt_count'[t] \in Int /\ failed'[t] \in Int
        /\ Crit(frame[t][1]) \in Int /\ Crit(frame'[t][1]) \in Int
    BY ConstantFacts DEF IInv, TypeOK, Crit
  <2>3. CASE t = current
    BY <1>1, <1>2, <2>1, <2>2, <2>3
  <2>4. CASE t # current
    BY <1>1, <1>2, <2>1, <2>2, <2>4
  <2> QED BY <2>3, <2>4
<1>6. \A t \in Procs, m \in {"none", "fork_publish", "fork_link"} :
        frame'[t][1] = m <=> frame[t][1] = m
  BY <1>1, <1>2 DEF Plain
<1>7. Publishing' = Publishing /\ Linked' = Linked
  BY <1>6 DEF Publishing, Linked
<1>8. PagesTaken'
  BY <1>6, <1>7, ConstantFacts DEF IInv, PagesTaken
<1>9. RingMatchesTable'
  BY <1>7 DEF IInv, RingMatchesTable
<1>10. BootPhase'
  <2>1. Boot \in Procs /\ \A t \in Tasks : t \in Procs /\ t # Boot
    BY ConstantFacts
  <2>2. CASE current = Boot
    <3>1. /\ frame'[Boot][1] \in {"kmain", "fork_alloc"}
          /\ frame'[Boot][1] = "fork_alloc" => nr_tasks < 2
      BY <1>1, <1>2, <2>2
    <3>2. \A t \in Tasks : frame'[t][1] = frame[t][1]
      BY <1>1, <1>2, <2>1, <2>2
    <3> QED BY <2>2, <3>1, <3>2 DEF IInv, BootPhase, ForkLocs
  <2>3. CASE current # Boot
    <3>1. frame'[Boot][1] = frame[Boot][1]
      BY <1>1, <1>2, <2>1, <2>3
    <3>2. \A t \in Tasks : frame'[t][1] \notin {"kmain", "dead"}
      BY <1>1, <1>2, <2>1, <2>3 DEF IInv, BootPhase, Plain
    <3> QED BY <2>3, <3>1, <3>2 DEF IInv, BootPhase
  <2> QED BY <2>2, <2>3
<1>11. WalkedPastZombies'
  <2> SUFFICES ASSUME At("pick")' PROVE WalkedPastZombies'
    BY DEF WalkedPastZombies
  <2>1. l = "pick"
    BY <1>1, <1>2 DEF At, Top
  <2>2. current \in Tasks /\ current < nr_tasks
    BY <2>1, <1>1, ConstantFacts DEF IInv, BootPhase
  <2>3. Passed(current, current) = {}
    BY <2>2, ConstantFacts DEF Passed
  <2> QED BY <2>1, <2>2, <2>3 DEF WalkedPastZombies, Passed
<1>12. KernelProcessLives'
  <2>1. 1 \in Procs \ {current}
    BY ConstantFacts
  <2>2. frame'[1][1] = frame[1][1]
    BY <1>1, <1>2, <2>1
  <2> QED BY <2>2 DEF IInv, KernelProcessLives
<1>13. ZombiesExit'
  BY <1>1, <1>2, <1>3 DEF IInv, ZombiesExit, Top
<1>14. InterruptsOnInBodies'
  BY <1>1, <1>2 DEF InterruptsOnInBodies, Top
<1>15. LastPending'
  BY <1>1, <1>2 DEF IInv, LastPending, ResumePoints, Plain
<1>16. SliceTidiedOrOwed'
  BY DEF IInv, SliceTidiedOrOwed
<1>17. TypeOK'
  <2>1. preempt_count' \in [Procs -> 0 .. MaxFailedForks + 1]
    <3> SUFFICES ASSUME NEW t \in Procs
                 PROVE  preempt_count'[t] \in 0 .. MaxFailedForks + 1
      OBVIOUS
    <3>1. /\ failed'[t] \in 0 .. MaxFailedForks /\ preempt_count'[t] \in Int
          /\ depth[t] \in 1 .. 2 /\ depth' = depth
      BY <1>1
    <3>2. depth[t] > 1 => frame'[t][1] \notin Critical
      BY <1>4 DEF NeverPreemptedInside
    <3>3. preempt_count'[t] = failed'[t] + (depth[t] - 1)
                               + (IF frame'[t][1] \in Critical THEN 1 ELSE 0)
      BY <1>5 DEF PreemptCountBalanced
    <3> QED BY <3>1, <3>2, <3>3, ConstantFacts
  <2>2. frame' \in [Procs -> [Levels -> Loc]]
    BY <1>1, GotoFacts DEF IInv
  <2> QED BY <2>1, <2>2 DEF IInv, TypeOK
<1> QED
  BY <1>17, <1>4, <1>5, <1>8, <1>9, <1>10, <1>11, <1>12, <1>13, <1>14, <1>15, <1>16 DEF IInv

----------------------------------------------------------------------------
(* The pieces the steps are made of.                                       *)
LEMMA TickFacts ==
  ASSUME TypeOK, task_tick
  PROVE  /\ counter' \in [Procs -> 0 .. TaskSlice] /\ flag' \in [Procs -> BOOLEAN]
         /\ \A t \in Procs \ {current} : counter'[t] = counter[t] /\ flag'[t] = flag[t]
<1> DEFINE c == counter[current] + 1
<1>1. current \in Procs /\ c \in Nat /\ (IF c < TaskSlice THEN c ELSE TaskSlice) \in 0 .. TaskSlice
  BY ConstantFacts DEF TypeOK
<1>2. (flag[current] \/ c >= TaskSlice) \in BOOLEAN
  OBVIOUS
<1> HIDE DEF c
<1>3. /\ counter' = [counter EXCEPT ![current] = IF c < TaskSlice THEN c ELSE TaskSlice]
      /\ flag' = [flag EXCEPT ![current] = @ \/ c >= TaskSlice]
  BY DEF task_tick, c
<1> QED BY <1>1, <1>2, <1>3 DEF TypeOK

(* The walk of pick_next_task starts where it has passed nobody.           *)
LEMMA StartPickFacts ==
  ASSUME TypeOK, current # Boot, StartPick
  PROVE  /\ pPrev' \in [Procs -> Tasks \cup {NoTask}]
         /\ pPrev'[current] = current
<1>1. current \in Procs /\ current \in Tasks \cup {NoTask}
  BY ConstantFacts DEF TypeOK
<1> QED BY <1>1 DEF TypeOK, StartPick


----------------------------------------------------------------------------
(* The steps that only move the running task on.                           *)

(* The steps that touch no count, no slice and no pointer.                 *)
LEMMA QuietStep ==
  ASSUME IInv, Top(current) \in {"kfn", "ret_to_user", "finish", "sys_ret", "user", "sys"},
         NEW l \in {"ret_to_user", "user", "sys", "sys_ret"}, frame' = Goto(l),
         current # 1, irq_on' \in BOOLEAN, l # "ret_to_user" => irq_on',
         UNCHANGED <<current, tableVars, state, counter, preempt_count, flag, depth, last,
                     pPrev, forkVars>>
  PROVE  IInv'
<1> USE DEF tableVars, forkVars
<1>1. /\ current \in Procs /\ depth[current] = 1 /\ Top(current) = frame[current][1]
      /\ l \in Plain /\ Top(current) \in Plain
  BY FirstActivation DEF SchedLocs, Plain, Loc, Bodies, Critical, ForkLocs
<1>2. current # Boot /\ state[current] # "ZOMBIE"
  BY <1>1 DEF IInv, BootPhase, ZombiesExit, ForkLocs
<1>3. /\ counter' \in [Procs -> 0 .. TaskSlice] /\ flag' \in [Procs -> BOOLEAN]
      /\ preempt_count' \in [Procs -> Int] /\ failed' \in [Procs -> 0 .. MaxFailedForks]
      /\ pPrev' \in [Procs -> Tasks \cup {NoTask}]
      /\ state' \in [Procs -> {"RUNNING", "ZOMBIE"}]
  BY ConstantFacts DEF IInv, TypeOK
<1>4. preempt_count[current] - failed[current] \in Int
  BY <1>1, ConstantFacts DEF IInv, TypeOK
<1>5. preempt_count'[current] - failed'[current]
        = preempt_count[current] - failed[current] + Crit(l) - Crit(Top(current))
  BY <1>4 DEF Crit, Critical, ForkLocs, SchedLocs
<1>6. l \notin {"pick", "kmain", "enable"} /\ (l \in Bodies => irq_on')
  BY <1>1 DEF Bodies, ForkLocs
<1> QED BY <1>1, <1>2, <1>3, <1>5, <1>6, MoveStep

(* kernel_thread returns to ret_to_user.                                   *)
LEMMA KthreadReturnInv == IInv /\ KthreadReturn => IInv'
<1> SUFFICES ASSUME IInv, KthreadReturn PROVE IInv'
  OBVIOUS
<1>1. Top(current) = "kfn" /\ current # 1
  BY FirstActivation DEF IInv, KernelProcessLives, KthreadReturn, At, SchedLocs
<1> QED BY <1>1, QuietStep DEF KthreadReturn, IInv, TypeOK

(* Only kernel_process is task 1, and it stays in its function.            *)
LEMMA NotKernelProcess ==
  ASSUME IInv, Top(current) \in {"ret_to_user", "finish", "sys_ret", "user", "sys"}
  PROVE  current # 1
BY FirstActivation DEF IInv, KernelProcessLives, SchedLocs

(* kernel_exit 0 goes to EL0.                                              *)
LEMMA KernelExitInv == IInv /\ KernelExit => IInv'
BY NotKernelProcess, QuietStep DEF KernelExit, At

(* ret_from_syscall goes to EL0.                                           *)
LEMMA RetFromSyscallInv == IInv /\ RetFromSyscall => IInv'
BY NotKernelProcess, QuietStep DEF RetFromSyscall, At

(* A system call is entered.                                               *)
LEMMA El0SvcInv == IInv /\ El0Svc => IInv'
BY NotKernelProcess, QuietStep DEF El0Svc, At, IInv, TypeOK, InterruptsOnInBodies, Bodies

(* sys_write and sys_malloc return.                                        *)
LEMMA SysOtherInv == IInv /\ SysOther => IInv'
BY NotKernelProcess, QuietStep DEF SysOther, At, IInv, TypeOK, InterruptsOnInBodies, Bodies

(* A timer interrupt comes from EL0, with interrupts masked.               *)
LEMMA El0IrqInv == IInv /\ El0Irq => IInv'
<1> SUFFICES ASSUME IInv, El0Irq PROVE IInv'
  OBVIOUS
<1>1. /\ current \in Procs /\ depth[current] = 1
      /\ Top(current) = frame[current][1] /\ frame[current][1] \in {"user"}
  BY FirstActivation DEF El0Irq, At, SchedLocs
<1>2. current # 1 /\ current # Boot
  BY <1>1, ConstantFacts DEF IInv, KernelProcessLives, BootPhase, ForkLocs
<1>3. PICK l \in Plain : l = "ret_to_user" /\ frame' = Goto(l)
  BY DEF El0Irq, Plain, Loc, Bodies, Critical, ForkLocs, SchedLocs
<1>4. UNCHANGED <<current, depth, tableVars, fn, newTask, last>>
  BY DEF El0Irq, tableVars, ctxVars, forkVars
<1>5. /\ irq_on' \in BOOLEAN /\ counter' \in [Procs -> 0 .. TaskSlice]
      /\ flag' \in [Procs -> BOOLEAN] /\ preempt_count' \in [Procs -> Int]
      /\ failed' \in [Procs -> 0 .. MaxFailedForks]
      /\ pPrev' \in [Procs -> Tasks \cup {NoTask}]
      /\ state' \in [Procs -> {"RUNNING", "ZOMBIE"}]
  <2>1. irq_on' \in BOOLEAN
    BY Zenon DEF IInv, TypeOK, El0Irq
  <2>2. preempt_count' \in [Procs -> Int]
    BY <1>1, ConstantFacts DEF IInv, TypeOK, El0Irq
  <2>3. counter' \in [Procs -> 0 .. TaskSlice] /\ flag' \in [Procs -> BOOLEAN]
    BY TickFacts DEF IInv, TypeOK, El0Irq
  <2>4. /\ failed' \in [Procs -> 0 .. MaxFailedForks]
        /\ pPrev' \in [Procs -> Tasks \cup {NoTask}]
        /\ state' \in [Procs -> {"RUNNING", "ZOMBIE"}]
    BY DEF IInv, TypeOK, El0Irq, forkVars
  <2> QED BY <2>1, <2>2, <2>3, <2>4
<1>6. /\ \A t \in Procs \ {current} :
           /\ preempt_count'[t] = preempt_count[t] /\ failed'[t] = failed[t]
           /\ counter'[t] = counter[t] /\ flag'[t] = flag[t] /\ state'[t] = state[t]
      /\ preempt_count'[current] - failed'[current]
           = preempt_count[current] - failed[current] + Crit(l) - Crit(Top(current))
  BY <1>1, <1>3, ConstantFacts, TickFacts
  DEF IInv, TypeOK, El0Irq, forkVars, Crit, Critical, ForkLocs, SchedLocs
<1>7. /\ IF current = Boot
         THEN l = "kmain" /\ counter' = counter /\ flag' = flag
         ELSE l # "kmain"
      /\ l = "pick" => pPrev'[current] = current
      /\ state'[current] = "ZOMBIE" => l \in {"exit_free", "exit_sched", "pick"}
      /\ l \in Bodies \cup {"enable"} => irq_on'
      /\ Top(current) \in Plain
  BY <1>1, <1>2, <1>3, ConstantFacts
  DEF IInv, TypeOK, El0Irq, ZombiesExit, InterruptsOnInBodies, Plain, Loc, Bodies,
      Critical, ForkLocs, SchedLocs
<1> QED
  BY <1>1, <1>2, <1>3, <1>4, <1>5, <1>6, <1>7, MoveStep

(* The end of schedule gives back its one count.                           *)
LEMMA ScheduleReturnInv == IInv /\ ScheduleReturn => IInv'
<1> SUFFICES ASSUME IInv, ScheduleReturn PROVE IInv'
  OBVIOUS
<1>1. /\ current \in Procs /\ depth[current] = 1
      /\ Top(current) = frame[current][1] /\ frame[current][1] \in {"enable"}
  BY DEF IInv, TypeOK, ScheduleReturn, At, Top
<1>2. current # 1 /\ current # Boot
  BY <1>1, ConstantFacts DEF IInv, KernelProcessLives, BootPhase, ForkLocs
<1>3. PICK l \in Plain : l = (IF state[current] = "ZOMBIE" THEN "sys_ret" ELSE "finish") /\ frame' = Goto(l)
  BY DEF ScheduleReturn, Plain, Loc, Bodies, Critical, ForkLocs, SchedLocs
<1>4. UNCHANGED <<current, depth, tableVars, fn, newTask, last>>
  BY DEF ScheduleReturn, tableVars, ctxVars, forkVars, PreemptEnable
<1>5. /\ irq_on' \in BOOLEAN /\ counter' \in [Procs -> 0 .. TaskSlice]
      /\ flag' \in [Procs -> BOOLEAN] /\ preempt_count' \in [Procs -> Int]
      /\ failed' \in [Procs -> 0 .. MaxFailedForks]
      /\ pPrev' \in [Procs -> Tasks \cup {NoTask}]
      /\ state' \in [Procs -> {"RUNNING", "ZOMBIE"}]
  BY <1>1, ConstantFacts DEF IInv, TypeOK, ScheduleReturn, PreemptEnable, tableVars, forkVars
<1>6. /\ \A t \in Procs \ {current} :
           /\ preempt_count'[t] = preempt_count[t] /\ failed'[t] = failed[t]
           /\ counter'[t] = counter[t] /\ flag'[t] = flag[t] /\ state'[t] = state[t]
      /\ preempt_count'[current] - failed'[current]
           = preempt_count[current] - failed[current] + Crit(l) - Crit(Top(current))
  BY <1>1, <1>3, ConstantFacts
  DEF IInv, TypeOK, ScheduleReturn, PreemptEnable, forkVars, Crit, Critical, ForkLocs, SchedLocs
<1>7. /\ IF current = Boot
         THEN l = "kmain" /\ counter' = counter /\ flag' = flag
         ELSE l # "kmain"
      /\ l = "pick" => pPrev'[current] = current
      /\ state'[current] = "ZOMBIE" => l \in {"exit_free", "exit_sched", "pick"}
      /\ l \in Bodies \cup {"enable"} => irq_on'
      /\ Top(current) \in Plain
  BY <1>1, <1>2, <1>3, ConstantFacts
  DEF IInv, TypeOK, ScheduleReturn, ZombiesExit, InterruptsOnInBodies, Plain, Loc, Bodies,
      Critical, ForkLocs, SchedLocs
<1> QED
  BY <1>1, <1>2, <1>3, <1>4, <1>5, <1>6, <1>7, MoveStep

(* work_pending enters schedule and takes a count.                         *)
LEMMA WorkPendingInv == IInv /\ WorkPending => IInv'
<1> SUFFICES ASSUME IInv, WorkPending PROVE IInv'
  OBVIOUS
<1>1. /\ current \in Procs /\ depth[current] = 1
      /\ Top(current) = frame[current][1] /\ frame[current][1] \in {"ret_to_user"}
  BY FirstActivation DEF WorkPending, At, SchedLocs
<1>2. current # 1 /\ current # Boot
  BY <1>1, ConstantFacts DEF IInv, KernelProcessLives, BootPhase, ForkLocs
<1>3. PICK l \in Plain : l = "pick" /\ frame' = Goto(l)
  BY DEF WorkPending, Plain, Loc, Bodies, Critical, ForkLocs, SchedLocs
<1>4. UNCHANGED <<current, depth, tableVars, fn, newTask, last>>
  BY DEF WorkPending, tableVars, ctxVars, forkVars, PreemptDisable
<1>5. /\ irq_on' \in BOOLEAN /\ counter' \in [Procs -> 0 .. TaskSlice]
      /\ flag' \in [Procs -> BOOLEAN] /\ preempt_count' \in [Procs -> Int]
      /\ failed' \in [Procs -> 0 .. MaxFailedForks]
      /\ pPrev' \in [Procs -> Tasks \cup {NoTask}]
      /\ state' \in [Procs -> {"RUNNING", "ZOMBIE"}]
  <2>1. irq_on' \in BOOLEAN
    BY Zenon DEF IInv, TypeOK, WorkPending
  <2>2. preempt_count' \in [Procs -> Int]
    BY <1>1, ConstantFacts DEF IInv, TypeOK, WorkPending, PreemptDisable
  <2>3. counter' \in [Procs -> 0 .. TaskSlice] /\ flag' \in [Procs -> BOOLEAN]
    BY DEF IInv, TypeOK, WorkPending
  <2>4. /\ failed' \in [Procs -> 0 .. MaxFailedForks]
        /\ pPrev' \in [Procs -> Tasks \cup {NoTask}]
        /\ state' \in [Procs -> {"RUNNING", "ZOMBIE"}]
    BY <1>2, StartPickFacts DEF IInv, TypeOK, WorkPending, forkVars
  <2> QED BY <2>1, <2>2, <2>3, <2>4
<1>6. /\ \A t \in Procs \ {current} :
           /\ preempt_count'[t] = preempt_count[t] /\ failed'[t] = failed[t]
           /\ counter'[t] = counter[t] /\ flag'[t] = flag[t] /\ state'[t] = state[t]
      /\ preempt_count'[current] - failed'[current]
           = preempt_count[current] - failed[current] + Crit(l) - Crit(Top(current))
  BY <1>1, <1>3, ConstantFacts
  DEF IInv, TypeOK, WorkPending, PreemptDisable, forkVars, Crit, Critical, ForkLocs, SchedLocs
<1>7. /\ IF current = Boot
         THEN l = "kmain" /\ counter' = counter /\ flag' = flag
         ELSE l # "kmain"
      /\ l = "pick" => pPrev'[current] = current
      /\ state'[current] = "ZOMBIE" => l \in {"exit_free", "exit_sched", "pick"}
      /\ l \in Bodies \cup {"enable"} => irq_on'
      /\ Top(current) \in Plain
  BY <1>1, <1>2, <1>3, ConstantFacts, StartPickFacts
  DEF IInv, TypeOK, WorkPending, ZombiesExit, InterruptsOnInBodies, Plain, Loc, Bodies,
      Critical, ForkLocs, SchedLocs
<1> QED
  BY <1>1, <1>2, <1>3, <1>4, <1>5, <1>6, <1>7, MoveStep

(* do_fork disables preemption.                                            *)
LEMMA DoForkEnterInv == IInv /\ DoForkEnter => IInv'
<1> SUFFICES ASSUME IInv, DoForkEnter PROVE IInv'
  OBVIOUS
<1>1. /\ current \in Procs /\ depth[current] = 1
      /\ Top(current) = frame[current][1] /\ frame[current][1] \in {"sys", "kmain"}
  BY FirstActivation DEF DoForkEnter, CallsFork, At, SchedLocs
<1>2. /\ current # 1 /\ irq_on
      /\ IF current = Boot THEN frame[current][1] = "kmain" /\ nr_tasks < 2
                           ELSE frame[current][1] = "sys"
  <2>1. current # 1 /\ irq_on
    BY <1>1, ConstantFacts DEF IInv, KernelProcessLives, InterruptsOnInBodies, Bodies
  <2>2. IF current = Boot THEN frame[current][1] = "kmain" ELSE frame[current][1] = "sys"
    BY <1>1, ConstantFacts DEF IInv, BootPhase, ForkLocs
  <2> QED BY <1>1, <2>1, <2>2 DEF DoForkEnter, CallsFork, At
<1>3. PICK l \in Plain : l = "fork_alloc" /\ frame' = Goto(l)
  BY DEF DoForkEnter, Plain, Loc, Bodies, Critical, ForkLocs, SchedLocs
<1>4. UNCHANGED <<current, depth, tableVars, fn, newTask, last>>
  BY DEF DoForkEnter, tableVars, ctxVars, forkVars, PreemptDisable
<1>5. /\ irq_on' \in BOOLEAN /\ counter' \in [Procs -> 0 .. TaskSlice]
      /\ flag' \in [Procs -> BOOLEAN] /\ preempt_count' \in [Procs -> Int]
      /\ failed' \in [Procs -> 0 .. MaxFailedForks]
      /\ pPrev' \in [Procs -> Tasks \cup {NoTask}]
      /\ state' \in [Procs -> {"RUNNING", "ZOMBIE"}]
  BY <1>1, ConstantFacts DEF IInv, TypeOK, DoForkEnter, PreemptDisable, tableVars, forkVars
<1>6. /\ \A t \in Procs \ {current} :
           /\ preempt_count'[t] = preempt_count[t] /\ failed'[t] = failed[t]
           /\ counter'[t] = counter[t] /\ flag'[t] = flag[t] /\ state'[t] = state[t]
      /\ preempt_count'[current] - failed'[current]
           = preempt_count[current] - failed[current] + Crit(l) - Crit(Top(current))
  BY <1>1, <1>3, ConstantFacts
  DEF IInv, TypeOK, DoForkEnter, PreemptDisable, forkVars, Crit, Critical, ForkLocs,
      SchedLocs
<1>7. /\ IF current = Boot
         THEN /\ l \in {"kmain", "fork_alloc"} /\ (l = "fork_alloc" => nr_tasks < 2)
              /\ counter' = counter /\ flag' = flag
         ELSE l # "kmain"
      /\ l = "pick" => pPrev'[current] = current
      /\ state'[current] = "ZOMBIE" => l \in {"exit_free", "exit_sched", "pick"}
      /\ l \in Bodies \cup {"enable"} => irq_on'
      /\ Top(current) \in Plain
  BY <1>1, <1>2, <1>3, ConstantFacts
  DEF IInv, TypeOK, DoForkEnter, ZombiesExit, InterruptsOnInBodies, Plain, Loc, Bodies,
      Critical, ForkLocs, SchedLocs
<1> QED
  BY <1>1, <1>2, <1>3, <1>4, <1>5, <1>6, <1>7, MoveStep

(* A do_fork that finds no page keeps its count: failed records it.        *)
LEMMA DoForkFailInv == IInv /\ DoForkFail => IInv'
<1> SUFFICES ASSUME IInv, DoForkFail PROVE IInv'
  OBVIOUS
<1>1. /\ current \in Procs /\ depth[current] = 1
      /\ Top(current) = frame[current][1] /\ frame[current][1] \in {"fork_alloc"}
  BY FirstActivation DEF DoForkFail, At, SchedLocs
<1>2. current # 1 /\ current # Boot /\ irq_on
  BY <1>1, ConstantFacts
  DEF IInv, KernelProcessLives, DoForkFail, InterruptsOnInBodies, Bodies, ForkLocs
<1>3. PICK l \in Plain : l = "sys_ret" /\ frame' = Goto(l)
  BY DEF DoForkFail, Plain, Loc, Bodies, Critical, ForkLocs, SchedLocs
<1>4. UNCHANGED <<current, depth, tableVars, fn, newTask, last>>
  BY DEF DoForkFail, tableVars, ctxVars, forkVars
<1>5. /\ irq_on' \in BOOLEAN /\ counter' \in [Procs -> 0 .. TaskSlice]
      /\ flag' \in [Procs -> BOOLEAN] /\ preempt_count' \in [Procs -> Int]
      /\ failed' \in [Procs -> 0 .. MaxFailedForks]
      /\ pPrev' \in [Procs -> Tasks \cup {NoTask}]
      /\ state' \in [Procs -> {"RUNNING", "ZOMBIE"}]
  BY <1>1, ConstantFacts DEF IInv, TypeOK, DoForkFail, tableVars
<1>6. /\ \A t \in Procs \ {current} :
           /\ preempt_count'[t] = preempt_count[t] /\ failed'[t] = failed[t]
           /\ counter'[t] = counter[t] /\ flag'[t] = flag[t] /\ state'[t] = state[t]
      /\ preempt_count'[current] - failed'[current]
           = preempt_count[current] - failed[current] + Crit(l) - Crit(Top(current))
  BY <1>1, <1>3, ConstantFacts
  DEF IInv, TypeOK, DoForkFail, Crit, Critical, ForkLocs, SchedLocs
<1>7. /\ IF current = Boot
         THEN l = "kmain" /\ counter' = counter /\ flag' = flag
         ELSE l # "kmain"
      /\ l = "pick" => pPrev'[current] = current
      /\ state'[current] = "ZOMBIE" => l \in {"exit_free", "exit_sched", "pick"}
      /\ l \in Bodies \cup {"enable"} => irq_on'
      /\ Top(current) \in Plain
  BY <1>1, <1>2, <1>3, ConstantFacts
  DEF IInv, TypeOK, DoForkFail, ZombiesExit, InterruptsOnInBodies, Plain, Loc, Bodies,
      Critical, ForkLocs, SchedLocs
<1> QED
  BY <1>1, <1>2, <1>3, <1>4, <1>5, <1>6, <1>7, MoveStep

(* do_fork gives back its one count.                                       *)
LEMMA DoForkEndInv == IInv /\ DoForkEnd => IInv'
<1> SUFFICES ASSUME IInv, DoForkEnd PROVE IInv'
  OBVIOUS
<1>1. /\ current \in Procs /\ depth[current] = 1
      /\ Top(current) = frame[current][1] /\ frame[current][1] \in {"fork_end"}
  BY FirstActivation DEF DoForkEnd, At, SchedLocs
<1>2. current # 1
  BY <1>1, ConstantFacts DEF IInv, KernelProcessLives, BootPhase, ForkLocs
<1>3. PICK l \in Plain : l = (IF current = Boot THEN "kmain" ELSE "sys_ret") /\ frame' = Goto(l)
  BY DEF DoForkEnd, Plain, Loc, Bodies, Critical, ForkLocs, SchedLocs
<1>4. UNCHANGED <<current, depth, tableVars, fn, newTask, last>>
  BY DEF DoForkEnd, tableVars, ctxVars, forkVars, PreemptEnable
<1>5. /\ irq_on' \in BOOLEAN /\ counter' \in [Procs -> 0 .. TaskSlice]
      /\ flag' \in [Procs -> BOOLEAN] /\ preempt_count' \in [Procs -> Int]
      /\ failed' \in [Procs -> 0 .. MaxFailedForks]
      /\ pPrev' \in [Procs -> Tasks \cup {NoTask}]
      /\ state' \in [Procs -> {"RUNNING", "ZOMBIE"}]
  BY <1>1, ConstantFacts DEF IInv, TypeOK, DoForkEnd, PreemptEnable, tableVars, forkVars
<1>6. /\ \A t \in Procs \ {current} :
           /\ preempt_count'[t] = preempt_count[t] /\ failed'[t] = failed[t]
           /\ counter'[t] = counter[t] /\ flag'[t] = flag[t] /\ state'[t] = state[t]
      /\ preempt_count'[current] - failed'[current]
           = preempt_count[current] - failed[current] + Crit(l) - Crit(Top(current))
  BY <1>1, <1>3, ConstantFacts
  DEF IInv, TypeOK, DoForkEnd, PreemptEnable, forkVars, Crit, Critical, ForkLocs, SchedLocs
<1>7. /\ IF current = Boot
         THEN l = "kmain" /\ counter' = counter /\ flag' = flag
         ELSE l # "kmain"
      /\ l = "pick" => pPrev'[current] = current
      /\ state'[current] = "ZOMBIE" => l \in {"exit_free", "exit_sched", "pick"}
      /\ l \in Bodies \cup {"enable"} => irq_on'
      /\ Top(current) \in Plain
  BY <1>1, <1>2, <1>3, ConstantFacts
  DEF IInv, TypeOK, DoForkEnd, ZombiesExit, InterruptsOnInBodies, Plain, Loc, Bodies,
      Critical, ForkLocs, SchedLocs
<1> QED
  BY <1>1, <1>2, <1>3, <1>4, <1>5, <1>6, <1>7, MoveStep

(* exit_process makes its caller a zombie, which only goes on to schedule; *)
(* it is not kernel_process, which makes no system call.                   *)
LEMMA ExitZombieInv == IInv /\ ExitZombie => IInv'
<1> SUFFICES ASSUME IInv, ExitZombie PROVE IInv'
  OBVIOUS
<1>1. /\ current \in Procs /\ depth[current] = 1
      /\ Top(current) = frame[current][1] /\ frame[current][1] \in {"sys"}
  BY FirstActivation DEF ExitZombie, At, SchedLocs
<1>2. current # 1 /\ current # Boot
  BY <1>1, ConstantFacts DEF IInv, KernelProcessLives, BootPhase, ForkLocs
<1>3. PICK l \in Plain : l = "exit_free" /\ frame' = Goto(l)
  BY DEF ExitZombie, Plain, Loc, Bodies, Critical, ForkLocs, SchedLocs
<1>4. UNCHANGED <<current, depth, tableVars, fn, newTask, last>>
  BY DEF ExitZombie, tableVars, ctxVars, forkVars, PreemptDisable
<1>5. /\ irq_on' \in BOOLEAN /\ counter' \in [Procs -> 0 .. TaskSlice]
      /\ flag' \in [Procs -> BOOLEAN] /\ preempt_count' \in [Procs -> Int]
      /\ failed' \in [Procs -> 0 .. MaxFailedForks]
      /\ pPrev' \in [Procs -> Tasks \cup {NoTask}]
      /\ state' \in [Procs -> {"RUNNING", "ZOMBIE"}]
  BY <1>1, ConstantFacts DEF IInv, TypeOK, ExitZombie, PreemptDisable, tableVars, forkVars
<1>6. /\ \A t \in Procs \ {current} :
           /\ preempt_count'[t] = preempt_count[t] /\ failed'[t] = failed[t]
           /\ counter'[t] = counter[t] /\ flag'[t] = flag[t] /\ state'[t] = state[t]
      /\ preempt_count'[current] - failed'[current]
           = preempt_count[current] - failed[current] + Crit(l) - Crit(Top(current))
  BY <1>1, <1>3, ConstantFacts
  DEF IInv, TypeOK, ExitZombie, PreemptDisable, forkVars, Crit, Critical, ForkLocs, SchedLocs
<1>7. /\ IF current = Boot
         THEN l = "kmain" /\ counter' = counter /\ flag' = flag
         ELSE l # "kmain"
      /\ l = "pick" => pPrev'[current] = current
      /\ state'[current] = "ZOMBIE" => l \in {"exit_free", "exit_sched", "pick"}
      /\ l \in Bodies \cup {"enable"} => irq_on'
      /\ Top(current) \in Plain
  BY <1>1, <1>2, <1>3, ConstantFacts
  DEF IInv, TypeOK, ExitZombie, ZombiesExit, InterruptsOnInBodies, Plain, Loc, Bodies,
      Critical, ForkLocs, SchedLocs
<1> QED
  BY <1>1, <1>2, <1>3, <1>4, <1>5, <1>6, <1>7, MoveStep

(* exit_process gives back the count it took to free the stack.            *)
LEMMA ExitFreeInv == IInv /\ ExitFree => IInv'
<1> SUFFICES ASSUME IInv, ExitFree PROVE IInv'
  OBVIOUS
<1>1. /\ current \in Procs /\ depth[current] = 1
      /\ Top(current) = frame[current][1] /\ frame[current][1] \in {"exit_free"}
  BY FirstActivation DEF ExitFree, At, SchedLocs
<1>2. current # 1 /\ current # Boot
  BY <1>1, ConstantFacts DEF IInv, KernelProcessLives, BootPhase, ForkLocs
<1>3. PICK l \in Plain : l = "exit_sched" /\ frame' = Goto(l)
  BY DEF ExitFree, Plain, Loc, Bodies, Critical, ForkLocs, SchedLocs
<1>4. UNCHANGED <<current, depth, tableVars, fn, newTask, last>>
  BY DEF ExitFree, tableVars, ctxVars, forkVars, PreemptEnable
<1>5. /\ irq_on' \in BOOLEAN /\ counter' \in [Procs -> 0 .. TaskSlice]
      /\ flag' \in [Procs -> BOOLEAN] /\ preempt_count' \in [Procs -> Int]
      /\ failed' \in [Procs -> 0 .. MaxFailedForks]
      /\ pPrev' \in [Procs -> Tasks \cup {NoTask}]
      /\ state' \in [Procs -> {"RUNNING", "ZOMBIE"}]
  BY <1>1, ConstantFacts DEF IInv, TypeOK, ExitFree, PreemptEnable, tableVars, forkVars
<1>6. /\ \A t \in Procs \ {current} :
           /\ preempt_count'[t] = preempt_count[t] /\ failed'[t] = failed[t]
           /\ counter'[t] = counter[t] /\ flag'[t] = flag[t] /\ state'[t] = state[t]
      /\ preempt_count'[current] - failed'[current]
           = preempt_count[current] - failed[current] + Crit(l) - Crit(Top(current))
  BY <1>1, <1>3, ConstantFacts
  DEF IInv, TypeOK, ExitFree, PreemptEnable, forkVars, Crit, Critical, ForkLocs, SchedLocs
<1>7. /\ IF current = Boot
         THEN l = "kmain" /\ counter' = counter /\ flag' = flag
         ELSE l # "kmain"
      /\ l = "pick" => pPrev'[current] = current
      /\ state'[current] = "ZOMBIE" => l \in {"exit_free", "exit_sched", "pick"}
      /\ l \in Bodies \cup {"enable"} => irq_on'
      /\ Top(current) \in Plain
  BY <1>1, <1>2, <1>3, ConstantFacts
  DEF IInv, TypeOK, ExitFree, ZombiesExit, InterruptsOnInBodies, Plain, Loc, Bodies,
      Critical, ForkLocs, SchedLocs
<1> QED
  BY <1>1, <1>2, <1>3, <1>4, <1>5, <1>6, <1>7, MoveStep

(* exit_process calls schedule.                                            *)
LEMMA ExitScheduleInv == IInv /\ ExitSchedule => IInv'
<1> SUFFICES ASSUME IInv, ExitSchedule PROVE IInv'
  OBVIOUS
<1>1. /\ current \in Procs /\ depth[current] = 1
      /\ Top(current) = frame[current][1] /\ frame[current][1] \in {"exit_sched"}
  BY FirstActivation DEF ExitSchedule, At, SchedLocs
<1>2. current # 1 /\ current # Boot
  BY <1>1, ConstantFacts DEF IInv, KernelProcessLives, BootPhase, ForkLocs
<1>3. PICK l \in Plain : l = "pick" /\ frame' = Goto(l)
  BY DEF ExitSchedule, Plain, Loc, Bodies, Critical, ForkLocs, SchedLocs
<1>4. UNCHANGED <<current, depth, tableVars, fn, newTask, last>>
  BY DEF ExitSchedule, tableVars, ctxVars, forkVars, PreemptDisable
<1>5. /\ irq_on' \in BOOLEAN /\ counter' \in [Procs -> 0 .. TaskSlice]
      /\ flag' \in [Procs -> BOOLEAN] /\ preempt_count' \in [Procs -> Int]
      /\ failed' \in [Procs -> 0 .. MaxFailedForks]
      /\ pPrev' \in [Procs -> Tasks \cup {NoTask}]
      /\ state' \in [Procs -> {"RUNNING", "ZOMBIE"}]
  <2>1. irq_on' \in BOOLEAN
    BY DEF IInv, TypeOK, ExitSchedule
  <2>2. preempt_count' \in [Procs -> Int]
    BY <1>1, ConstantFacts DEF IInv, TypeOK, ExitSchedule, PreemptDisable
  <2>3. counter' \in [Procs -> 0 .. TaskSlice] /\ flag' \in [Procs -> BOOLEAN]
    BY DEF IInv, TypeOK, ExitSchedule
  <2>4. /\ failed' \in [Procs -> 0 .. MaxFailedForks]
        /\ pPrev' \in [Procs -> Tasks \cup {NoTask}]
        /\ state' \in [Procs -> {"RUNNING", "ZOMBIE"}]
    BY <1>2, StartPickFacts DEF IInv, TypeOK, ExitSchedule, forkVars
  <2> QED BY <2>1, <2>2, <2>3, <2>4
<1>6. /\ \A t \in Procs \ {current} :
           /\ preempt_count'[t] = preempt_count[t] /\ failed'[t] = failed[t]
           /\ counter'[t] = counter[t] /\ flag'[t] = flag[t] /\ state'[t] = state[t]
      /\ preempt_count'[current] - failed'[current]
           = preempt_count[current] - failed[current] + Crit(l) - Crit(Top(current))
  BY <1>1, <1>3, ConstantFacts
  DEF IInv, TypeOK, ExitSchedule, PreemptDisable, forkVars, Crit, Critical, ForkLocs, SchedLocs
<1>7. /\ IF current = Boot
         THEN l = "kmain" /\ counter' = counter /\ flag' = flag
         ELSE l # "kmain"
      /\ l = "pick" => pPrev'[current] = current
      /\ state'[current] = "ZOMBIE" => l \in {"exit_free", "exit_sched", "pick"}
      /\ l \in Bodies \cup {"enable"} => irq_on'
      /\ Top(current) \in Plain
  BY <1>1, <1>2, <1>3, ConstantFacts, StartPickFacts
  DEF IInv, TypeOK, ExitSchedule, ZombiesExit, InterruptsOnInBodies, Plain, Loc, Bodies,
      Critical, ForkLocs, SchedLocs
<1> QED
  BY <1>1, <1>2, <1>3, <1>4, <1>5, <1>6, <1>7, MoveStep

----------------------------------------------------------------------------
(* The timer interrupt that returns to the code it interrupted.            *)
LEMMA El1IrqInv == IInv /\ El1Irq => IInv'
<1> SUFFICES ASSUME IInv, El1Irq PROVE IInv'
  OBVIOUS
<1>1. UNCHANGED <<current, irq_on, task, nr_tasks, next, state, preempt_count, frame, depth,
                  last, pPrev, newTask, failed, fn>>
  BY DEF El1Irq, tableVars, ctxVars, forkVars
<1>2. /\ counter' \in [Procs -> 0 .. TaskSlice] /\ flag' \in [Procs -> BOOLEAN]
      /\ \A t \in Procs \ {current} : counter'[t] = counter[t] /\ flag'[t] = flag[t]
  BY TickFacts DEF IInv, El1Irq
<1>3. current = Boot => counter'[Boot] < TaskSlice /\ ~flag'[Boot]
  <2> SUFFICES ASSUME current = Boot PROVE counter'[Boot] < TaskSlice /\ ~flag'[Boot]
    OBVIOUS
  <2>1. /\ Boot \in Procs /\ ~flag[Boot] /\ counter[Boot] \in Nat
        /\ counter[Boot] + 1 < TaskSlice /\ ~(counter[Boot] + 1 >= TaskSlice)
    BY ConstantFacts DEF IInv, TypeOK, BootPhase, El1Irq, BootTickBound
  <2> QED BY <2>1 DEF IInv, TypeOK, El1Irq, task_tick
<1>4. TypeOK'
  BY <1>1, <1>2 DEF IInv, TypeOK
<1>5. (StackShape /\ OthersWait /\ NeverPreemptedInside /\ PreemptCountBalanced)'
  BY <1>1 DEF IInv, StackShape, OthersWait, NeverPreemptedInside, PreemptCountBalanced, Top
<1>6. (PagesTaken /\ RingMatchesTable)'
  BY <1>1 DEF IInv, PagesTaken, Publishing, RingMatchesTable, Linked
<1>7. BootPhase'
  BY <1>1, <1>3 DEF IInv, BootPhase
<1>8. (WalkedPastZombies /\ KernelProcessLives /\ ZombiesExit)'
  BY <1>1 DEF IInv, WalkedPastZombies, KernelProcessLives, ZombiesExit, At, Top, Passed
<1>9. (InterruptsOnInBodies /\ LastPending)'
  BY <1>1 DEF IInv, InterruptsOnInBodies, LastPending, Top
<1>10. SliceTidiedOrOwed'
  BY <1>1, <1>2 DEF IInv, SliceTidiedOrOwed
<1> QED BY <1>4, <1>5, <1>6, <1>7, <1>8, <1>9, <1>10 DEF IInv

(* While the running task is not at the table in do_fork, nobody is: the   *)
(* ring goes through the whole table.                                      *)
LEMMA NotForking ==
  ASSUME IInv, Top(current) \notin {"fork_publish", "fork_link"}
  PROVE  /\ ~Publishing /\ Linked = nr_tasks
         /\ \A t \in Procs : frame[t][1] \notin {"fork_publish", "fork_link"}
<1>1. ASSUME NEW t \in Procs, frame[t][1] \in {"fork_publish", "fork_link"}
      PROVE  FALSE
  <2>1. t = current /\ depth[t] = 1
    BY <1>1, CriticalRuns DEF Critical, ForkLocs
  <2> QED BY <1>1, <2>1 DEF Top
<1> QED BY <1>1 DEF Publishing, Linked

(* pick_next_task, one step further.                                       *)
LEMMA NextInRing ==
  ASSUME IInv, At("pick")
  PROVE  /\ current \in Tasks /\ current < nr_tasks
         /\ pPrev[current] \in Tasks /\ pPrev[current] < nr_tasks
         /\ next[pPrev[current]] =
              IF pPrev[current] = nr_tasks - 1 THEN 0 ELSE pPrev[current] + 1
         /\ next[pPrev[current]] \in Tasks /\ next[pPrev[current]] < nr_tasks
<1>1. current # Boot
  BY ConstantFacts DEF IInv, BootPhase, At, Top, ForkLocs, StackShape, TypeOK
<1>2. current \in Tasks /\ current < nr_tasks /\ nr_tasks >= 2 /\ nr_tasks \in 0 .. MaxTasks
  BY <1>1, ConstantFacts DEF IInv, BootPhase, TypeOK
<1>3. pPrev[current] \in Tasks /\ pPrev[current] < nr_tasks
  BY DEF IInv, WalkedPastZombies
<1>4. Linked = nr_tasks
  BY NotForking DEF At, ForkLocs
<1>5. \A i \in Tasks : i < nr_tasks => task[i] = i
  BY DEF IInv, PagesTaken
<1>6. next[task[pPrev[current]]] =
        IF pPrev[current] = nr_tasks - 1 THEN task[0] ELSE task[pPrev[current] + 1]
  BY <1>2, <1>3, <1>4, ConstantFacts DEF IInv, RingMatchesTable
<1>7. /\ task[pPrev[current]] = pPrev[current] /\ task[0] = 0
      /\ pPrev[current] # nr_tasks - 1 => task[pPrev[current] + 1] = pPrev[current] + 1
  BY <1>2, <1>3, <1>5, ConstantFacts
<1> QED BY <1>2, <1>3, <1>6, <1>7, ConstantFacts

(* The walk passes one more zombie.                                        *)
LEMMA PickSkipInv == IInv /\ PickSkip => IInv'
<1> SUFFICES ASSUME IInv, PickSkip PROVE IInv'
  OBVIOUS
<1> DEFINE p == pPrev[current]  n == next[p]
<1>1. UNCHANGED <<current, irq_on, task, nr_tasks, next, state, counter, preempt_count, flag,
                  frame, depth, last, newTask, failed, fn>>
  BY DEF PickSkip, tableVars, forkVars
<1>2. /\ current \in Tasks /\ current < nr_tasks /\ p \in Tasks /\ p < nr_tasks
      /\ n = (IF p = nr_tasks - 1 THEN 0 ELSE p + 1) /\ n \in Tasks /\ n < nr_tasks
      /\ nr_tasks \in Nat
  BY NextInRing DEF PickSkip, IInv, TypeOK
<1>3. state[n] = "ZOMBIE" /\ \A k \in Passed(current, p) : state[k] = "ZOMBIE"
  BY DEF IInv, WalkedPastZombies, PickSkip, Skip
<1>4. pPrev' \in [Procs -> Tasks \cup {NoTask}] /\ pPrev'[current] = n
  BY <1>2, ConstantFacts DEF IInv, TypeOK, PickSkip
<1>5. TypeOK'
  BY <1>1, <1>4 DEF IInv, TypeOK
<1>6. (StackShape /\ OthersWait /\ NeverPreemptedInside /\ PreemptCountBalanced)'
  BY <1>1 DEF IInv, StackShape, OthersWait, NeverPreemptedInside, PreemptCountBalanced, Top
<1>7. (PagesTaken /\ RingMatchesTable)'
  BY <1>1 DEF IInv, PagesTaken, Publishing, RingMatchesTable, Linked
<1>8. (BootPhase /\ KernelProcessLives /\ ZombiesExit)'
  BY <1>1 DEF IInv, BootPhase, KernelProcessLives, ZombiesExit, Top
<1>9. WalkedPastZombies'
  <2>1. Passed(current, n) \subseteq Passed(current, p) \cup {n}
    BY <1>2, ConstantFacts DEF Passed
  <2>2. \A k \in Passed(current, n) : state[k] = "ZOMBIE"
    BY <1>3, <2>1
  <2>3. WalkedPastZombies' = (At("pick") =>
                                /\ n \in Tasks /\ n < nr_tasks
                                /\ \A k \in Passed(current, n) : state[k] = "ZOMBIE")
    BY <1>1, <1>4 DEF WalkedPastZombies, At, Top, Passed
  <2> QED BY <1>2, <2>2, <2>3
<1>10. (InterruptsOnInBodies /\ LastPending /\ SliceTidiedOrOwed)'
  BY <1>1 DEF IInv, InterruptsOnInBodies, LastPending, SliceTidiedOrOwed, Top
<1> QED BY <1>5, <1>6, <1>7, <1>8, <1>9, <1>10 DEF IInv

----------------------------------------------------------------------------
(* schedule_tail, in __schedule and in ret_from_fork.                      *)
LEMMA TailStep ==
  ASSUME IInv, NEW l \in {"enable", "ret_to_user", "kfn"}, Top(current) \in ResumePoints,
         schedule_tail, frame' = Goto(l), l = "enable" <=> Top(current) = "tail",
         current = 1 /\ Top(current) = "born" => l = "kfn",
         UNCHANGED <<current, tableVars, state, preempt_count, depth, pPrev, forkVars>>
  PROVE  IInv'
<1> USE DEF tableVars, forkVars
<1> DEFINE d == depth[current]  prev == last[current][d]
<1>1. /\ current \in Procs /\ depth \in [Procs -> 1 .. 2] /\ l \in Loc
      /\ d \in {1, 2} /\ d \in Levels /\ 1 \in Levels /\ 2 \in Levels
  BY ConstantFacts DEF IInv, TypeOK, Loc, Critical, SchedLocs, Bodies
<1>2. /\ frame'[current][d] = l /\ frame[current][d] \in ResumePoints
      /\ \A t \in Procs, e \in Levels : t # current \/ e # d => frame'[t][e] = frame[t][e]
      /\ frame' \in [Procs -> [Levels -> Loc]]
  BY <1>1, GotoFacts DEF IInv, Top
<1>3. \A t \in Procs \ {current} : Top(t)' = Top(t)
  BY <1>1, <1>2, ConstantFacts DEF Top
<1>4. d = 2 => Top(current) = "tail"
  BY <1>1 DEF IInv, StackShape, Top, SchedLocs, ResumePoints
<1>5. /\ counter' = [t \in Procs |-> IF t = prev THEN 0 ELSE counter[t]]
      /\ flag' = [t \in Procs |-> IF t = prev THEN FALSE ELSE flag[t]]
      /\ last' = [last EXCEPT ![current][d] = NoTask]
      /\ irq_on' = TRUE
  BY DEF schedule_tail
<1>6. /\ last' \in [Procs -> [Levels -> Procs \cup {NoTask}]]
      /\ last'[current][d] = NoTask
      /\ \A t \in Procs, e \in Levels : t # current \/ e # d => last'[t][e] = last[t][e]
  BY <1>1, <1>5 DEF IInv, TypeOK
<1>7. TypeOK'
  <2>1. counter' \in [Procs -> 0 .. TaskSlice]
    BY <1>5, ConstantFacts DEF IInv, TypeOK
  <2>2. flag' \in [Procs -> BOOLEAN]
    BY <1>5 DEF IInv, TypeOK
  <2> QED BY <1>2, <1>5, <1>6, <2>1, <2>2 DEF IInv, TypeOK
<1>8. StackShape' /\ OthersWait' /\ NeverPreemptedInside'
  <2>1. StackShape'
    BY <1>1, <1>2, <1>4 DEF IInv, StackShape, Top, SchedLocs
  <2>2. OthersWait'
    BY <1>3 DEF IInv, OthersWait
  <2>3. NeverPreemptedInside'
    BY <1>1, <1>2, <1>4 DEF IInv, NeverPreemptedInside, Top
  <2> QED
    BY <2>1, <2>2, <2>3
<1>9. PreemptCountBalanced'
  <2>1. \A t \in Procs : frame'[t][1] \in Critical <=> frame[t][1] \in Critical
    BY <1>1, <1>2 DEF Top, ResumePoints, Critical, ForkLocs, SchedLocs
  <2> QED BY <2>1 DEF IInv, PreemptCountBalanced
<1>10. \A t \in Procs, m \in {"none", "kmain", "dead"} \cup ForkLocs :
         frame'[t][1] = m <=> frame[t][1] = m
  BY <1>1, <1>2 DEF ResumePoints, ForkLocs
<1>11. PagesTaken' /\ RingMatchesTable'
  <2>1. Publishing' = Publishing /\ Linked' = Linked
    BY <1>10 DEF Publishing, Linked, ForkLocs
  <2>2. RingMatchesTable'
    BY <2>1 DEF IInv, RingMatchesTable
  <2> QED BY <1>10, <2>1, <2>2, ConstantFacts DEF IInv, PagesTaken, ForkLocs
<1>12. current # Boot /\ BootPhase'
  <2>1. current # Boot
    BY <1>1, <1>2, ConstantFacts DEF IInv, BootPhase, StackShape, ResumePoints, ForkLocs
  <2> QED BY <2>1, <1>10, ConstantFacts DEF IInv, BootPhase
<1>13. KernelProcessLives'
  <2>1. 1 \in Procs
    BY ConstantFacts
  <2>2. CASE current = 1 /\ d = 1
    BY <1>2, <2>1, <2>2 DEF IInv, KernelProcessLives, Top, ResumePoints
  <2>3. CASE ~(current = 1 /\ d = 1)
    <3>1. frame'[1][1] = frame[1][1]
      BY <1>1, <1>2, <2>1, <2>3
    <3> QED BY <3>1 DEF IInv, KernelProcessLives
  <2> QED BY <2>2, <2>3
<1>14. ZombiesExit' /\ WalkedPastZombies' /\ InterruptsOnInBodies'
  <2>1. state[current] # "ZOMBIE"
    BY <1>1 DEF IInv, ZombiesExit, ResumePoints
  <2>2. ZombiesExit'
    BY <1>1, <1>2, <2>1 DEF IInv, ZombiesExit
  <2>3. ~At("pick")'
    BY <1>2 DEF At, Top
  <2> QED BY <1>5, <2>2, <2>3 DEF WalkedPastZombies, InterruptsOnInBodies
<1>15. LastPending'
  BY <1>1, <1>2, <1>6 DEF IInv, LastPending
<1>16. SliceTidiedOrOwed'
  <2> SUFFICES ASSUME NEW t \in Procs \ {current}, flag'[t] \/ counter'[t] > 0
               PROVE  \E u \in Procs, e \in Levels : last'[u][e] = t
    BY DEF SliceTidiedOrOwed
  <2>1. t # prev /\ (flag[t] \/ counter[t] > 0)
    BY <1>5
  <2>2. PICK u \in Procs, e \in Levels : last[u][e] = t
    BY <2>1 DEF IInv, SliceTidiedOrOwed
  <2> QED BY <1>6, <2>1, <2>2
<1> QED
  BY <1>7, <1>8, <1>9, <1>11, <1>12, <1>13, <1>14, <1>15, <1>16 DEF IInv

(* __schedule calls schedule_tail.                                         *)
LEMMA ScheduleTailInv == IInv /\ ScheduleTail => IInv'
BY TailStep DEF ScheduleTail, At, ResumePoints

(* ret_from_fork calls schedule_tail.                                      *)
LEMMA RetFromForkInv == IInv /\ RetFromFork => IInv'
<1> SUFFICES ASSUME IInv, RetFromFork PROVE IInv'
  OBVIOUS
<1>1. current = 1 => fn[current] # "user"
  BY FirstActivation DEF IInv, KernelProcessLives, RetFromFork, At, SchedLocs
<1> QED BY <1>1, TailStep DEF RetFromFork, At, ResumePoints

----------------------------------------------------------------------------
(* A task that waits, and is in the ring, can be resumed.                  *)
LEMMA Resumable ==
  ASSUME IInv, NEW n \in Tasks, n < nr_tasks, n # current, Top(current) \notin ForkLocs
  PROVE  Top(n) \in ResumePoints /\ last[n][depth[n]] = NoTask /\ depth[n] \in Levels
<1>1. n \in Procs /\ depth[n] \in {1, 2} /\ depth[n] \in Levels
  BY ConstantFacts DEF IInv, TypeOK
<1>2. frame[n][1] # "none"
  <2>1. ~Publishing /\ nr_tasks \in Int /\ n \in Int
    BY NotForking, ConstantFacts DEF IInv, TypeOK, ForkLocs
  <2> QED BY <2>1 DEF IInv, PagesTaken
<1>3. frame[n][1] # "dead"
  BY <1>1 DEF IInv, BootPhase
<1>4. Top(n) \in ResumePoints
  BY <1>1, <1>2, <1>3 DEF IInv, OthersWait, StackShape, Top, SchedLocs, ResumePoints
<1>5. last[n][depth[n]] = NoTask
  BY <1>1, ConstantFacts DEF IInv, LastPending
<1> QED BY <1>1, <1>4, <1>5

(* cpu_switch_to, in __schedule and in switch_to.                          *)
LEMMA SwitchStep ==
  ASSUME IInv, NEW n \in Tasks, n < nr_tasks, n # current, nr_tasks >= 2,
         state[n] # "ZOMBIE",
         IF current = Boot THEN Top(current) = "kmain" ELSE Top(current) = "pick",
         frame' = Goto(IF current = Boot THEN "dead" ELSE "tail"),
         last' = [last EXCEPT ![n][depth[n]] = current],
         current' = n,
         irq_on' \in BOOLEAN, pPrev' \in [Procs -> Tasks \cup {NoTask}],
         UNCHANGED <<tableVars, state, counter, preempt_count, flag, depth, forkVars>>
  PROVE  IInv'
<1> USE DEF tableVars, forkVars
<1> DEFINE d == depth[current]  l == IF current = Boot THEN "dead" ELSE "tail"
<1>1. /\ current \in Procs /\ depth \in [Procs -> 1 .. 2] /\ l \in Loc /\ n \in Procs
      /\ d \in {1, 2} /\ d \in Levels /\ 1 \in Levels /\ 2 \in Levels
      /\ depth[n] \in {1, 2} /\ depth[n] \in Levels
  BY ConstantFacts DEF IInv, TypeOK, Loc, Critical, SchedLocs
<1>2. /\ frame'[current][d] = l
      /\ \A t \in Procs, e \in Levels : t # current \/ e # d => frame'[t][e] = frame[t][e]
      /\ frame' \in [Procs -> [Levels -> Loc]]
  BY <1>1, GotoFacts DEF IInv
<1>3. \A t \in Procs \ {current} : Top(t)' = Top(t)
  BY <1>1, <1>2, ConstantFacts DEF Top
<1>4. Top(n) \in ResumePoints /\ last[n][depth[n]] = NoTask
  BY Resumable DEF ForkLocs
<1>5. /\ last' \in [Procs -> [Levels -> Procs \cup {NoTask}]]
      /\ last'[n][depth[n]] = current
      /\ \A t \in Procs, e \in Levels : t # n \/ e # depth[n] => last'[t][e] = last[t][e]
  BY <1>1 DEF IInv, TypeOK
<1>6. TypeOK'
  BY <1>1, <1>2, <1>5 DEF IInv, TypeOK
<1>7. current = Boot => d = 1
  BY <1>1 DEF IInv, StackShape
<1>8. StackShape' /\ OthersWait' /\ NeverPreemptedInside'
  <2>1. depth' = depth /\ \A t \in Procs : depth[t] = 2 => frame'[t][1] = frame[t][1]
    BY <1>1, <1>2
  <2>2. StackShape'
    BY <1>1, <1>2, <1>7, <2>1 DEF IInv, StackShape, SchedLocs
  <2>3. NeverPreemptedInside'
    BY <1>1, <2>1 DEF IInv, NeverPreemptedInside
  <2>4. OthersWait'
    BY <1>1, <1>2, <1>3 DEF IInv, OthersWait, Top, ResumePoints
  <2> QED BY <2>2, <2>3, <2>4
<1>9. PreemptCountBalanced'
  <2>1. \A t \in Procs : frame'[t][1] \in Critical <=> frame[t][1] \in Critical
    BY <1>1, <1>2 DEF Top, Critical, ForkLocs, SchedLocs
  <2> QED BY <2>1 DEF IInv, PreemptCountBalanced
<1>10. \A t \in Procs, m \in {"none"} \cup ForkLocs : frame'[t][1] = m <=> frame[t][1] = m
  BY <1>1, <1>2 DEF Top, ForkLocs
<1>11. PagesTaken' /\ RingMatchesTable'
  <2>1. Publishing' = Publishing /\ Linked' = Linked
    BY <1>10 DEF Publishing, Linked, ForkLocs
  <2>2. RingMatchesTable'
    BY <2>1 DEF IInv, RingMatchesTable
  <2> QED BY <1>10, <2>1, <2>2, ConstantFacts DEF IInv, PagesTaken, ForkLocs
<1>12. BootPhase'
  <2>1. Boot \in Procs /\ n # Boot /\ \A t \in Tasks : t \in Procs /\ t # Boot
    BY ConstantFacts
  <2>2. CASE current = Boot
    BY <1>1, <1>2, <1>7, <2>1, <2>2 DEF IInv, BootPhase
  <2>3. CASE current # Boot
    <3>1. /\ nr_tasks >= 2 /\ frame[Boot][1] = "dead"
          /\ \A t \in Tasks : frame[t][1] \notin {"kmain", "dead"}
      BY <2>3 DEF IInv, BootPhase
    <3>2. frame'[Boot][1] = "dead"
      BY <1>1, <1>2, <2>1, <2>3, <3>1
    <3>3. l = "tail"
      BY <2>3
    <3>4. ASSUME NEW t \in Tasks PROVE frame'[t][1] \notin {"kmain", "dead"}
      BY <1>1, <1>2, <2>1, <3>1, <3>3
    <3> QED
      BY <2>1, <3>1, <3>2, <3>4 DEF BootPhase
  <2> QED BY <2>2, <2>3
<1>13. KernelProcessLives'
  <2>1. 1 \in Procs /\ 1 # Boot
    BY ConstantFacts
  <2>2. frame'[1][1] = frame[1][1]
    BY <1>1, <1>2, <2>1 DEF IInv, KernelProcessLives, Top
  <2> QED BY <2>2 DEF IInv, KernelProcessLives
<1>14. ZombiesExit' /\ WalkedPastZombies' /\ InterruptsOnInBodies'
  <2>1. Top(n)' \in ResumePoints
    BY <1>1, <1>3, <1>4
  <2>2. current = Boot => state[current] # "ZOMBIE"
    BY <1>1 DEF IInv, ZombiesExit, BootPhase, ForkLocs
  <2>3. ZombiesExit'
    BY <1>1, <1>2, <2>2 DEF IInv, ZombiesExit
  <2> QED
    BY <2>1, <2>3
    DEF WalkedPastZombies, InterruptsOnInBodies, At, Top, ResumePoints, Bodies, ForkLocs
<1>15. LastPending'
  <2> SUFFICES ASSUME NEW t \in Procs, NEW e \in Levels, last'[t][e] # NoTask
               PROVE  e <= depth[t] /\ frame'[t][e] \in ResumePoints /\ (t = n \/ e < depth[t])
    BY DEF LastPending
  <2>1. CASE t = n /\ e = depth[n]
    BY <1>1, <1>2, <1>4, <2>1 DEF Top
  <2>2. CASE t # n \/ e # depth[n]
    <3>1. e <= depth[t] /\ frame[t][e] \in ResumePoints /\ (t = current \/ e < depth[t])
      BY <1>5, <2>2 DEF IInv, LastPending
    <3>2. t # current \/ e # d
      BY <3>1 DEF Top, ResumePoints
    <3> QED BY <1>1, <1>2, <3>1, <3>2, ConstantFacts
  <2> QED BY <2>1, <2>2
<1>16. SliceTidiedOrOwed'
  <2> SUFFICES ASSUME NEW t \in Procs \ {n}, flag[t] \/ counter[t] > 0
               PROVE  \E u \in Procs, e \in Levels : last'[u][e] = t
    BY DEF SliceTidiedOrOwed
  <2>1. CASE t = current
    BY <1>1, <1>5, <2>1
  <2>2. CASE t # current
    <3>1. PICK u \in Procs, e \in Levels : last[u][e] = t
      BY <2>2 DEF IInv, SliceTidiedOrOwed
    <3>2. t # NoTask
      BY ConstantFacts
    <3> QED BY <1>4, <1>5, <3>1, <3>2
  <2> QED BY <2>1, <2>2
<1> QED
  BY <1>6, <1>8, <1>9, <1>11, <1>12, <1>13, <1>14, <1>15, <1>16 DEF IInv

(* __schedule switches to the task the walk has found.                     *)
LEMMA PickSwitchInv == IInv /\ PickSwitch => IInv'
<1> SUFFICES ASSUME IInv, PickSwitch PROVE IInv'
  OBVIOUS
<1> DEFINE n == next[pPrev[current]]
<1>1. current # Boot /\ nr_tasks >= 2 /\ n \in Tasks /\ n < nr_tasks
  BY NextInRing, ConstantFacts DEF PickSwitch, IInv, BootPhase
<1>2. n # current /\ state[n] # "ZOMBIE" /\ Top(current) = "pick"
  BY DEF PickSwitch, Skip, At
<1>3. irq_on' \in BOOLEAN /\ pPrev' \in [Procs -> Tasks \cup {NoTask}]
  BY DEF PickSwitch, IInv, TypeOK
<1>4. /\ frame' = Goto(IF current = Boot THEN "dead" ELSE "tail")
      /\ last' = [last EXCEPT ![n][depth[n]] = current] /\ current' = n
      /\ UNCHANGED <<tableVars, state, counter, preempt_count, flag, depth, forkVars>>
  BY <1>1 DEF PickSwitch
<1> HIDE DEF n
<1> QED BY <1>1, <1>2, <1>3, <1>4, SwitchStep

(* kernel_main switches to the first task and is gone.                     *)
LEMMA BootSwitchInv == IInv /\ BootSwitch => IInv'
<1> SUFFICES ASSUME IInv, BootSwitch PROVE IInv'
  OBVIOUS
<1>1. /\ current = Boot /\ Top(current) = "kmain" /\ 0 < nr_tasks /\ nr_tasks >= 2
      /\ 0 \in Tasks /\ 0 # current
  <2>1. Top(current) = "kmain" /\ nr_tasks = 2
    BY DEF BootSwitch, At
  <2>2. current \in Procs /\ frame[current][1] = "kmain"
    BY <2>1, FirstActivation DEF SchedLocs
  <2> QED BY <2>1, <2>2, ConstantFacts DEF IInv, BootPhase
<1>2. task[0] = 0 /\ state[0] # "ZOMBIE"
  BY <1>1, ConstantFacts DEF IInv, PagesTaken, BootPhase, ZombiesExit
<1>3. irq_on' \in BOOLEAN /\ pPrev' \in [Procs -> Tasks \cup {NoTask}]
  <2>1. irq_on' \in BOOLEAN
    BY Zenon DEF BootSwitch
  <2> QED BY <2>1 DEF BootSwitch, IInv, TypeOK
<1>4. /\ frame' = Goto(IF current = Boot THEN "dead" ELSE "tail")
      /\ last' = [last EXCEPT ![0][depth[0]] = current] /\ current' = 0
      /\ UNCHANGED <<tableVars, state, counter, preempt_count, flag, depth, forkVars>>
  BY <1>1, <1>2 DEF BootSwitch
<1> QED BY <1>1, <1>2, <1>3, <1>4, SwitchStep

(* __schedule when the walk has come back to the running task.             *)
LEMMA PickSelfInv == IInv /\ PickSelf => IInv'
<1> SUFFICES ASSUME IInv, PickSelf PROVE IInv'
  OBVIOUS
<1> DEFINE d == depth[current]
<1>1. /\ current \in Tasks /\ current \in Procs /\ depth \in [Procs -> 1 .. 2]
      /\ d \in {1, 2} /\ d \in Levels /\ 1 \in Levels /\ 2 \in Levels
      /\ frame[current][d] = "pick" /\ "tail" \in Loc /\ current # Boot
  BY NextInRing, ConstantFacts
  DEF IInv, TypeOK, PickSelf, At, Top, Loc, Critical, SchedLocs
<1>2. /\ frame'[current][d] = "tail"
      /\ \A t \in Procs, e \in Levels : t # current \/ e # d => frame'[t][e] = frame[t][e]
      /\ frame' \in [Procs -> [Levels -> Loc]]
  BY <1>1, GotoFacts DEF IInv, PickSelf
<1>3. UNCHANGED <<current, irq_on, task, nr_tasks, next, state, counter, preempt_count, flag,
                  depth, newTask, failed, fn>>
  BY DEF PickSelf, tableVars, forkVars
<1>4. /\ last' \in [Procs -> [Levels -> Procs \cup {NoTask}]]
      /\ \A t \in Procs, e \in Levels : t # current \/ e # d => last'[t][e] = last[t][e]
  <2>1. PICK junk \in Procs \cup {NoTask} : last' = [last EXCEPT ![current][d] = junk]
    BY DEF PickSelf
  <2> QED BY <1>1, <2>1 DEF IInv, TypeOK
<1>5. TypeOK'
  BY <1>2, <1>3, <1>4 DEF IInv, TypeOK, PickSelf
<1>6. \A t \in Procs \ {current} : Top(t)' = Top(t)
  BY <1>1, <1>2, <1>3, ConstantFacts DEF Top
<1>7. StackShape' /\ OthersWait' /\ NeverPreemptedInside'
  BY <1>1, <1>2, <1>3, <1>6
  DEF IInv, StackShape, OthersWait, NeverPreemptedInside, SchedLocs
<1>8. PreemptCountBalanced'
  <2>1. \A t \in Procs : frame'[t][1] \in Critical <=> frame[t][1] \in Critical
    BY <1>1, <1>2 DEF Critical, SchedLocs
  <2> QED BY <1>3, <2>1 DEF IInv, PreemptCountBalanced
<1>9. \A t \in Procs, m \in {"none", "born", "kfn", "kmain", "dead"} \cup ForkLocs :
         frame'[t][1] = m <=> frame[t][1] = m
  BY <1>1, <1>2 DEF ForkLocs
<1>10. PagesTaken' /\ RingMatchesTable'
  <2>1. Publishing' = Publishing /\ Linked' = Linked
    BY <1>3, <1>9 DEF Publishing, Linked, ForkLocs
  <2>2. RingMatchesTable'
    BY <1>3, <2>1 DEF IInv, RingMatchesTable
  <2> QED BY <1>3, <1>9, <2>1, <2>2, ConstantFacts DEF IInv, PagesTaken, ForkLocs
<1>11. BootPhase' /\ KernelProcessLives'
  <2>1. 1 \in Procs /\ Boot \in Procs /\ \A t \in Tasks : t \in Procs
    BY ConstantFacts
  <2> QED BY <1>1, <1>3, <1>9, <2>1 DEF IInv, BootPhase, KernelProcessLives
<1>12. ZombiesExit' /\ WalkedPastZombies' /\ InterruptsOnInBodies'
  <2>1. state[current] # "ZOMBIE"
    BY DEF PickSelf, Skip
  <2>2. ZombiesExit'
    BY <1>1, <1>2, <1>3, <2>1 DEF IInv, ZombiesExit
  <2> QED
    BY <1>2, <1>3, <2>2
    DEF WalkedPastZombies, InterruptsOnInBodies, At, Top, Bodies, ForkLocs
<1>13. LastPending'
  BY SMTT(30), <1>1, <1>2, <1>3, <1>4 DEF IInv, LastPending, ResumePoints
<1>14. SliceTidiedOrOwed'
  <2> SUFFICES ASSUME NEW t \in Procs \ {current}, flag[t] \/ counter[t] > 0
               PROVE  \E u \in Procs, e \in Levels : last'[u][e] = t
    BY <1>3 DEF SliceTidiedOrOwed
  <2>1. PICK u \in Procs, e \in Levels : last[u][e] = t
    BY DEF IInv, SliceTidiedOrOwed
  <2>2. last[current][d] = NoTask /\ t # NoTask
    BY <1>1, ConstantFacts DEF IInv, LastPending, ResumePoints
  <2> QED BY <1>4, <2>1, <2>2
<1> QED
  BY <1>5, <1>7, <1>8, <1>10, <1>11, <1>12, <1>13, <1>14 DEF IInv

----------------------------------------------------------------------------
(* The timer interrupt that preempts: a second activation on the stack of  *)
(* a task that is in no critical section and holds no preempt_count.       *)
LEMMA El1IrqPreemptInv == IInv /\ El1IrqPreempt => IInv'
<1> SUFFICES ASSUME IInv, El1IrqPreempt PROVE IInv'
  OBVIOUS
<1>1. /\ current \in Procs /\ depth \in [Procs -> 1 .. 2] /\ depth[current] \in {1, 2}
      /\ 1 \in Levels /\ 2 \in Levels
      /\ preempt_count[current] = 0 /\ failed[current] \in Nat
      /\ Top(current) # "user" /\ flag'[current] = TRUE
  BY ConstantFacts DEF IInv, TypeOK, El1IrqPreempt, MayPreempt, At
<1>2. depth[current] = 1 /\ frame[current][1] \notin Critical /\ failed[current] = 0
  BY <1>1 DEF IInv, PreemptCountBalanced
<1>3. current # Boot
  <2> SUFFICES ASSUME current = Boot PROVE FALSE
    OBVIOUS
  <2>1. /\ ~flag[current] /\ counter[current] \in Nat /\ ~(counter[current] + 1 >= TaskSlice)
    BY <1>1, ConstantFacts DEF IInv, TypeOK, BootPhase, El1IrqPreempt, BootTickBound
  <2>2. flag'[current] = (flag[current] \/ counter[current] + 1 >= TaskSlice)
    BY <1>1 DEF IInv, TypeOK, El1IrqPreempt, task_tick
  <2> QED BY <1>1, <2>1, <2>2
<1>4. /\ current \in Tasks /\ current < nr_tasks /\ frame[current][1] \notin {"none", "dead", "user"}
      /\ frame[current][1] # "tail"
  <2>1. current \in Tasks /\ current < nr_tasks
    BY <1>1, <1>3, ConstantFacts DEF IInv, BootPhase
  <2>2. ~Publishing
    BY <1>2, NotForking DEF Top, Critical, ForkLocs
  <2>3. frame[current][1] \notin {"none", "dead"}
    BY <1>3, <2>1, <2>2, ConstantFacts DEF IInv, PagesTaken, BootPhase, TypeOK
  <2> QED BY <1>1, <1>2, <2>1, <2>3 DEF Top, Critical, SchedLocs
<1>5. UNCHANGED <<current, irq_on, task, nr_tasks, next, state, last, newTask, failed, fn>>
  BY DEF El1IrqPreempt, tableVars, forkVars
<1>6. /\ frame' \in [Procs -> [Levels -> Loc]] /\ frame'[current][2] = "pick"
      /\ \A t \in Procs, e \in Levels : t # current \/ e # 2 => frame'[t][e] = frame[t][e]
  <2>1. frame' = [frame EXCEPT ![current][2] = "pick"] /\ "pick" \in Loc
    BY <1>2 DEF El1IrqPreempt, Loc, Critical, SchedLocs
  <2> QED BY <1>1, <2>1 DEF IInv, TypeOK
<1>7. /\ depth' \in [Procs -> 1 .. 2] /\ depth'[current] = 2
      /\ \A t \in Procs \ {current} : depth'[t] = depth[t]
  BY <1>1, <1>2 DEF El1IrqPreempt
<1>8. /\ preempt_count' \in [Procs -> 0 .. MaxFailedForks + 1] /\ preempt_count'[current] = 1
      /\ \A t \in Procs \ {current} : preempt_count'[t] = preempt_count[t]
  BY <1>1, ConstantFacts DEF IInv, TypeOK, El1IrqPreempt, PreemptDisable
<1>9. /\ counter' \in [Procs -> 0 .. TaskSlice] /\ flag' \in [Procs -> BOOLEAN]
      /\ \A t \in Procs \ {current} : counter'[t] = counter[t] /\ flag'[t] = flag[t]
  BY TickFacts DEF IInv, El1IrqPreempt
<1>10. pPrev' \in [Procs -> Tasks \cup {NoTask}] /\ pPrev'[current] = current
  BY <1>3, StartPickFacts DEF IInv, El1IrqPreempt
<1>11. TypeOK'
  BY <1>5, <1>6, <1>7, <1>8, <1>9, <1>10 DEF IInv, TypeOK
<1>12. \A t \in Procs : frame'[t][1] = frame[t][1]
  BY <1>1, <1>6
<1>13. StackShape' /\ OthersWait' /\ NeverPreemptedInside'
  <2>1. StackShape' /\ NeverPreemptedInside'
    BY <1>1, <1>2, <1>3, <1>4, <1>6, <1>7, <1>12
    DEF IInv, StackShape, NeverPreemptedInside, SchedLocs
  <2>2. \A t \in Procs \ {current} : Top(t)' = Top(t)
    BY <1>1, <1>6, <1>7, ConstantFacts DEF Top
  <2> QED BY <1>5, <2>1, <2>2 DEF IInv, OthersWait
<1>14. PreemptCountBalanced'
  <2> SUFFICES ASSUME NEW t \in Procs
               PROVE  preempt_count'[t] = failed[t] + (depth'[t] - 1)
                                            + (IF frame[t][1] \in Critical THEN 1 ELSE 0)
    BY <1>5, <1>12 DEF PreemptCountBalanced
  <2>1. CASE t = current
    BY <1>2, <1>7, <1>8, <2>1
  <2>2. CASE t # current
    BY <1>7, <1>8, <2>2 DEF IInv, PreemptCountBalanced
  <2> QED BY <2>1, <2>2
<1>15. PagesTaken' /\ RingMatchesTable'
  <2>1. Publishing' = Publishing /\ Linked' = Linked
    BY <1>5, <1>12 DEF Publishing, Linked
  <2>2. RingMatchesTable'
    BY <1>5, <2>1 DEF IInv, RingMatchesTable
  <2> QED BY <1>5, <1>12, <2>1, <2>2, ConstantFacts DEF IInv, PagesTaken
<1>16. BootPhase' /\ KernelProcessLives' /\ ZombiesExit'
  <2>1. 1 \in Procs /\ Boot \in Procs /\ \A t \in Tasks : t \in Procs
    BY ConstantFacts
  <2>2. Top(current)' = "pick"
    BY <1>5, <1>6, <1>7 DEF Top
  <2> QED
    BY <1>3, <1>5, <1>12, <2>1, <2>2 DEF IInv, BootPhase, KernelProcessLives, ZombiesExit
<1>17. WalkedPastZombies' /\ InterruptsOnInBodies'
  <2>1. Passed(current, current) = {}
    BY <1>4, ConstantFacts DEF Passed
  <2>2. Top(current)' = "pick"
    BY <1>5, <1>6, <1>7 DEF Top
  <2>3. WalkedPastZombies'
    BY <1>4, <1>5, <1>10, <2>1 DEF WalkedPastZombies, Passed
  <2> QED BY <2>2, <2>3 DEF InterruptsOnInBodies, Bodies, ForkLocs
<1>18. LastPending'
  <2> SUFFICES ASSUME NEW t \in Procs, NEW e \in Levels, last[t][e] # NoTask
               PROVE  e <= depth'[t] /\ frame'[t][e] \in ResumePoints
                        /\ (t = current \/ e < depth'[t])
    BY <1>5 DEF LastPending
  <2>1. e <= depth[t] /\ frame[t][e] \in ResumePoints /\ (t = current \/ e < depth[t])
    BY DEF IInv, LastPending
  <2>2. CASE t = current
    BY <1>2, <1>6, <1>7, <2>1, <2>2, ConstantFacts
  <2>3. CASE t # current
    BY <1>6, <1>7, <2>1, <2>3
  <2> QED BY <2>2, <2>3
<1>19. SliceTidiedOrOwed'
  BY <1>5, <1>9 DEF IInv, SliceTidiedOrOwed
<1> QED
  BY <1>11, <1>13, <1>14, <1>15, <1>16, <1>17, <1>18, <1>19 DEF IInv

(* ... and its end: the interrupted code goes on.                          *)
LEMMA PreemptReturnInv == IInv /\ PreemptReturn => IInv'
<1> SUFFICES ASSUME IInv, PreemptReturn PROVE IInv'
  OBVIOUS
<1>1. /\ current \in Procs /\ depth \in [Procs -> 1 .. 2] /\ depth[current] = 2
      /\ 1 \in Levels /\ 2 \in Levels /\ frame[current][2] = "enable"
  BY ConstantFacts DEF IInv, TypeOK, PreemptReturn, At, Top
<1>2. /\ frame[current][1] \notin Critical
      /\ frame[current][1] \notin {"none", "user", "dead"} /\ current # Boot
  BY <1>1 DEF IInv, StackShape, NeverPreemptedInside
<1>3. UNCHANGED <<current, task, nr_tasks, next, state, counter, flag, last, pPrev, newTask,
                  failed, fn>>
  BY DEF PreemptReturn, tableVars, forkVars
<1>4. /\ frame' \in [Procs -> [Levels -> Loc]]
      /\ \A t \in Procs, e \in Levels : t # current \/ e # 2 => frame'[t][e] = frame[t][e]
  BY <1>1, GotoFacts DEF IInv, PreemptReturn, Loc
<1>5. /\ depth' \in [Procs -> 1 .. 2] /\ depth'[current] = 1
      /\ \A t \in Procs \ {current} : depth'[t] = depth[t]
  BY <1>1 DEF PreemptReturn
<1>6. preempt_count[current] = failed[current] + 1 /\ failed[current] \in 0 .. MaxFailedForks
  BY <1>1, <1>2, ConstantFacts DEF IInv, TypeOK, PreemptCountBalanced
<1>7. /\ preempt_count' \in [Procs -> 0 .. MaxFailedForks + 1]
      /\ preempt_count'[current] = failed[current]
      /\ \A t \in Procs \ {current} : preempt_count'[t] = preempt_count[t]
  BY <1>1, <1>6, ConstantFacts DEF IInv, TypeOK, PreemptReturn, PreemptEnable
<1>8. TypeOK'
  BY <1>3, <1>4, <1>5, <1>7 DEF IInv, TypeOK, PreemptReturn
<1>9. \A t \in Procs : frame'[t][1] = frame[t][1]
  BY <1>1, <1>4
<1>10. /\ Top(current)' = frame[current][1]
       /\ \A t \in Procs \ {current} : Top(t)' = Top(t)
  BY <1>1, <1>3, <1>4, <1>5, <1>9, ConstantFacts DEF Top
<1>11. StackShape' /\ OthersWait' /\ NeverPreemptedInside'
  BY <1>1, <1>3, <1>4, <1>5, <1>9, <1>10
  DEF IInv, StackShape, OthersWait, NeverPreemptedInside
<1>12. PreemptCountBalanced'
  <2> SUFFICES ASSUME NEW t \in Procs
               PROVE  preempt_count'[t] = failed[t] + (depth'[t] - 1)
                                            + (IF frame[t][1] \in Critical THEN 1 ELSE 0)
    BY <1>3, <1>9 DEF PreemptCountBalanced
  <2>1. CASE t = current
    BY <1>2, <1>5, <1>6, <1>7, <2>1, ConstantFacts
  <2>2. CASE t # current
    BY <1>5, <1>7, <2>2 DEF IInv, PreemptCountBalanced
  <2> QED BY <2>1, <2>2
<1>13. PagesTaken' /\ RingMatchesTable'
  <2>1. Publishing' = Publishing /\ Linked' = Linked
    BY <1>3, <1>9 DEF Publishing, Linked
  <2>2. RingMatchesTable'
    BY <1>3, <2>1 DEF IInv, RingMatchesTable
  <2> QED BY <1>3, <1>9, <2>1, <2>2, ConstantFacts DEF IInv, PagesTaken
<1>14. BootPhase' /\ KernelProcessLives' /\ ZombiesExit'
  <2>1. 1 \in Procs /\ Boot \in Procs /\ \A t \in Tasks : t \in Procs
    BY ConstantFacts
  <2>2. state[current] # "ZOMBIE"
    BY <1>1 DEF IInv, ZombiesExit, Top
  <2> QED
    BY <1>2, <1>3, <1>9, <2>1, <2>2 DEF IInv, BootPhase, KernelProcessLives, ZombiesExit
<1>15. WalkedPastZombies' /\ InterruptsOnInBodies'
  <2>1. ~At("pick")'
    BY <1>2, <1>3, <1>10 DEF At, Critical, SchedLocs
  <2>2. irq_on'
    BY DEF PreemptReturn
  <2> QED BY <2>1, <2>2 DEF WalkedPastZombies, InterruptsOnInBodies
<1>16. LastPending'
  <2> SUFFICES ASSUME NEW t \in Procs, NEW e \in Levels, last[t][e] # NoTask
               PROVE  e <= depth'[t] /\ frame'[t][e] \in ResumePoints
                        /\ (t = current \/ e < depth'[t])
    BY <1>3 DEF LastPending
  <2>1. e <= depth[t] /\ frame[t][e] \in ResumePoints /\ (t = current \/ e < depth[t])
    BY DEF IInv, LastPending
  <2>2. CASE t = current
    <3>1. e # 2
      BY <1>1, <2>1, <2>2 DEF ResumePoints
    <3> QED BY <1>1, <1>4, <1>5, <2>1, <2>2, <3>1, ConstantFacts
  <2>3. CASE t # current
    BY <1>4, <1>5, <2>1, <2>3
  <2> QED BY <2>2, <2>3
<1>17. SliceTidiedOrOwed'
  BY <1>3 DEF IInv, SliceTidiedOrOwed
<1> QED
  BY <1>8, <1>11, <1>12, <1>13, <1>14, <1>15, <1>16, <1>17 DEF IInv

----------------------------------------------------------------------------
(* A first activation has disabled preemption at most once, leaks aside.   *)
LEMMA PreemptCountRange ==
  ASSUME IInv, depth[current] = 1
  PROVE  /\ preempt_count[current] = failed[current] + Crit(frame[current][1])
         /\ failed[current] \in 0 .. MaxFailedForks
BY ConstantFacts DEF IInv, TypeOK, PreemptCountBalanced, Crit

(* do_fork, up to the new task_struct.                                     *)
LEMMA DoForkAllocInv == IInv /\ DoForkAlloc => IInv'
<1> SUFFICES ASSUME IInv, DoForkAlloc PROVE IInv'
  OBVIOUS
<1> DEFINE p == nr_tasks
<1>1. Top(current) = "fork_alloc"
  BY DEF DoForkAlloc, At
<1>2. /\ current \in Procs /\ depth[current] = 1 /\ depth \in [Procs -> 1 .. 2]
      /\ Top(current) = frame[current][1] /\ 1 \in Levels /\ 2 \in Levels
  BY <1>1, FirstActivation, ConstantFacts DEF IInv, TypeOK, SchedLocs
<1>3. ~Publishing /\ Linked = nr_tasks
  BY <1>1, NotForking
<1>4. Fresh = {q \in Tasks : q >= nr_tasks}
  BY <1>3 DEF IInv, PagesTaken, Fresh
<1>5. p \in Tasks /\ p \in Fresh /\ \A q \in Fresh : (\A r \in Fresh : q <= r) => q = p
  <2>1. PICK q \in Fresh : TRUE
    BY DEF DoForkAlloc
  <2>2. nr_tasks \in Nat
    BY DEF IInv, TypeOK
  <2>3. p \in Tasks /\ p \in Fresh
    BY <1>4, <2>1, <2>2, ConstantFacts
  <2> QED BY <1>4, <2>2, <2>3, ConstantFacts
<1>6. /\ newTask' = [newTask EXCEPT ![current] = p] /\ fn' = [fn EXCEPT ![p] = ForkFn]
      /\ frame' = [frame EXCEPT ![current][1] = "fork_publish", ![p][1] = "born"]
  BY <1>2, <1>5 DEF DoForkAlloc
<1>7. /\ p \in Procs /\ p # Boot /\ p # current /\ frame[p][1] = "none" /\ depth[p] = 1
      /\ state[p] # "ZOMBIE"
  <2>1. p \in Procs /\ p # Boot /\ frame[p][1] = "none"
    BY <1>5, ConstantFacts DEF Fresh
  <2>2. depth[p] = 1
    BY <1>2, <2>1 DEF IInv, StackShape
  <2> QED BY <1>1, <1>2, <2>1, <2>2 DEF IInv, ZombiesExit
<1>8. UNCHANGED <<current, irq_on, task, nr_tasks, next, state, counter, preempt_count, flag,
                  depth, last, pPrev, failed>>
  BY DEF DoForkAlloc, tableVars
<1>9. /\ frame' \in [Procs -> [Levels -> Loc]]
      /\ frame'[current][1] = "fork_publish" /\ frame'[p][1] = "born"
      /\ \A t \in Procs, e \in Levels :
           (t \notin {current, p} \/ e # 1) => frame'[t][e] = frame[t][e]
  <2>1. "fork_publish" \in Loc /\ "born" \in Loc
    BY DEF Loc, Critical, ForkLocs
  <2> QED BY <1>2, <1>6, <1>7, <2>1 DEF IInv, TypeOK
<1>10. /\ newTask' \in [Procs -> Tasks \cup {NoTask}] /\ newTask'[current] = p
       /\ fn' \in [Procs -> Fns] /\ fn'[p] = ForkFn /\ \A t \in Procs \ {p} : fn'[t] = fn[t]
  BY <1>2, <1>5, <1>6, <1>7 DEF IInv, TypeOK, ForkFn, Fns
<1>11. TypeOK'
  BY <1>8, <1>9, <1>10 DEF IInv, TypeOK
<1>12. StackShape' /\ OthersWait' /\ NeverPreemptedInside'
  <2>1. \A t \in Procs \ {current, p} : Top(t)' = Top(t)
    BY <1>2, <1>8, <1>9, ConstantFacts DEF Top
  <2>2. Top(p)' = "born"
    BY <1>7, <1>8, <1>9 DEF Top
  <2>3. \A t \in Procs : depth[t] = 2 => t \notin {current, p}
    BY <1>2, <1>7
  <2>4. StackShape' /\ NeverPreemptedInside'
    BY <1>2, <1>8, <1>9, <2>3 DEF IInv, StackShape, NeverPreemptedInside
  <2> QED BY <1>8, <2>1, <2>2, <2>4 DEF IInv, OthersWait, ResumePoints
<1>13. PreemptCountBalanced'
  <2> SUFFICES ASSUME NEW t \in Procs
               PROVE  preempt_count[t] = failed[t] + (depth[t] - 1) + Crit(frame'[t][1])
    BY <1>8 DEF PreemptCountBalanced, Crit
  <2>1. preempt_count[t] = failed[t] + (depth[t] - 1) + Crit(frame[t][1])
    BY DEF IInv, PreemptCountBalanced, Crit
  <2>2. /\ Crit("born") = 0 /\ Crit("none") = 0 /\ Crit("fork_alloc") = 1
        /\ Crit("fork_publish") = 1
    BY DEF Crit, Critical, ForkLocs, SchedLocs
  <2>3. preempt_count[t] \in Int /\ failed[t] \in Int /\ depth[t] \in Int
    BY ConstantFacts DEF IInv, TypeOK
  <2>4. CASE t = current
    BY <1>1, <1>2, <1>9, <2>1, <2>2, <2>3, <2>4
  <2>5. CASE t = p
    BY <1>7, <1>9, <2>1, <2>2, <2>3, <2>5
  <2>6. CASE t \notin {current, p}
    BY <1>2, <1>9, <2>1, <2>6
  <2> QED BY <2>4, <2>5, <2>6
<1>14. PagesTaken'
  <2>1. Publishing'
    BY <1>2, <1>9 DEF Publishing
  <2>2. \A q \in Tasks : frame'[q][1] = "none" <=> q > nr_tasks
    <3> SUFFICES ASSUME NEW q \in Tasks PROVE frame'[q][1] = "none" <=> q > nr_tasks
      OBVIOUS
    <3>1. q \in Procs /\ q \in Int /\ nr_tasks \in Int
      BY ConstantFacts DEF IInv, TypeOK
    <3>2. frame[q][1] = "none" <=> q >= nr_tasks
      BY <1>3 DEF IInv, PagesTaken
    <3>3. q = current => frame[q][1] # "none" /\ frame'[q][1] # "none"
      BY <1>1, <1>2, <1>9
    <3>4. q = p => frame'[q][1] # "none"
      BY <1>9
    <3>5. q \notin {current, p} => frame'[q][1] = frame[q][1]
      BY <1>2, <1>9, <3>1
    <3> QED BY <3>1, <3>2, <3>3, <3>4, <3>5
  <2>3. \A t \in Procs : frame'[t][1] \in {"fork_publish", "fork_link"} => t = current
    BY <1>2, <1>3, <1>7, <1>8, <1>9, NotForking, <1>1
  <2>4. nr_tasks < MaxTasks
    BY <1>5, ConstantFacts
  <2> QED BY <1>2, <1>8, <1>9, <1>10, <2>1, <2>2, <2>3, <2>4 DEF IInv, PagesTaken
<1>15. RingMatchesTable'
  <2>1. Linked' = Linked
    <3>1. \A t \in Procs : frame'[t][1] # "fork_link" /\ frame[t][1] # "fork_link"
      BY <1>1, <1>2, <1>9, NotForking
    <3> QED BY <1>8, <3>1 DEF Linked
  <2> QED BY <1>8, <2>1 DEF IInv, RingMatchesTable
<1>16. BootPhase'
  <2>1. Boot \in Procs /\ Boot # p /\ \A t \in Tasks : t \in Procs
    BY <1>7, ConstantFacts
  <2>2. CASE current = Boot
    <3> QED BY <1>1, <1>2, <1>8, <1>9, <2>1, <2>2 DEF IInv, BootPhase, ForkLocs
  <2>3. CASE current # Boot
    BY <1>2, <1>8, <1>9, <2>1, <2>3 DEF IInv, BootPhase
  <2> QED BY <2>2, <2>3
<1>17. KernelProcessLives'
  <2>1. 1 \in Tasks /\ 1 \in Procs /\ current # 1
    BY <1>1, <1>2, ConstantFacts DEF IInv, KernelProcessLives
  <2>2. CASE p = 1
    <3>1. current = Boot
      BY <2>2 DEF IInv, BootPhase
    <3> QED BY <1>9, <1>10, <2>2, <3>1 DEF KernelProcessLives, ForkFn
  <2>3. CASE p # 1
    BY <1>2, <1>9, <1>10, <2>1, <2>3 DEF IInv, KernelProcessLives
  <2> QED BY <2>2, <2>3
<1>18. ZombiesExit' /\ WalkedPastZombies' /\ InterruptsOnInBodies'
  <2>1. state[current] # "ZOMBIE" /\ Top(current)' = "fork_publish"
    BY <1>1, <1>2, <1>8, <1>9 DEF IInv, ZombiesExit, Top
  <2>2. ZombiesExit'
    BY <1>2, <1>7, <1>8, <1>9, <2>1 DEF IInv, ZombiesExit
  <2>3. irq_on
    BY <1>1 DEF IInv, InterruptsOnInBodies, Bodies, ForkLocs
  <2> QED BY <1>8, <2>1, <2>2, <2>3 DEF WalkedPastZombies, InterruptsOnInBodies, At
<1>19. LastPending'
  <2> SUFFICES ASSUME NEW t \in Procs, NEW e \in Levels, last[t][e] # NoTask
               PROVE  frame'[t][e] \in ResumePoints
    BY <1>8 DEF IInv, LastPending
  <2>1. frame[t][e] \in ResumePoints
    BY DEF IInv, LastPending
  <2>2. frame[p][1] \notin ResumePoints /\ frame[current][1] \notin ResumePoints
    BY <1>1, <1>2, <1>7 DEF ResumePoints
  <2> QED BY <1>9, <2>1, <2>2
<1>20. SliceTidiedOrOwed'
  BY <1>8 DEF IInv, SliceTidiedOrOwed
<1> QED
  BY <1>11, <1>12, <1>13, <1>14, <1>15, <1>16, <1>17, <1>18, <1>19, <1>20 DEF IInv

(* The two steps of do_fork that put the new task into the table and into  *)
(* the ring.  They move their task on and leave every count, slice and     *)
(* stack alone.                                                            *)
LEMMA ForkStep ==
  ASSUME IInv, NEW l \in {"fork_link", "fork_end"}, Top(current) \in {"fork_publish", "fork_link"},
         frame' = Goto(l), newTask' \in [Procs -> Tasks \cup {NoTask}],
         UNCHANGED <<current, irq_on, state, counter, preempt_count, flag, fn, depth, last,
                     pPrev, failed>>
  PROVE  /\ current \in Procs /\ depth[current] = 1 /\ Top(current) = frame[current][1]
         /\ frame' \in [Procs -> [Levels -> Loc]] /\ frame'[current][1] = l
         /\ \A t \in Procs, e \in Levels :
              t # current \/ e # 1 => frame'[t][e] = frame[t][e]
         /\ (StackShape /\ OthersWait /\ NeverPreemptedInside /\ PreemptCountBalanced)'
         /\ (WalkedPastZombies /\ KernelProcessLives /\ ZombiesExit)'
         /\ (InterruptsOnInBodies /\ LastPending /\ SliceTidiedOrOwed)'
         /\ \A t \in Procs \ {current} : frame[t][1] \notin ForkLocs
<1>1. /\ current \in Procs /\ depth[current] = 1 /\ Top(current) = frame[current][1]
      /\ depth \in [Procs -> 1 .. 2] /\ 1 \in Levels /\ 2 \in Levels /\ l \in Loc
  BY FirstActivation, ConstantFacts DEF IInv, TypeOK, SchedLocs, Loc, Critical, ForkLocs
<1>2. /\ frame' \in [Procs -> [Levels -> Loc]] /\ frame'[current][1] = l
      /\ \A t \in Procs, e \in Levels : t # current \/ e # 1 => frame'[t][e] = frame[t][e]
  BY <1>1, GotoFacts DEF IInv
<1>3. \A t \in Procs \ {current} : Top(t)' = Top(t)
  BY <1>1, <1>2, ConstantFacts DEF Top
<1>4. Top(current)' = l
  BY <1>1, <1>2 DEF Top
<1>5. (StackShape /\ OthersWait /\ NeverPreemptedInside)'
  BY SMTT(30), <1>1, <1>2, <1>3 DEF IInv, StackShape, OthersWait, NeverPreemptedInside
<1>6. PreemptCountBalanced'
  <2>1. \A t \in Procs : frame'[t][1] \in Critical <=> frame[t][1] \in Critical
    BY <1>1, <1>2 DEF Critical, ForkLocs
  <2> QED BY <2>1 DEF IInv, PreemptCountBalanced
<1>7. (WalkedPastZombies /\ KernelProcessLives /\ ZombiesExit)'
  <2>1. current # 1 /\ 1 \in Procs /\ state[current] # "ZOMBIE"
    BY <1>1, ConstantFacts DEF IInv, KernelProcessLives, ZombiesExit
  <2>2. frame'[1][1] = frame[1][1]
    BY <1>1, <1>2, <2>1
  <2>3. ZombiesExit'
    BY <1>1, <1>2, <2>1 DEF IInv, ZombiesExit
  <2> QED BY <1>4, <2>2, <2>3 DEF IInv, WalkedPastZombies, KernelProcessLives, At
<1>8. InterruptsOnInBodies'
  BY DEF IInv, InterruptsOnInBodies, Bodies, ForkLocs
<1>9. LastPending' /\ SliceTidiedOrOwed'
  BY <1>1, <1>2 DEF IInv, LastPending, SliceTidiedOrOwed, ResumePoints
<1>10. \A t \in Procs \ {current} : frame[t][1] \notin ForkLocs
  BY CriticalRuns DEF Critical, ForkLocs
<1> QED BY <1>1, <1>2, <1>5, <1>6, <1>7, <1>8, <1>9, <1>10

(* do_fork puts the new task into the table.                               *)
LEMMA DoForkPublishInv == IInv /\ DoForkPublish => IInv'
<1> SUFFICES ASSUME IInv, DoForkPublish PROVE IInv'
  OBVIOUS
<1>1. /\ UNCHANGED <<current, irq_on, state, counter, preempt_count, flag, next, fn, depth,
                     last, pPrev, newTask, failed>>
      /\ frame' = Goto("fork_link") /\ Top(current) = "fork_publish"
      /\ nr_tasks' = nr_tasks + 1 /\ task' = [task EXCEPT ![nr_tasks] = newTask[current]]
      /\ newTask' \in [Procs -> Tasks \cup {NoTask}]
  BY DEF DoForkPublish, At, IInv, TypeOK
<1>2. /\ current \in Procs /\ depth[current] = 1 /\ frame[current][1] = "fork_publish"
      /\ frame' \in [Procs -> [Levels -> Loc]] /\ frame'[current][1] = "fork_link"
      /\ \A t \in Procs, e \in Levels : t # current \/ e # 1 => frame'[t][e] = frame[t][e]
      /\ \A t \in Procs \ {current} : frame[t][1] \notin ForkLocs
      /\ (StackShape /\ OthersWait /\ NeverPreemptedInside /\ PreemptCountBalanced)'
      /\ (WalkedPastZombies /\ KernelProcessLives /\ ZombiesExit)'
      /\ (InterruptsOnInBodies /\ LastPending /\ SliceTidiedOrOwed)'
  BY <1>1, ForkStep
<1>3. /\ newTask[current] = nr_tasks /\ nr_tasks < MaxTasks /\ nr_tasks \in Nat
      /\ nr_tasks \in Tasks /\ Publishing
  BY <1>2, ConstantFacts DEF IInv, TypeOK, PagesTaken, Publishing
<1>4. 1 \in Levels /\ \A t \in Tasks : t \in Procs
  BY ConstantFacts
<1>5. task' \in [Tasks -> Tasks \cup {NoTask}] /\ nr_tasks' \in 0 .. MaxTasks
      /\ \A i \in Tasks : task'[i] = IF i = nr_tasks THEN nr_tasks ELSE task[i]
  BY <1>1, <1>3, ConstantFacts DEF IInv, TypeOK
<1>6. TypeOK'
  BY <1>1, <1>2, <1>5 DEF IInv, TypeOK
<1>7. ~Publishing' /\ Linked' = nr_tasks /\ Linked = nr_tasks
  <2>1. \A t \in Procs : frame[t][1] # "fork_link" /\ frame'[t][1] # "fork_publish"
    BY <1>2, <1>4 DEF ForkLocs
  <2> QED BY <1>1, <1>2, <1>3, <2>1, ConstantFacts DEF Publishing, Linked
<1>8. PagesTaken'
  <2>1. \A q \in Tasks : frame'[q][1] = "none" <=> q >= nr_tasks'
    <3> SUFFICES ASSUME NEW q \in Tasks PROVE frame'[q][1] = "none" <=> q > nr_tasks
      BY <1>1, <1>3, ConstantFacts
    <3>1. frame[q][1] = "none" <=> q > nr_tasks
      BY <1>3 DEF IInv, PagesTaken
    <3>2. frame'[q][1] = "none" <=> frame[q][1] = "none"
      BY <1>2, <1>4
    <3> QED BY <3>1, <3>2
  <2>2. \A i \in Tasks : task'[i] = IF i < nr_tasks' THEN i ELSE NoTask
    BY <1>1, <1>3, <1>5, ConstantFacts DEF IInv, PagesTaken
  <2>3. \A t \in Procs : frame'[t][1] # "fork_publish"
    BY <1>7 DEF Publishing
  <2> QED BY <1>1, <1>3, <1>7, <2>1, <2>2, <2>3 DEF PagesTaken
<1>9. RingMatchesTable'
  BY <1>1, <1>3, <1>5, <1>7, ConstantFacts DEF IInv, RingMatchesTable
<1>10. BootPhase'
  BY <1>1, <1>2, <1>3, <1>4, ConstantFacts DEF IInv, BootPhase, ForkLocs
<1> QED BY <1>2, <1>6, <1>8, <1>9, <1>10 DEF IInv

(* do_fork closes the ring around the new task.                            *)
LEMMA DoForkLinkInv == IInv /\ DoForkLink => IInv'
<1> SUFFICES ASSUME IInv, DoForkLink PROVE IInv'
  OBVIOUS
<1>1. /\ UNCHANGED <<current, irq_on, task, nr_tasks, state, counter, preempt_count, flag, fn,
                     depth, last, pPrev, failed>>
      /\ frame' = Goto("fork_end") /\ Top(current) = "fork_link" /\ next' = LinkNext
      /\ newTask' = [newTask EXCEPT ![current] = NoTask]
  BY DEF DoForkLink, At
<1>2. newTask' \in [Procs -> Tasks \cup {NoTask}]
  BY <1>1 DEF IInv, TypeOK
<1>3. /\ current \in Procs /\ depth[current] = 1 /\ frame[current][1] = "fork_link"
      /\ frame' \in [Procs -> [Levels -> Loc]] /\ frame'[current][1] = "fork_end"
      /\ \A t \in Procs, e \in Levels : t # current \/ e # 1 => frame'[t][e] = frame[t][e]
      /\ \A t \in Procs \ {current} : frame[t][1] \notin ForkLocs
      /\ (StackShape /\ OthersWait /\ NeverPreemptedInside /\ PreemptCountBalanced)'
      /\ (WalkedPastZombies /\ KernelProcessLives /\ ZombiesExit)'
      /\ (InterruptsOnInBodies /\ LastPending /\ SliceTidiedOrOwed)'
  BY <1>1, <1>2, ForkStep
<1>4. nr_tasks > 0 /\ nr_tasks \in Nat /\ nr_tasks <= MaxTasks
  BY <1>3, ConstantFacts DEF IInv, TypeOK, PagesTaken
<1>5. 1 \in Levels /\ \A t \in Tasks : t \in Procs
  BY ConstantFacts
<1>6. \A i \in Tasks : i < nr_tasks => task[i] = i
  BY DEF IInv, PagesTaken
<1>7. /\ task[0] = 0 /\ task[nr_tasks - 1] = nr_tasks - 1
      /\ nr_tasks >= 2 => task[nr_tasks - 2] = nr_tasks - 2
  BY <1>4, <1>6, ConstantFacts
<1>8. /\ next' \in [Procs -> Tasks \cup {NoTask}]
      /\ \A t \in Procs : next'[t] = IF nr_tasks >= 2 /\ t = nr_tasks - 2 THEN nr_tasks - 1
                                     ELSE IF t = nr_tasks - 1 THEN 0 ELSE next[t]
  <2>1. 0 \in Tasks /\ nr_tasks - 1 \in Tasks
    BY <1>4, ConstantFacts
  <2>2. next \in [Procs -> Tasks \cup {NoTask}]
    BY DEF IInv, TypeOK
  <2>3. next' = [t \in Procs |-> LinkNext[t]]
    BY <1>1 DEF LinkNext
  <2>4. ASSUME NEW t \in Procs
        PROVE  LinkNext[t] = IF nr_tasks >= 2 /\ t = nr_tasks - 2 THEN nr_tasks - 1
                             ELSE IF t = nr_tasks - 1 THEN 0 ELSE next[t]
    <3>1. LinkNext[t] = IF nr_tasks >= 2 /\ t = task[nr_tasks - 2] THEN task[nr_tasks - 1]
                        ELSE IF t = task[nr_tasks - 1] THEN task[0] ELSE next[t]
      BY DEF LinkNext
    <3> QED BY <1>7, <3>1
  <2>5. \A t \in Procs : LinkNext[t] \in Tasks \cup {NoTask}
    BY <2>1, <2>2, <2>4
  <2> QED BY <2>3, <2>4, <2>5
<1>9. TypeOK'
  BY <1>1, <1>2, <1>3, <1>8 DEF IInv, TypeOK
<1>10. Publishing' = Publishing /\ ~Publishing /\ Linked' = nr_tasks /\ Linked = nr_tasks - 1
  <2>1. \A t \in Procs : /\ frame[t][1] # "fork_publish" /\ frame'[t][1] # "fork_publish"
                         /\ frame'[t][1] # "fork_link"
    BY <1>3, <1>5 DEF ForkLocs
  <2> QED BY <1>1, <1>3, <2>1 DEF Publishing, Linked
<1>11. PagesTaken'
  <2>1. \A q \in Tasks : frame'[q][1] = "none" <=> frame[q][1] = "none"
    BY <1>3, <1>5
  <2>2. \A t \in Procs : frame'[t][1] \notin {"fork_publish", "fork_link"}
    BY <1>3, <1>5 DEF ForkLocs
  <2> QED BY <1>1, <1>10, <2>1, <2>2 DEF IInv, PagesTaken
<1>12. RingMatchesTable'
  <2> SUFFICES ASSUME NEW i \in 0 .. nr_tasks - 1
               PROVE  next'[i] = IF i = nr_tasks - 1 THEN 0 ELSE i + 1
    BY <1>1, <1>4, <1>6, <1>7, <1>10, ConstantFacts DEF RingMatchesTable
  <2>1. i \in Tasks /\ i \in Procs
    BY <1>4, ConstantFacts
  <2>2. CASE i >= nr_tasks - 2
    BY <1>4, <1>8, <2>1, <2>2, ConstantFacts
  <2>3. CASE i < nr_tasks - 2
    <3>1. next'[i] = next[i]
      BY <1>4, <1>8, <2>1, <2>3, ConstantFacts
    <3>2. i \in 0 .. Linked - 1 /\ i # Linked - 1 /\ task[i] = i /\ task[i + 1] = i + 1
      BY <1>4, <1>6, <1>10, <2>1, <2>3, ConstantFacts
    <3> QED BY <3>1, <3>2, <2>1, <2>3, <1>4, ConstantFacts DEF IInv, RingMatchesTable
  <2> QED BY <2>1, <2>2, <2>3, <1>4, ConstantFacts
<1>13. BootPhase'
  BY <1>1, <1>3, <1>5, ConstantFacts DEF IInv, BootPhase, ForkLocs
<1> QED BY <1>3, <1>9, <1>11, <1>12, <1>13 DEF IInv

----------------------------------------------------------------------------
(* Every step, and every stutter, preserves the inductive invariant.       *)
LEMMA NextInv == IInv /\ [Next]_vars => IInv'
<1> SUFFICES ASSUME IInv, [Next]_vars PROVE IInv'
  OBVIOUS
<1>1. CASE Irq
  BY <1>1, El1IrqInv, El1IrqPreemptInv, El0IrqInv DEF Irq
<1>2. CASE KernelStep
  BY <1>2, PickSkipInv, PickSwitchInv, PickSelfInv, ScheduleTailInv, ScheduleReturnInv,
     PreemptReturnInv, RetFromForkInv, KthreadReturnInv, WorkPendingInv, KernelExitInv,
     RetFromSyscallInv, DoForkAllocInv, DoForkFailInv, DoForkPublishInv, DoForkLinkInv, DoForkEndInv, BootSwitchInv,
     ExitFreeInv, ExitScheduleInv
  DEF KernelStep
<1>3. CASE ProgramStep
  BY <1>3, El0SvcInv, SysOtherInv, DoForkEnterInv, ExitZombieInv
  DEF ProgramStep
<1>4. CASE UNCHANGED vars
  <2> USE <1>4 DEF vars
  <2>1. TypeOK'
    BY DEF IInv, TypeOK
  <2>2. (StackShape /\ OthersWait /\ NeverPreemptedInside /\ PreemptCountBalanced)'
    BY DEF IInv, StackShape, OthersWait, NeverPreemptedInside, PreemptCountBalanced, Top
  <2>3. (PagesTaken /\ RingMatchesTable /\ BootPhase)'
    BY DEF IInv, PagesTaken, Publishing, RingMatchesTable, Linked, BootPhase
  <2>4. (WalkedPastZombies /\ KernelProcessLives /\ ZombiesExit)'
    BY DEF IInv, WalkedPastZombies, KernelProcessLives, ZombiesExit, At, Top, Passed
  <2>5. (InterruptsOnInBodies /\ LastPending /\ SliceTidiedOrOwed)'
    BY DEF IInv, InterruptsOnInBodies, LastPending, SliceTidiedOrOwed, Top
  <2> QED BY <2>1, <2>2, <2>3, <2>4, <2>5 DEF IInv
<1> QED BY <1>1, <1>2, <1>3, <1>4 DEF Next

(* The inductive invariant holds in every state of the scheduler.          *)
THEOREM Invariance == Spec => []IInv
<1>1. Init => IInv
  BY InitInv
<1>2. IInv /\ [Next]_vars => IInv'
  BY NextInv
<1> QED BY <1>1, <1>2, PTL DEF Spec

(* Every variable keeps its type: in particular a kernel stack never holds *)
(* more than two activations, preempt_count never goes below zero and      *)
(* nr_tasks never passes the tasks there are.                              *)
THEOREM TypeCorrect == Spec => []TypeOK
<1>1. IInv => TypeOK
  BY DEF IInv
<1> QED BY <1>1, Invariance, PTL

(* do_fork, schedule and exit_process are never preempted inside.          *)
THEOREM PreemptionControl == Spec => []NeverPreemptedInside
<1>1. IInv => NeverPreemptedInside
  BY DEF IInv
<1> QED BY <1>1, Invariance, PTL

(* preempt_count is exactly what their calls have left in it.              *)
THEOREM CountBalanced == Spec => []PreemptCountBalanced
<1>1. IInv => PreemptCountBalanced
  BY DEF IInv
<1> QED BY <1>1, Invariance, PTL

(* The ring of next pointers is the table, for any number of tasks.        *)
THEOREM RingIntact == Spec => []RingMatchesTable
<1>1. IInv => RingMatchesTable
  BY DEF IInv
<1> QED BY <1>1, Invariance, PTL

(* Code outside the scheduler always runs with interrupts on.              *)
THEOREM InterruptsOn == Spec => []InterruptsOnInBodies
<1>1. IInv => InterruptsOnInBodies
  BY DEF IInv
<1> QED BY <1>1, Invariance, PTL

(* Who waits for the CPU has a clean slice, or is owed a schedule_tail.    *)
THEOREM SliceTidied == Spec => []SliceTidiedOrOwed
<1>1. IInv => SliceTidiedOrOwed
  BY DEF IInv
<1> QED BY <1>1, Invariance, PTL

(* pick_next_task always has a task to find: kernel_process.               *)
THEOREM PickFindsATask == Spec => []WalkEnds
<1>1. IInv => WalkEnds
  <2> SUFFICES ASSUME IInv, At("pick")
               PROVE  \E i \in 0 .. nr_tasks - 1 : state[task[i]] # "ZOMBIE"
    BY DEF WalkEnds
  <2>1. nr_tasks >= 2 /\ nr_tasks \in Nat
    BY NextInRing, ConstantFacts DEF IInv, BootPhase, TypeOK
  <2>2. 1 \in Tasks /\ 1 \in Procs /\ 1 \in 0 .. nr_tasks - 1
    BY <2>1, ConstantFacts
  <2>3. task[1] = 1
    BY <2>1, <2>2 DEF IInv, PagesTaken
  <2>4. state[1] # "ZOMBIE"
    BY <2>2 DEF IInv, KernelProcessLives, ZombiesExit
  <2> QED BY <2>2, <2>3, <2>4
<1> QED BY <1>1, Invariance, PTL

----------------------------------------------------------------------------
(* What a step can do to the state the round robin is about.               *)
LEMMA RoundRobinStep ==
  ASSUME IInv, Next
  PROVE  \/ UNCHANGED <<current, nr_tasks, state>>
         \/ PickSwitch \/ BootSwitch \/ DoForkPublish \/ ExitZombie
<1> USE DEF tableVars, ctxVars, forkVars
<1>1. CASE Irq
  BY <1>1 DEF Irq, El1Irq, El1IrqPreempt, El0Irq
<1>2. CASE KernelStep
  BY <1>2 DEF KernelStep, PickSkip, PickSelf, ScheduleTail, ScheduleReturn,
     PreemptReturn, RetFromFork, KthreadReturn, WorkPending, KernelExit, RetFromSyscall,
     DoForkAlloc, DoForkFail, DoForkLink, DoForkEnd, ExitFree, ExitSchedule
<1>3. CASE ProgramStep
  BY <1>3 DEF ProgramStep, El0Svc, SysOther, DoForkEnter
<1> QED BY <1>1, <1>2, <1>3 DEF Next

(* A zombie that has lost the CPU never gets it back.                      *)
THEOREM ZombieStaysOff == Spec => ZombieNeverRunsAgain
<1>1. IInv /\ [Next]_vars =>
        [\A t \in Tasks : state[t] = "ZOMBIE" /\ current # t => current' # t]_vars
  <2> SUFFICES ASSUME IInv, Next, NEW t \in Tasks, state[t] = "ZOMBIE", current # t
               PROVE  current' # t
    OBVIOUS
  <2>1. CASE UNCHANGED <<current, nr_tasks, state>>
    BY <2>1
  <2>2. CASE PickSwitch
    BY <2>2 DEF PickSwitch, Skip
  <2>3. CASE BootSwitch
    <3>1. current = Boot /\ nr_tasks = 2 /\ 0 \in Tasks /\ t \in Procs
      BY <2>3, FirstActivation, ConstantFacts
      DEF BootSwitch, At, IInv, BootPhase, SchedLocs
    <3>2. frame[t][1] \in {"none", "born"}
      BY <3>1 DEF IInv, BootPhase
    <3> QED BY <3>1, <3>2 DEF IInv, ZombiesExit
  <2>4. CASE DoForkPublish
    BY <2>4 DEF DoForkPublish
  <2>5. CASE ExitZombie
    BY <2>5 DEF ExitZombie
  <2> QED BY <2>1, <2>2, <2>3, <2>4, <2>5, RoundRobinStep
<1> QED BY <1>1, Invariance, PTL DEF Spec, ZombieNeverRunsAgain

(* Every step is one of RoundRobin's or a stutter.  The step that matters  *)
(* is the switch: what pick_next_task has walked past since it left the    *)
(* running task is dead (WalkedPastZombies), so the task it takes is the   *)
(* first live one after it in the order of creation (RingMatchesTable).    *)
LEMMA RoundRobinSimulated == IInv /\ [Next]_vars => [RR!Next]_(RR!vars)
<1> DEFINE Dead == {t \in Tasks : state[t] = "ZOMBIE"}
<1> SUFFICES ASSUME IInv, Next PROVE RR!Next \/ UNCHANGED RR!vars
  BY DEF vars, RR!vars
<1>1. CASE UNCHANGED <<current, nr_tasks, state>>
  BY <1>1 DEF RR!vars
<1>2. CASE PickSwitch
  <2> DEFINE p == pPrev[current]  s == next[p]
  <2>1. /\ current \in Tasks /\ current < nr_tasks /\ p \in Tasks /\ p < nr_tasks
        /\ s = (IF p = nr_tasks - 1 THEN 0 ELSE p + 1) /\ s \in Tasks /\ s < nr_tasks
        /\ nr_tasks \in 0 .. MaxTasks
    BY <1>2, NextInRing DEF PickSwitch, IInv, TypeOK
  <2>2. \A k \in Passed(current, p) : state[k] = "ZOMBIE"
    BY <1>2 DEF IInv, WalkedPastZombies, PickSwitch
  <2>3. s # current /\ state[s] # "ZOMBIE" /\ current' = s /\ UNCHANGED <<nr_tasks, state>>
    BY <1>2 DEF PickSwitch, Skip, tableVars
  <2> HIDE DEF p, s
  <2>4. RR!Between(current, s) \subseteq Passed(current, p)
    BY <2>1, <2>3, ConstantFacts DEF RR!Between, RR!Created, Passed
  <2>5. Passed(current, p) \subseteq Tasks
    BY <2>1, ConstantFacts DEF Passed
  <2>6. RR!Between(current, s) \subseteq Dead
    BY <2>2, <2>4, <2>5
  <2>7. current \in RR!Created /\ s \in RR!Created \ Dead
    BY <2>1, <2>3, ConstantFacts DEF RR!Created
  <2>8. RR!Switch
    BY <2>3, <2>6, <2>7 DEF RR!Switch
  <2> QED BY <2>8 DEF RR!Next
<1>3. CASE BootSwitch
  <2>1. current = Boot /\ nr_tasks = 2
    BY <1>3, FirstActivation, ConstantFacts
    DEF BootSwitch, At, IInv, BootPhase, SchedLocs
  <2>2. task[0] = 0
    BY <2>1, ConstantFacts DEF IInv, PagesTaken
  <2> QED BY <1>3, <2>1, <2>2 DEF BootSwitch, tableVars, RR!Next, RR!Start
<1>4. CASE DoForkPublish
  <2>1. nr_tasks < MaxTasks
    BY <1>4, FirstActivation DEF DoForkPublish, At, IInv, PagesTaken, SchedLocs
  <2> QED BY <1>4, <2>1 DEF DoForkPublish, RR!Next, RR!Create
<1>5. CASE ExitZombie
  <2>1. current \in Procs /\ frame[current][1] = "sys"
    BY <1>5, FirstActivation DEF ExitZombie, At, SchedLocs
  <2>2. current \in Tasks /\ current \in RR!Created /\ state[current] # "ZOMBIE"
    <3>1. current # Boot /\ current < nr_tasks /\ nr_tasks \in 0 .. MaxTasks
      BY <2>1 DEF IInv, BootPhase, TypeOK, ForkLocs
    <3>2. state[current] # "ZOMBIE"
      BY <2>1 DEF IInv, ZombiesExit
    <3> QED BY <2>1, <3>1, <3>2, ConstantFacts DEF RR!Created
  <2>3. {t \in Tasks : state'[t] = "ZOMBIE"} = Dead \cup {current}
    BY <1>5, <2>2, ConstantFacts DEF ExitZombie, IInv, TypeOK
  <2> QED BY <1>5, <2>2, <2>3 DEF ExitZombie, tableVars, RR!Next, RR!Exit
<1> QED BY <1>1, <1>2, <1>3, <1>4, <1>5, RoundRobinStep

(* The scheduler implements RoundRobin.                                    *)
THEOREM Refinement == Spec => RoundRobinSpec
<1>1. Init => RR!Init
  BY ConstantFacts DEF Init, RR!Init
<1> QED BY <1>1, RoundRobinSimulated, Invariance, PTL DEF Spec, RoundRobinSpec, RR!Spec

(* Nobody is overtaken: a live task between the two that a switch is from  *)
(* and to would have been taken.                                           *)
THEOREM NobodyOvertaken == Spec => EachSwitchBringsNearer
<1> DEFINE Dead == {t \in Tasks : state[t] = "ZOMBIE"}
<1>1. IInv /\ [Next]_vars => [RR!Nearer]_(RR!vars)
  <2> SUFFICES ASSUME IInv, [Next]_vars, current \in RR!Created, current' # current,
                      NEW t \in RR!Created \ Dead, t # current
               PROVE  RR!Places(t)' < RR!Places(t)
    BY DEF RR!Nearer
  <2>1. RR!Switch
    BY RoundRobinSimulated, ConstantFacts
    DEF RR!Next, RR!vars, RR!Create, RR!Start, RR!Exit, RR!Created
  <2>2. PICK s \in RR!Created \ Dead :
          s # current /\ RR!Between(current, s) \subseteq Dead /\ current' = s
    BY <2>1 DEF RR!Switch
  <2>3. nr_tasks \in 0 .. MaxTasks /\ MaxTasks \in Nat
    BY ConstantFacts DEF IInv, TypeOK
  <2>4. /\ current \in Int /\ 0 <= current /\ current < nr_tasks
        /\ s \in Int /\ 0 <= s /\ s < nr_tasks
        /\ t \in Int /\ 0 <= t /\ t < nr_tasks
    BY <2>3 DEF RR!Created
  <2>5. ~(IF current < s THEN current < t /\ t < s ELSE current < t \/ t < s)
    BY <2>2 DEF RR!Between
  <2>6. RR!Places(t)' = (IF s <= t THEN t - s ELSE t - s + MaxTasks)
    BY <2>2 DEF RR!Places
  <2> QED BY <2>2, <2>3, <2>4, <2>5, <2>6 DEF RR!Places
<1> QED BY <1>1, Invariance, PTL DEF Spec, EachSwitchBringsNearer, RR!ComesNearer
=============================================================================
