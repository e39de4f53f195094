----------------------------- MODULE KernelProofs -----------------------------
(***************************************************************************)
(* Proofs about Kernel, for every number of pages and tasks: its steps are *)
(* Sched's, whose invariants it inherits, and Mm's, action by action, so   *)
(* that what MmProofs says of an allocator that nothing interrupts where   *)
(* it may not be holds of the one under this scheduler.  With both, no     *)
(* task_struct in use is ever given back, and no clone lacks a stack.      *)
(***************************************************************************)
EXTENDS Kernel, SchedProofs

(* The actions that are steps of the scheduler as well.                    *)
LEMMA KernelStepIsSchedStep == KernelNext => [Next]_vars
<1> SUFFICES ASSUME KernelNext PROVE [Next]_vars
  OBVIOUS
<1>1. CASE Tick
  BY <1>1 DEF Tick, Next
<1>2. CASE SchedulerStep
  BY <1>2 DEF SchedulerStep, Next, KernelStep, ProgramStep
<1>3. CASE MemoryStep
  BY <1>3
  DEF MemoryStep, KernelMainForks, CloneForks, MallocCalled, MovesToUserMode, ProbeTaken,
      ProbeFree, GetsTaskStruct, ForkReturns, ForkRefused, GetsUserStack, GetsMemory,
      MallocRefused, MallocReturns, SysWrite, SysExit, FreesStack, Next, KernelStep,
      ProgramStep
<1> QED
  BY <1>1, <1>2, <1>3 DEF KernelNext, CodeStep

(* The kernel is a scheduler: what is proved of Sched holds of it.         *)
THEOREM KernelIsSched == KernelSpec => Spec
<1>1. KernelInit => Init
  BY DEF KernelInit
<1>2. [KernelNext]_kernelVars => [Next]_vars
  BY KernelStepIsSchedStep DEF kernelVars
<1> QED
  BY <1>1, <1>2, PTL DEF KernelSpec, Spec

----------------------------------------------------------------------------
(* The constants, as facts about numbers, and the addresses of pages.      *)
LEMMA MemoryFacts ==
  /\ PageNum \in Nat /\ PageNum >= 3
  /\ M!Boot = Boot /\ M!Tasks = Tasks /\ M!Procs = Procs
  /\ M!Null = 0 /\ M!Failed = -1
  /\ \A k : k \in M!Slots <=> k \in Int /\ 0 <= k /\ k < PageNum
  /\ \A k \in M!Slots : M!PageAddress(k) \in M!Pages
  /\ M!Null \notin M!Pages /\ M!Failed \notin M!Pages
BY KernelAssumption, ConstantFacts
DEF M!Boot, Boot, M!Tasks, Tasks, M!Procs, Procs, M!Null, M!Failed, M!Slots, M!Pages,
    M!PageAddress, M!LowMemory, M!PageSize

(* Outside the scheduler, what runs is the first activation.               *)
LEMMA Where ==
  ASSUME IInv, NEW l \in Loc \ SchedLocs, At(l)
  PROVE  current \in Procs /\ depth[current] = 1 /\ frame[current][1] = l
BY FirstActivation DEF At

(* Where a step of the first activation leaves everybody.                  *)
LEMMA Moves ==
  ASSUME IInv, depth[current] = 1, NEW l \in Loc, frame' = Goto(l)
  PROVE  /\ frame'[current][1] = l
         /\ \A t \in Procs \ {current} : frame'[t][1] = frame[t][1]
BY GotoFacts, ConstantFacts DEF IInv

(* Where the steps of the scheduler leave the first activation of the      *)
(* running task: where it was, or gone on from one of these places.        *)
Elsewhere == Loc \ {"none", "fork_alloc", "sys", "kfn", "exit_free"}

Passes(a, b, f) ==
  /\ a \in Elsewhere
  /\ b \in (Elsewhere \cup {"sys", "kfn"}) \ {"born", "fork_publish", "exit_sched"}
  /\ a \in ForkLocs <=> b \in ForkLocs
  /\ b = "kfn" <=> a = "born" /\ f # "user"
  /\ a = "fork_publish" <=> b = "fork_link"

(* What a step of the scheduler itself does to the frames.                 *)
LEMMA SchedulerFrames ==
  ASSUME IInv, SchedulerStep \/ Irq
  PROVE  /\ fn' = fn /\ state' = state /\ current \in Procs
         /\ \A t \in Procs \ {current} : frame'[t][1] = frame[t][1]
         /\ \/ frame'[current][1] = frame[current][1] /\ nr_tasks' = nr_tasks
            \/ /\ Passes(frame[current][1], frame'[current][1], fn[current])
               /\ nr_tasks' = IF frame[current][1] = "fork_publish"
                              THEN nr_tasks + 1 ELSE nr_tasks
<1> USE DEF tableVars, ctxVars, forkVars
<1>1. /\ fn' = fn /\ state' = state /\ current \in Procs
      /\ depth[current] \in 1 .. 2 /\ frame \in [Procs -> [Levels -> Loc]]
  BY DEF IInv, TypeOK, SchedulerStep, Irq, PickSkip, PickSwitch, PickSelf, ScheduleTail,
         ScheduleReturn, PreemptReturn, RetFromFork, WorkPending, KernelExit, El0Svc,
         RetFromSyscall, DoForkPublish, DoForkLink, BootSwitch, ExitSchedule, El1Irq,
         El1IrqPreempt, El0Irq
<1>2. CASE PickSkip \/ El1Irq
  BY <1>1, <1>2 DEF PickSkip, El1Irq
<1>3. ASSUME NEW d \in {2, 3}, NEW l \in Loc, frame' = [frame EXCEPT ![current][d] = l]
      PROVE  \A t \in Procs : frame'[t][1] = frame[t][1]
  BY <1>1, <1>3, ConstantFacts
<1>4. CASE El1IrqPreempt
  BY <1>1, <1>3, <1>4 DEF El1IrqPreempt, Loc, Critical, SchedLocs
<1>5. CASE PreemptReturn
  BY <1>1, <1>3, <1>5 DEF PreemptReturn, Loc, Goto
<1>6. CASE PickSwitch \/ PickSelf \/ ScheduleTail
  <2>1. PICK l \in {"tail", "enable"} : frame' = Goto(l)
    BY <1>6 DEF PickSwitch, PickSelf, ScheduleTail
  <2>2. Top(current) \in {"pick", "tail"} /\ nr_tasks' = nr_tasks
    BY <1>6 DEF PickSwitch, PickSelf, ScheduleTail, At
  <2>3. l \in Loc
    BY DEF Loc, Critical, SchedLocs
  <2>4. CASE depth[current] = 1
    BY <1>1, <2>1, <2>2, <2>3, <2>4, Moves
    DEF Top, Passes, Elsewhere, Loc, Critical, SchedLocs, ForkLocs
  <2>5. CASE depth[current] = 2
    BY <1>1, <1>3, <2>1, <2>2, <2>3, <2>5 DEF Goto
  <2> QED BY <1>1, <2>4, <2>5
<1>7. CASE RetFromFork
  <2>1. frame[current][1] = "born" /\ depth[current] = 1
    BY <1>7, Where DEF RetFromFork, Loc, SchedLocs
  <2>2. PICK l \in Loc : /\ frame' = Goto(l)
                         /\ l = IF fn[current] = "user" THEN "ret_to_user" ELSE "kfn"
    BY <1>7 DEF RetFromFork, Loc, Bodies
  <2>3. nr_tasks' = nr_tasks
    BY <1>7 DEF RetFromFork
  <2> QED
    BY <1>1, <2>1, <2>2, <2>3, Moves
    DEF Passes, Elsewhere, Loc, Critical, SchedLocs, ForkLocs, Bodies
<1>8. CASE ScheduleReturn
  <2>1. frame[current][1] = "enable" /\ depth[current] = 1 /\ nr_tasks' = nr_tasks
    BY <1>8 DEF ScheduleReturn, At, Top
  <2>2. PICK l \in Loc : frame' = Goto(l) /\ l \in {"sys_ret", "finish"}
    BY <1>8 DEF ScheduleReturn, Loc, Bodies
  <2> QED
    BY <1>1, <2>1, <2>2, Moves
    DEF Passes, Elsewhere, Loc, Critical, SchedLocs, ForkLocs, Bodies
<1>9. CASE WorkPending \/ KernelExit \/ El0Svc \/ RetFromSyscall \/ ExitSchedule
           \/ BootSwitch \/ El0Irq
  <2>1. PICK a \in {"ret_to_user", "finish", "user", "sys_ret", "exit_sched", "kmain"} :
          At(a) /\ nr_tasks' = nr_tasks
    BY <1>9 DEF WorkPending, KernelExit, El0Svc, RetFromSyscall, ExitSchedule, BootSwitch,
                El0Irq
  <2>2. frame[current][1] = a /\ depth[current] = 1
    BY <2>1, Where DEF Loc, Bodies, SchedLocs
  <2>3. PICK l \in {"pick", "user", "sys", "dead", "ret_to_user"} : frame' = Goto(l)
    BY <1>9 DEF WorkPending, KernelExit, El0Svc, RetFromSyscall, ExitSchedule, BootSwitch,
                El0Irq
  <2>4. l \in Loc
    BY DEF Loc, Critical, SchedLocs, Bodies
  <2> QED
    BY <1>1, <2>1, <2>2, <2>3, <2>4, Moves
    DEF Passes, Elsewhere, Loc, Critical, SchedLocs, ForkLocs, Bodies
<1>10. CASE DoForkPublish
  <2>1. frame[current][1] = "fork_publish" /\ depth[current] = 1
    BY <1>10, Where DEF DoForkPublish, Loc, Critical, ForkLocs, SchedLocs
  <2> QED
    BY <1>1, <1>10, <2>1, Moves
    DEF DoForkPublish, Passes, Elsewhere, Loc, Critical, SchedLocs, ForkLocs, Bodies
<1>11. CASE DoForkLink
  <2>1. frame[current][1] = "fork_link" /\ depth[current] = 1
    BY <1>11, Where DEF DoForkLink, Loc, Critical, ForkLocs, SchedLocs
  <2> QED
    BY <1>1, <1>11, <2>1, Moves
    DEF DoForkLink, Passes, Elsewhere, Loc, Critical, SchedLocs, ForkLocs, Bodies
<1> QED
  BY <1>2, <1>4, <1>5, <1>6, <1>7, <1>8, <1>9, <1>10, <1>11 DEF SchedulerStep, Irq

----------------------------------------------------------------------------
(* What Mm sees of a task: where it is depends on this of it.              *)
LEMMA PlaceSame ==
  ASSUME NEW t \in Procs,
         /\ call'[t] = call[t] /\ fn'[t] = fn[t] /\ state'[t] = state[t]
         /\ stack'[t] = stack[t] /\ frame'[t][1] = frame[t][1]
  PROVE  place'[t] = place[t]
BY DEF place

(* How place changes when one task's frame does.                           *)
LEMMA PlaceStep ==
  ASSUME current \in Procs, NEW l, place'[current] = l,
         \A t \in Procs \ {current} : place'[t] = place[t]
  PROVE  place' = [place EXCEPT ![current] = l]
<1>1. /\ place = [t \in Procs |-> place[t]]
      /\ place' = [t \in Procs |-> place'[t]]
  BY DEF place
<1> QED BY <1>1

(* How many task_structs there are, whoever is about to publish one.       *)
LEMMA ForkedFacts ==
  ASSUME IInv
  PROVE  /\ forked \in 0 .. MaxTasks /\ forked >= nr_tasks /\ nr_tasks \in Nat
         /\ Top(current) # "fork_publish" => forked = nr_tasks
         /\ current # Boot => current < forked
<1>1. Publishing => nr_tasks < MaxTasks
  BY DEF IInv, PagesTaken, Publishing
<1>2. Top(current) # "fork_publish" => ~Publishing
  BY CriticalRuns DEF Publishing, Top, Critical, ForkLocs
<1> QED
  BY <1>1, <1>2, ConstantFacts DEF IInv, TypeOK, BootPhase, forked

(* The steps of the scheduler keep the memory's part of the invariant, and *)
(* nothing of them shows in it but the change of the running task.         *)
LEMMA SchedulerKeeps ==
  ASSUME IInv, MInv, SchedulerStep \/ Irq, UNCHANGED <<memVars, progVars>>
  PROVE  MInv' /\ place' = place /\ forked' = forked
<1> USE DEF memVars, callVars, useVars, progVars
<1>1. /\ fn' = fn /\ state' = state /\ current \in Procs
      /\ \A t \in Procs \ {current} : frame'[t][1] = frame[t][1]
  BY SchedulerFrames
<1> DEFINE a == frame[current][1]  b == frame'[current][1]
<1>2. \/ b = a /\ nr_tasks' = nr_tasks
      \/ /\ Passes(a, b, fn[current])
         /\ nr_tasks' = IF a = "fork_publish" THEN nr_tasks + 1 ELSE nr_tasks
  BY SchedulerFrames
<1> HIDE DEF a, b
<1>3. \A t \in Procs \ {current} : place'[t] = place[t]
  BY <1>1, PlaceSame
<1>4. place'[current] = place[current]
  <2>1. CASE b = a
    BY <1>1, <2>1, PlaceSame DEF a, b
  <2>2. CASE Passes(a, b, fn[current])
    <3>1. a \notin {"none", "exit_free"} /\ b \notin {"none", "exit_free"}
      BY <2>2 DEF Passes, Elsewhere
    <3> QED BY <1>1, <3>1 DEF place, a, b
  <2> QED BY <1>2, <2>1, <2>2
<1>5. place' = place
  BY <1>1, <1>3, <1>4 DEF place
<1>6. forked' = forked
  <2>1. CASE b = a /\ nr_tasks' = nr_tasks
    BY <1>1, <2>1 DEF forked, Publishing, a, b
  <2>2. CASE a = "fork_publish" /\ b # "fork_publish" /\ nr_tasks' = nr_tasks + 1
    <3>1. Publishing
      BY <1>1, <2>2 DEF Publishing, a
    <3>2. \A t \in Procs \ {current} : frame[t][1] # "fork_publish"
      BY CriticalRuns DEF Critical, ForkLocs
    <3>3. ~Publishing'
      BY <1>1, <2>2, <3>2 DEF Publishing, b
    <3> QED BY <2>2, <3>1, <3>3 DEF forked
  <2>3. CASE a # "fork_publish" /\ b # "fork_publish" /\ nr_tasks' = nr_tasks
    <3>1. Publishing' = Publishing
      BY <1>1, <2>3 DEF Publishing, a, b
    <3> QED BY <2>3, <3>1 DEF forked
  <2> QED BY <1>2, <2>1, <2>2, <2>3 DEF Passes
<1>7. KernelTypeOK'
  BY DEF MInv, KernelTypeOK
<1>8. CallPlaces'
  <2>1. call[current] # "none" => a \in {"fork_alloc", "sys", "kfn"}
    BY <1>1 DEF MInv, CallPlaces, KernelTypeOK, a
  <2>2. \A t \in Procs : call[t] # "none" => frame'[t][1] = frame[t][1]
    BY <1>1, <1>2, <2>1 DEF Passes, Elsewhere, a, b
  <2>3. \A t \in Procs : frame'[t][1] = "fork_alloc" => frame[t][1] = "fork_alloc"
    BY <1>1, <1>2 DEF Passes, Elsewhere, a, b
  <2> QED BY <1>1, <2>2, <2>3 DEF MInv, CallPlaces
<1>9. TaskKinds'
  <2>1. \A t \in Procs : frame'[t][1] = "none" <=> frame[t][1] = "none"
    BY <1>1, <1>2 DEF Passes, Elsewhere, a, b
  <2>2. \A t \in Tasks : t \in Procs
    BY ConstantFacts
  <2>3. frame'[0][1] \in {"none", "born", "kfn"} <=> frame[0][1] \in {"none", "born", "kfn"}
    <3>1. CASE current = 0 /\ Passes(a, b, fn[current])
      <4>1. fn[0] = "kernel_thread"
        BY <3>1, ConstantFacts DEF MInv, TaskKinds, Passes, Elsewhere, a
      <4> QED BY <3>1, <4>1 DEF Passes, Elsewhere, a, b
    <3>2. CASE ~(current = 0 /\ Passes(a, b, fn[current]))
      BY <1>1, <1>2, <3>2, ConstantFacts DEF a, b
    <3> QED BY <3>1, <3>2
  <2>4. \A t \in Procs :
          /\ frame'[t][1] \in ForkLocs => frame[t][1] \in ForkLocs
          /\ frame'[t][1] = "exit_free" => frame[t][1] = "exit_free"
          /\ frame'[t][1] = "exit_sched" => frame[t][1] = "exit_sched"
    BY <1>1, <1>2 DEF Passes, Elsewhere, a, b
  <2>5. \A t \in Tasks : frame'[t][1] # "none" =>
          fn'[t] = IF t = 0 THEN "kernel_thread" ELSE IF t = 1 THEN "kernel_process" ELSE "user"
    BY <1>1, <2>1, <2>2 DEF MInv, TaskKinds
  <2>6. stack'[0] = M!Null <=> frame'[0][1] \in {"none", "born", "kfn"}
    BY <2>3 DEF MInv, TaskKinds
  <2>7. \A t \in Procs :
          /\ frame'[t][1] \in ForkLocs => t \in {0, Boot}
          /\ frame'[t][1] \in {"exit_free", "exit_sched"} =>
               t = 0 /\ state'[t] = "ZOMBIE" /\ upc' = "end"
    BY <1>1, <2>4 DEF MInv, TaskKinds
  <2> QED BY <2>5, <2>6, <2>7 DEF TaskKinds
<1>10. CloneHasStack'
  <2>1. frame'[0][1] \in ForkLocs <=> frame[0][1] \in ForkLocs
    BY <1>1, <1>2, ConstantFacts DEF Passes, a, b
  <2> QED BY <2>1 DEF MInv, CloneHasStack
<1>11. ScanExact' /\ FullAfterFailure' /\ ClonesHaveStacks'
  BY DEF MInv, ScanExact, FullAfterFailure, ClonesHaveStacks
<1>12. TasksHavePages'
  <2>1. \A t \in Tasks : frame'[t][1] = "none" <=> frame[t][1] = "none"
    BY <1>1, <1>2, ConstantFacts DEF Passes, Elsewhere, a, b
  <2> QED BY <2>1 DEF MInv, TasksHavePages
<1> QED BY <1>5, <1>6, <1>7, <1>8, <1>9, <1>10, <1>11, <1>12 DEF MInv

(* A switch is one Mm allows: whoever loses the CPU is not in do_fork or   *)
(* exit_process, whoever gets it has not exited.                           *)
LEMMA SchedulerIsMm ==
  ASSUME IInv, MInv, SchedulerStep \/ Irq, UNCHANGED <<memVars, progVars>>
  PROVE  [M!Next]_(M!vars)
<1> USE DEF memVars, callVars, useVars, progVars, tableVars, ctxVars, forkVars
<1>1. place' = place /\ forked' = forked /\ fn' = fn /\ state' = state
  BY SchedulerKeeps, SchedulerFrames
<1>2. CASE current' = current
  BY <1>1, <1>2 DEF M!vars
<1>3. CASE PickSwitch
  <2> DEFINE n == next[pPrev[current]]
  <2>1. /\ current \in Tasks /\ n \in Tasks /\ n < nr_tasks
        /\ n # current /\ state[n] # "ZOMBIE" /\ current' = n
    BY <1>3, NextInRing DEF PickSwitch, Skip
  <2> HIDE DEF n
  <2>2. current \in Procs /\ n \in Procs /\ current # Boot
    BY <2>1, ConstantFacts
  <2>3. frame[current][1] \notin {"fork_alloc", "exit_free"}
    BY <1>3, <2>2, CriticalRuns
    DEF PickSwitch, At, Top, Critical, ForkLocs, SchedLocs
  <2>4. ~M!Atomic(current)
    BY <2>2, <2>3 DEF M!Atomic, place, MInv, CallPlaces, KernelTypeOK
  <2>5. place[n] # "zombie"
    BY <2>1, <2>2 DEF place, MInv, KernelTypeOK
  <2>6. n \in 0 .. forked - 1
    BY <2>1, ForkedFacts, ConstantFacts
  <2>7. M!Switch
    BY <1>1, <2>1, <2>2, <2>4, <2>5, <2>6, MemoryFacts DEF M!Switch, M!callVars, M!useVars
  <2> QED BY <2>7 DEF M!Next
<1>4. CASE BootSwitch
  <2>1. current \in Procs /\ frame[current][1] = "kmain" /\ Top(current) = "kmain"
    BY <1>4, Where DEF BootSwitch, At, Loc, Bodies, SchedLocs
  <2>2. current = Boot
    BY <2>1, ConstantFacts DEF IInv, BootPhase
  <2>3. task[0] = 0 /\ forked = 2
    BY <1>4, <2>1, ForkedFacts, ConstantFacts DEF IInv, PagesTaken, BootSwitch
  <2>4. place[current] = "kernel_main"
    BY <2>1, <2>2 DEF place, MInv, CallPlaces, KernelTypeOK
  <2>5. M!BootSwitch
    BY <1>1, <1>4, <2>3, <2>4 DEF BootSwitch, M!BootSwitch, M!callVars, M!useVars
  <2> QED BY <2>5 DEF M!Next
<1>5. SchedulerStep \/ Irq => current' = current \/ PickSwitch \/ BootSwitch
  BY DEF SchedulerStep, Irq, PickSkip, PickSelf, ScheduleTail, ScheduleReturn,
         PreemptReturn, RetFromFork, WorkPending, KernelExit, El0Svc, RetFromSyscall,
         DoForkPublish, DoForkLink, ExitSchedule, El1Irq, El1IrqPreempt, El0Irq
<1> QED BY <1>2, <1>3, <1>4, <1>5

----------------------------------------------------------------------------
(* The steps of the programs and of get_free_page: each keeps the          *)
(* invariant and is a step, or a stutter, of Mm.                           *)
Implements == MInv' /\ [M!Next]_(M!vars)

(* While the first task or kernel_main runs, nobody else is in             *)
(* get_free_page.                                                          *)
LEMMA OnlyCall ==
  ASSUME IInv, MInv, current \in {0, Boot}, NEW t \in Procs \ {current}
  PROVE  call[t] = "none"
<1>1. CASE current = Boot
  BY <1>1, ConstantFacts DEF IInv, BootPhase, MInv, CallPlaces, KernelTypeOK
<1>2. CASE current = 0
  BY <1>2, ConstantFacts DEF IInv, BootPhase, MInv, CallPlaces, KernelTypeOK
<1> QED BY <1>1, <1>2

(* The running task, in get_free_page.                                     *)
LEMMA InCall ==
  ASSUME IInv, MInv, NEW w \in {"probe", "mark"}, InGetFreePage(w)
  PROVE  /\ current \in Procs /\ current \in {0, Boot} /\ depth[current] = 1
         /\ Top(current) = frame[current][1]
         /\ place[current] = w /\ call[current] = w
         /\ \/ frame[current][1] = "fork_alloc" /\ caller[current] = "do_fork"
            \/ frame[current][1] = "sys" /\ caller[current] = "sys_malloc" /\ current = 0
            \/ /\ frame[current][1] = "kfn" /\ caller[current] = "move_to_user_mode"
               /\ fn[current] = "kernel_thread" /\ current = 0
         /\ forked = nr_tasks
<1>1. call[current] = w /\ Top(current) \in {"fork_alloc", "sys", "kfn"}
  BY DEF InGetFreePage, At
<1>2. current \in Procs /\ depth[current] = 1 /\ Top(current) = frame[current][1]
  BY <1>1, FirstActivation DEF SchedLocs
<1>3. current \in {0, Boot} /\ caller[current] # "none"
      /\ caller[current] \in {"none", "do_fork", "sys_malloc", "move_to_user_mode"}
  BY <1>1, <1>2 DEF MInv, CallPlaces, KernelTypeOK
<1>4. current = Boot => frame[current][1] = "fork_alloc"
  BY <1>1, <1>2 DEF IInv, BootPhase, ForkLocs
<1>5. place[current] = w
  BY <1>1, <1>2 DEF place
<1>6. forked = nr_tasks
  BY <1>1, ForkedFacts
<1> QED BY <1>1, <1>2, <1>3, <1>4, <1>5, <1>6 DEF MInv, CallPlaces

(* The places of the tasks a step does not touch.                          *)
LEMMA OtherPlacesSame ==
  ASSUME fn' = fn, state' = state, stack' = stack,
         \A t \in Procs \ {current} : call'[t] = call[t] /\ frame'[t][1] = frame[t][1]
  PROVE  \A t \in Procs \ {current} : place'[t] = place[t]
BY PlaceSame

(* When the number of task_structs stays what it is.                       *)
LEMMA ForkedSame ==
  ASSUME IInv, nr_tasks' = nr_tasks, current \in Procs,
         \A t \in Procs \ {current} : frame'[t][1] = frame[t][1],
         frame'[current][1] = "fork_publish" <=> frame[current][1] = "fork_publish"
  PROVE  forked' = forked
BY DEF forked, Publishing

(* A call is entered, from do_fork or from where the task is.              *)
LEMMA EnterStep ==
  ASSUME IInv, MInv, current \in {0, Boot},
         NEW c \in {"do_fork", "sys_malloc", "move_to_user_mode"},
         NEW s \in M!Pages \cup {M!Null, M!Failed}, Enter(c, s),
         UNCHANGED <<current, nr_tasks, fn, state>>,
         \A t \in Procs \ {current} : frame'[t][1] = frame[t][1],
         \/ /\ c = "do_fork" /\ frame'[current][1] = "fork_alloc"
            /\ frame[current][1] = IF current = Boot THEN "kmain" ELSE "sys"
            /\ s = IF current = Boot THEN M!Null ELSE pstack
            /\ current = 0 => upc \in {"clone1", "clone2"}
         \/ /\ c = "sys_malloc" /\ frame[current][1] = "sys"
            /\ frame'[current][1] = frame[current][1]
         \/ /\ c = "move_to_user_mode" /\ frame[current][1] = "kfn"
            /\ fn[current] = "kernel_thread"
            /\ frame'[current][1] = frame[current][1]
  PROVE  /\ MInv' /\ M!Enter(c, s)
         /\ UNCHANGED <<current, mem_map, forked, M!useVars>>
<1> USE DEF Enter, useVars, progVars
<1>1. current \in Procs /\ call[current] = "none"
  BY ConstantFacts
<1>2. /\ call' = [call EXCEPT ![current] = "probe"]
      /\ caller' = [caller EXCEPT ![current] = c]
      /\ i' = [i EXCEPT ![current] = 0]
      /\ arg' = [arg EXCEPT ![current] = s]
      /\ UNCHANGED <<mem_map, page, stack, heap, upc, pstack>>
  OBVIOUS
<1>3. /\ call'[current] = "probe" /\ caller'[current] = c /\ i'[current] = 0 /\ arg'[current] = s
      /\ \A t \in Procs \ {current} :
           /\ call'[t] = call[t] /\ caller'[t] = caller[t] /\ i'[t] = i[t] /\ arg'[t] = arg[t]
  BY <1>1, <1>2 DEF MInv, KernelTypeOK
<1>4. KernelTypeOK'
  <2>1. 0 \in 0 .. PageNum
    BY MemoryFacts
  <2>2. KernelTypeOK
    BY DEF MInv
  <2>3. call' \in [Procs -> {"none", "probe", "mark"}]
    BY <1>2, <2>2 DEF KernelTypeOK
  <2>4. caller' \in [Procs -> {"none", "do_fork", "sys_malloc", "move_to_user_mode"}]
    <3>1. c \in {"none", "do_fork", "sys_malloc", "move_to_user_mode"}
      OBVIOUS
    <3> QED BY <1>2, <2>2, <3>1 DEF KernelTypeOK
  <2>5. i' \in [Procs -> 0 .. PageNum]
    BY <1>2, <2>1, <2>2 DEF KernelTypeOK
  <2>6. arg' \in [Procs -> M!Pages \cup {M!Null, M!Failed}]
    BY <1>2, <2>2 DEF KernelTypeOK
  <2> QED BY <1>2, <2>2, <2>3, <2>4, <2>5, <2>6 DEF KernelTypeOK
<1>5. CallPlaces'
  <2> SUFFICES ASSUME NEW t \in Procs
               PROVE  /\ frame'[t][1] = "fork_alloc" => call'[t] # "none" /\ caller'[t] = "do_fork"
                      /\ call'[t] # "none" =>
                           /\ t \in {0, Boot}
                           /\ caller'[t] # "none"
                           /\ caller'[t] = "do_fork" =>
                                /\ frame'[t][1] = "fork_alloc"
                                /\ arg'[t] = IF t = Boot THEN M!Null ELSE pstack'
                           /\ caller'[t] = "sys_malloc" => frame'[t][1] = "sys"
                           /\ caller'[t] = "move_to_user_mode" =>
                                frame'[t][1] = "kfn" /\ fn'[t] = "kernel_thread"
    BY DEF CallPlaces
  <2>1. CASE t = current
    BY <1>1, <1>2, <1>3, <2>1 DEF MInv, CallPlaces
  <2>2. CASE t # current
    BY <1>1, <1>2, <1>3, <2>2 DEF MInv, CallPlaces
  <2> QED BY <2>1, <2>2
<1>6. \A t \in Procs :
        /\ frame'[t][1] # frame[t][1] =>
             /\ t = current /\ frame'[t][1] = "fork_alloc" /\ frame[t][1] \in {"kmain", "sys"}
             /\ frame[t][1] = "kmain" <=> t = Boot
  BY DEF Procs
<1>7. TaskKinds'
  <2>1. 0 \in Procs /\ \A t \in Tasks : t \in Procs
    BY ConstantFacts
  <2>2. \A t \in Tasks : frame'[t][1] # "none" =>
          fn'[t] = IF t = 0 THEN "kernel_thread" ELSE IF t = 1 THEN "kernel_process" ELSE "user"
    BY <1>6, <2>1 DEF MInv, TaskKinds
  <2>3. stack'[0] = M!Null <=> frame'[0][1] \in {"none", "born", "kfn"}
    BY <1>2, <1>6, <2>1, ConstantFacts DEF MInv, TaskKinds
  <2>4. \A t \in Procs :
          /\ frame'[t][1] \in ForkLocs => t \in {0, Boot}
          /\ frame'[t][1] \in {"exit_free", "exit_sched"} =>
               t = 0 /\ state'[t] = "ZOMBIE" /\ upc' = "end"
    BY <1>2, <1>6 DEF MInv, TaskKinds
  <2> QED BY <2>2, <2>3, <2>4 DEF TaskKinds
<1>8. CloneHasStack'
  BY <1>2, <1>6, ConstantFacts DEF MInv, CloneHasStack, ForkLocs
<1>9. ScanExact' /\ FullAfterFailure' /\ ClonesHaveStacks' /\ TasksHavePages'
  <2>1. ScanExact'
    BY <1>2, <1>3, MemoryFacts DEF MInv, ScanExact
  <2>2. FullAfterFailure' /\ ClonesHaveStacks'
    BY <1>2 DEF MInv, FullAfterFailure, ClonesHaveStacks
  <2>3. TasksHavePages'
    BY <1>2, <1>6, ConstantFacts DEF MInv, TasksHavePages
  <2> QED BY <2>1, <2>2, <2>3
<1>10. MInv'
  BY <1>4, <1>5, <1>7, <1>8, <1>9 DEF MInv
<1>11. place'[current] = "probe"
  BY <1>1, <1>3 DEF place
<1>12. \A t \in Procs \ {current} : place'[t] = place[t]
  BY <1>2, <1>3, OtherPlacesSame
<1>13. place' = [place EXCEPT ![current] = "probe"]
  BY <1>1, <1>11, <1>12, PlaceStep
<1>14. forked' = forked
  <2>1. frame'[current][1] = "fork_publish" <=> frame[current][1] = "fork_publish"
    BY <1>1, <1>6
  <2> QED BY <1>1, <2>1, ForkedSame
<1>15. M!Enter(c, s)
  BY <1>2, <1>13 DEF M!Enter, M!Goto
<1> QED BY <1>2, <1>10, <1>14, <1>15 DEF M!useVars

(* kernel_main forks.                                                      *)
LEMMA KernelMainForksMm == IInv /\ MInv /\ KernelMainForks => Implements
<1> SUFFICES ASSUME IInv, MInv, KernelMainForks PROVE Implements
  OBVIOUS
<1>1. /\ current = Boot /\ CallsFork /\ frame' = Goto("fork_alloc")
      /\ UNCHANGED <<current, nr_tasks, fn, state>> /\ Enter("do_fork", M!Null)
  BY DEF KernelMainForks, DoForkEnter, tableVars, forkVars
<1>2. (At("kmain") /\ nr_tasks < 2) \/ At("sys")
  BY <1>1 DEF CallsFork
<1>3. current \in Procs /\ depth[current] = 1 /\ frame[current][1] \in {"kmain", "sys"}
  BY <1>2, Where DEF Loc, Bodies, SchedLocs
<1>4. frame[current][1] = "kmain" /\ At("kmain") /\ nr_tasks < 2
  BY <1>1, <1>2, <1>3 DEF IInv, BootPhase, ForkLocs, At, Top
<1>5. /\ frame'[current][1] = "fork_alloc"
      /\ \A t \in Procs \ {current} : frame'[t][1] = frame[t][1]
  BY <1>1, <1>3, Moves DEF Loc, Critical, ForkLocs
<1>6. MInv' /\ M!Enter("do_fork", M!Null) /\ UNCHANGED <<current, mem_map, forked, M!useVars>>
  BY <1>1, <1>4, <1>5, EnterStep, ConstantFacts
<1>7. place[current] = "kernel_main" /\ forked < 2
  BY <1>1, <1>3, <1>4, ForkedFacts DEF place, Enter, At
<1>8. M!KernelMain
  BY <1>6, <1>7 DEF M!KernelMain
<1> QED BY <1>6, <1>8 DEF Implements, M!Next

(* What the first task is to Mm once it is a process.                      *)
LEMMA UserPlace ==
  ASSUME IInv, MInv, current \in Procs, depth[current] = 1,
         frame[current][1] \in {"sys", "sys_ret"}, call[current] = "none", current = 0
  PROVE  place[current] = "user"
<1>1. fn[0] = "kernel_thread" /\ stack[0] # 0
  BY MemoryFacts, ConstantFacts DEF MInv, TaskKinds
<1>2. state[0] # "ZOMBIE"
  BY DEF IInv, ZombiesExit
<1> QED BY <1>1, <1>2, ConstantFacts DEF place

(* Only user_process makes a call that is not sys_write.                   *)
LEMMA FirstCalls ==
  ASSUME IInv, MInv, At("sys"), NextCall # "sys_write"
  PROVE  /\ current = 0 /\ current \in Procs /\ depth[current] = 1
         /\ frame[current][1] = "sys" /\ NextCall = SyscallAt[upc]
         /\ forked = nr_tasks
<1>1. current \in Procs /\ depth[current] = 1 /\ frame[current][1] = "sys"
  BY Where DEF Loc, Bodies, SchedLocs
<1>2. forked = nr_tasks
  BY ForkedFacts DEF At
<1> QED BY <1>1, <1>2 DEF NextCall

(* user_process clones, with what it has from sys_malloc.                  *)
LEMMA CloneForksMm == IInv /\ MInv /\ CloneForks => Implements
<1> SUFFICES ASSUME IInv, MInv, CloneForks PROVE Implements
  OBVIOUS
<1>1. /\ current # Boot /\ CallsFork /\ frame' = Goto("fork_alloc") /\ NextCall = "sys_clone"
      /\ UNCHANGED <<current, nr_tasks, fn, state>> /\ Enter("do_fork", pstack) /\ Fresh # {}
  BY DEF CloneForks, DoForkEnter, tableVars, forkVars
<1>2. At("sys")
  <2>1. CASE At("kmain")
    BY <1>1, <2>1, Where, ConstantFacts DEF Loc, Bodies, SchedLocs, IInv, BootPhase, TypeOK
  <2> QED BY <1>1, <2>1 DEF CallsFork
<1>3. /\ current = 0 /\ current \in Procs /\ depth[current] = 1 /\ frame[current][1] = "sys"
      /\ upc \in {"clone1", "clone2"} /\ forked = nr_tasks
  <2>1. upc \in DOMAIN SyscallAt
    BY DEF MInv, KernelTypeOK
  <2> QED BY <1>1, <1>2, <2>1, FirstCalls DEF SyscallAt
<1>4. /\ frame'[current][1] = "fork_alloc"
      /\ \A t \in Procs \ {current} : frame'[t][1] = frame[t][1]
  BY <1>1, <1>3, Moves DEF Loc, Critical, ForkLocs
<1>5. pstack \in M!Pages \cup {M!Null, M!Failed}
  BY DEF MInv, KernelTypeOK
<1>6. MInv' /\ M!Enter("do_fork", pstack) /\ UNCHANGED <<current, mem_map, forked, M!useVars>>
  BY <1>1, <1>3, <1>4, <1>5, EnterStep
<1>7. place[current] = "user"
  BY <1>1, <1>3, UserPlace DEF Enter
<1>8. pstack \in heap[current]
  BY <1>3 DEF MInv, CloneHasStack, ForkLocs
<1>9. forked < MaxTasks
  <2>1. PICK q \in Tasks : frame[q][1] = "none"
    BY <1>1 DEF Fresh
  <2>2. ~Publishing
    BY <1>2, NotForking DEF At
  <2>3. q >= nr_tasks
    BY <2>1, <2>2 DEF IInv, PagesTaken
  <2> QED BY <1>3, <2>3, ConstantFacts DEF IInv, TypeOK
<1>10. M!SysClone
  BY <1>3, <1>6, <1>7, <1>8, <1>9 DEF M!SysClone, M!Calls
<1> QED BY <1>6, <1>10 DEF Implements, M!Next

(* user_process asks for memory.                                           *)
LEMMA MallocCalledMm == IInv /\ MInv /\ MallocCalled => Implements
<1> SUFFICES ASSUME IInv, MInv, MallocCalled PROVE Implements
  OBVIOUS
<1>1. /\ current = 0 /\ current \in Procs /\ depth[current] = 1 /\ frame[current][1] = "sys"
  BY FirstCalls DEF MallocCalled
<1>2. UNCHANGED vars /\ Enter("sys_malloc", M!Null)
  BY DEF MallocCalled
<1>3. /\ MInv' /\ M!Enter("sys_malloc", M!Null)
      /\ UNCHANGED <<current, mem_map, forked, M!useVars>>
  BY <1>1, <1>2, EnterStep DEF vars
<1>4. place[current] = "user"
  BY <1>1, <1>2, UserPlace DEF Enter
<1>5. M!SysMalloc
  BY <1>1, <1>3, <1>4 DEF M!SysMalloc, M!Calls
<1> QED BY <1>3, <1>5 DEF Implements, M!Next

(* kernel_thread asks for its user stack.                                  *)
LEMMA MovesToUserModeMm == IInv /\ MInv /\ MovesToUserMode => Implements
<1> SUFFICES ASSUME IInv, MInv, MovesToUserMode PROVE Implements
  OBVIOUS
<1>1. current \in Procs /\ depth[current] = 1 /\ frame[current][1] = "kfn"
  BY Where DEF MovesToUserMode, Loc, Bodies, SchedLocs
<1>2. fn[current] = "kernel_thread" /\ UNCHANGED vars /\ Enter("move_to_user_mode", M!Null)
  BY DEF MovesToUserMode
<1>3. current \in Tasks
  BY <1>1, ConstantFacts DEF IInv, BootPhase, ForkLocs
<1>4. current = 0
  BY <1>1, <1>2, <1>3 DEF MInv, TaskKinds
<1>5. /\ MInv' /\ M!Enter("move_to_user_mode", M!Null)
      /\ UNCHANGED <<current, mem_map, forked, M!useVars>>
  BY <1>1, <1>2, <1>4, EnterStep DEF vars
<1>6. stack[0] = 0 /\ state[0] # "ZOMBIE"
  BY <1>1, <1>4, MemoryFacts DEF MInv, TaskKinds, IInv, ZombiesExit
<1>7. place[current] = "kernel_thread"
  BY <1>1, <1>2, <1>4, <1>6, ConstantFacts DEF place, Enter
<1>8. M!MoveToUserMode
  BY <1>5, <1>7 DEF M!MoveToUserMode
<1> QED BY <1>5, <1>8 DEF Implements, M!Next

----------------------------------------------------------------------------
(* The loop goes past a page that is taken ...                             *)
LEMMA ProbeTakenMm == IInv /\ MInv /\ ProbeTaken => Implements
<1> SUFFICES ASSUME IInv, MInv, ProbeTaken PROVE Implements
  OBVIOUS
<1> USE DEF useVars, progVars
<1>1. /\ current \in Procs /\ current \in {0, Boot} /\ place[current] = "probe"
      /\ call[current] = "probe"
  BY InCall DEF ProbeTaken
<1>2. /\ i[current] < PageNum /\ mem_map[i[current]]
      /\ i' = [i EXCEPT ![current] = @ + 1]
      /\ UNCHANGED <<vars, mem_map, call, caller, arg, page, stack, heap, upc, pstack>>
  BY DEF ProbeTaken
<1>3. i[current] \in 0 .. PageNum /\ i[current] + 1 \in 0 .. PageNum
  BY <1>1, <1>2, MemoryFacts DEF MInv, KernelTypeOK
<1>4. i' \in [Procs -> 0 .. PageNum] /\ i'[current] = i[current] + 1
  BY <1>1, <1>2, <1>3 DEF MInv, KernelTypeOK
<1>5. KernelTypeOK'
  BY <1>2, <1>4 DEF MInv, KernelTypeOK
<1>6. CallPlaces' /\ TaskKinds' /\ CloneHasStack' /\ FullAfterFailure' /\ ClonesHaveStacks'
      /\ TasksHavePages'
  BY <1>2 DEF vars, MInv, CallPlaces, TaskKinds, CloneHasStack, FullAfterFailure,
              ClonesHaveStacks, TasksHavePages
<1>7. ScanExact'
  <2> SUFFICES ASSUME NEW t \in Procs, call[t] # "none"
               PROVE  /\ \A k \in M!Slots : k < i'[t] => mem_map[k]
                      /\ call[t] = "mark" => i'[t] \in M!Slots /\ ~mem_map[i'[t]]
    BY <1>2 DEF ScanExact
  <2>1. t = current
    BY <1>1, OnlyCall
  <2>2. \A k \in M!Slots : k < i[t] => mem_map[k]
    BY DEF MInv, ScanExact
  <2> QED BY <1>1, <1>2, <1>3, <1>4, <2>1, <2>2, MemoryFacts
<1>8. MInv'
  BY <1>5, <1>6, <1>7 DEF MInv
<1>9. place' = place /\ forked' = forked
  BY <1>2 DEF place, forked, Publishing, vars
<1>10. M!ProbeTaken
  BY <1>1, <1>2, <1>9 DEF M!ProbeTaken, M!useVars, vars
<1> QED BY <1>8, <1>10 DEF Implements, M!Next

(* ... and stops at one that is not.                                       *)
LEMMA ProbeFreeMm == IInv /\ MInv /\ ProbeFree => Implements
<1> SUFFICES ASSUME IInv, MInv, ProbeFree PROVE Implements
  OBVIOUS
<1> USE DEF useVars, progVars
<1>1. /\ current \in Procs /\ current \in {0, Boot} /\ place[current] = "probe"
      /\ call[current] = "probe"
  BY InCall DEF ProbeFree
<1>2. /\ i[current] < PageNum /\ ~mem_map[i[current]]
      /\ call' = [call EXCEPT ![current] = "mark"]
      /\ UNCHANGED <<vars, mem_map, caller, i, arg, page, stack, heap, upc, pstack>>
  BY DEF ProbeFree
<1>3. /\ call' \in [Procs -> {"none", "probe", "mark"}] /\ call'[current] = "mark"
      /\ \A t \in Procs \ {current} : call'[t] = call[t]
  BY <1>1, <1>2 DEF MInv, KernelTypeOK
<1>4. KernelTypeOK'
  BY <1>2, <1>3 DEF MInv, KernelTypeOK
<1>5. \A t \in Procs : call'[t] # "none" <=> call[t] # "none"
  BY <1>1, <1>3
<1>6. CallPlaces' /\ TaskKinds' /\ CloneHasStack' /\ FullAfterFailure' /\ ClonesHaveStacks'
      /\ TasksHavePages'
  BY <1>2, <1>5 DEF vars, MInv, CallPlaces, TaskKinds, CloneHasStack, FullAfterFailure,
              ClonesHaveStacks, TasksHavePages
<1>7. ScanExact'
  <2>1. i[current] \in M!Slots
    BY <1>1, <1>2, MemoryFacts DEF MInv, KernelTypeOK
  <2> QED BY <1>1, <1>2, <1>3, <2>1 DEF MInv, ScanExact
<1>8. MInv'
  BY <1>4, <1>6, <1>7 DEF MInv
<1>9. place' = [place EXCEPT ![current] = "mark"]
  <2>1. place'[current] = "mark"
    BY <1>1, <1>3 DEF place
  <2>2. \A t \in Procs \ {current} : place'[t] = place[t]
    BY <1>2, <1>3, OtherPlacesSame DEF vars, forkVars
  <2> QED BY <1>1, <2>1, <2>2, PlaceStep
<1>10. forked' = forked
  BY <1>2 DEF forked, Publishing, vars
<1>11. M!ProbeFree
  BY <1>1, <1>2, <1>9, <1>10 DEF M!ProbeFree, M!Goto, M!callVars, M!useVars, vars
<1> QED BY <1>8, <1>11 DEF Implements, M!Next

----------------------------------------------------------------------------
(* get_free_page returns: nobody is in it any more.                        *)
LEMMA ReturnStep ==
  ASSUME IInv, MInv, current \in {0, Boot}, call' = [call EXCEPT ![current] = "none"],
         frame'[current][1] # "fork_alloc",
         \A t \in Procs \ {current} : frame'[t][1] \in {frame[t][1], "born"}
  PROVE  /\ call' \in [Procs -> {"none", "probe", "mark"}]
         /\ \A t \in Procs : call'[t] = "none"
         /\ CallPlaces' /\ ScanExact'
<1>1. current \in Procs
  BY ConstantFacts
<1>2. /\ call' \in [Procs -> {"none", "probe", "mark"}]
      /\ \A t \in Procs : call'[t] = "none"
  BY <1>1, OnlyCall DEF MInv, KernelTypeOK
<1>3. \A t \in Procs : frame'[t][1] # "fork_alloc"
  <2>1. \A t \in Procs \ {current} : frame[t][1] # "fork_alloc"
    BY OnlyCall DEF MInv, CallPlaces
  <2> QED BY <1>1, <2>1
<1> QED BY <1>2, <1>3 DEF CallPlaces, ScanExact

(* The mark: what get_free_page has found is a page, and was free.         *)
LEMMA FoundStep ==
  ASSUME IInv, MInv, ReturnsFound
  PROVE  /\ i[current] \in M!Slots /\ ~mem_map[i[current]]
         /\ Found \in M!Pages /\ Found = M!Found /\ M!Mark
         /\ mem_map' \in [M!Slots -> BOOLEAN]
         /\ \A k \in M!Slots : mem_map[k] => mem_map'[k]
         /\ pstack = M!Failed => upc = "end"
<1>1. current \in Procs /\ call[current] = "mark"
  BY InCall DEF ReturnsFound
<1>2. i[current] \in M!Slots /\ ~mem_map[i[current]]
  BY <1>1 DEF MInv, ScanExact
<1>3. mem_map' = [mem_map EXCEPT ![i[current]] = TRUE] /\ mem_map \in [M!Slots -> BOOLEAN]
  BY DEF ReturnsFound, MInv, KernelTypeOK
<1>4. Found \in M!Pages /\ Found = M!Found
  BY <1>2, MemoryFacts DEF Found, M!Found
<1>5. pstack = M!Failed => upc = "end"
  BY <1>2 DEF MInv, FullAfterFailure
<1> QED BY <1>2, <1>3, <1>4, <1>5 DEF M!Mark

(* do_fork takes the task_struct that is next in the table.                *)
LEMMA AllocFacts ==
  ASSUME IInv, DoForkAlloc, NEW p, p = nr_tasks
  PROVE  /\ p \in Tasks /\ p \in Procs /\ p # current /\ p # Boot
         /\ frame[p][1] = "none" /\ state[p] # "ZOMBIE"
         /\ frame'[current][1] = "fork_publish" /\ frame'[p][1] = "born"
         /\ \A t \in Procs \ {current, p} : frame'[t][1] = frame[t][1]
         /\ fn'[p] = ForkFn /\ \A t \in Procs \ {p} : fn'[t] = fn[t]
         /\ UNCHANGED <<current, nr_tasks, state>>
<1>1. Top(current) = "fork_alloc"
  BY DEF DoForkAlloc, At
<1>2. /\ current \in Procs /\ depth[current] = 1 /\ depth \in [Procs -> 1 .. 2]
      /\ Top(current) = frame[current][1] /\ 1 \in Levels
  BY <1>1, FirstActivation, ConstantFacts DEF IInv, TypeOK, SchedLocs
<1>3. ~Publishing
  BY <1>1, NotForking
<1>4. Fresh = {q \in Tasks : q >= nr_tasks}
  BY <1>3 DEF IInv, PagesTaken, Fresh
<1>5. p \in Tasks /\ p \in Fresh /\ \A q \in Fresh : (\A r \in Fresh : q <= r) => q = p
  <2>1. PICK q \in Fresh : TRUE
    BY DEF DoForkAlloc
  <2>2. nr_tasks \in Nat
    BY DEF IInv, TypeOK
  <2>3. p \in Tasks /\ p \in Fresh
    BY <1>4, <2>1, <2>2, ConstantFacts
  <2> QED BY <1>4, <2>2, <2>3, ConstantFacts
<1>6. /\ fn' = [fn EXCEPT ![p] = ForkFn]
      /\ frame' = [frame EXCEPT ![current][1] = "fork_publish", ![p][1] = "born"]
      /\ UNCHANGED <<current, nr_tasks, state>>
  BY <1>2, <1>5 DEF DoForkAlloc, tableVars
<1>7. p \in Procs /\ p # Boot /\ p # current /\ frame[p][1] = "none"
  BY <1>1, <1>2, <1>5, ConstantFacts DEF Fresh
<1>8. state[p] # "ZOMBIE"
  BY <1>7 DEF IInv, ZombiesExit
<1> QED BY <1>2, <1>5, <1>6, <1>7, <1>8 DEF IInv, TypeOK

(* The page becomes a task_struct, ...                                     *)
LEMMA GetsTaskStructMm == IInv /\ MInv /\ GetsTaskStruct => Implements
<1> SUFFICES ASSUME IInv, MInv, GetsTaskStruct PROVE Implements
  OBVIOUS
<1> DEFINE p == nr_tasks  s == arg[current]
<1>1. /\ current \in Procs /\ current \in {0, Boot} /\ place[current] = "mark"
      /\ frame[current][1] = "fork_alloc" /\ caller[current] = "do_fork"
      /\ depth[current] = 1 /\ call[current] = "mark" /\ forked = p
  BY InCall DEF GetsTaskStruct, ReturnsFound, DoForkAlloc, At
<1>2. /\ p \in Tasks /\ p \in Procs /\ p # current /\ p # Boot
      /\ frame[p][1] = "none" /\ state[p] # "ZOMBIE"
      /\ frame'[current][1] = "fork_publish" /\ frame'[p][1] = "born"
      /\ \A t \in Procs \ {current, p} : frame'[t][1] = frame[t][1]
      /\ fn'[p] = ForkFn /\ \A t \in Procs \ {p} : fn'[t] = fn[t]
      /\ UNCHANGED <<current, nr_tasks, state>>
  BY AllocFacts DEF GetsTaskStruct
<1>3. /\ i[current] \in M!Slots /\ Found \in M!Pages /\ Found = M!Found /\ M!Mark
      /\ mem_map' \in [M!Slots -> BOOLEAN]
      /\ \A k \in M!Slots : mem_map[k] => mem_map'[k]
      /\ pstack = M!Failed => upc = "end"
  BY FoundStep DEF GetsTaskStruct
<1>4. /\ page' = [page EXCEPT ![p] = Found] /\ stack' = [stack EXCEPT ![p] = s]
      /\ heap' = [heap EXCEPT ![current] = @ \ {s}]
      /\ call' = [call EXCEPT ![current] = "none"]
      /\ UNCHANGED <<caller, i, arg, upc, pstack>>
  BY <1>1 DEF GetsTaskStruct, ReturnsFound, progVars
<1>5. /\ call' \in [Procs -> {"none", "probe", "mark"}]
      /\ \A t \in Procs : call'[t] = "none"
      /\ CallPlaces' /\ ScanExact'
  <2>1. \A t \in Procs \ {current} : frame'[t][1] \in {frame[t][1], "born"}
    BY <1>2
  <2> QED BY <1>1, <1>2, <1>4, <2>1, ReturnStep
<1> HIDE DEF p, s
<1>6. /\ s = IF current = Boot THEN M!Null ELSE pstack
      /\ s # M!Failed /\ s \in M!Pages \cup {M!Null, M!Failed}
  <2>1. s = IF current = Boot THEN M!Null ELSE pstack
    BY <1>1 DEF MInv, CallPlaces, s
  <2>2. current = 0 => upc # "end"
    BY <1>1 DEF MInv, CloneHasStack, ForkLocs
  <2>3. s \in M!Pages \cup {M!Null, M!Failed}
    BY <1>1 DEF MInv, KernelTypeOK, s
  <2> QED BY <1>1, <1>3, <2>1, <2>2, <2>3, MemoryFacts
<1>7. KernelTypeOK'
  <2>1. KernelTypeOK
    BY DEF MInv
  <2>2. page' \in [Procs -> M!Pages \cup {M!Null}]
    BY <1>3, <1>4, <2>1 DEF KernelTypeOK
  <2>3. stack' \in [Procs -> M!Pages \cup {M!Null, M!Failed}]
    BY <1>4, <1>6, <2>1 DEF KernelTypeOK
  <2>4. heap' \in [Procs -> SUBSET (M!Pages \cup {M!Failed})]
    BY <1>1, <1>4, <2>1 DEF KernelTypeOK
  <2> QED BY <1>3, <1>4, <1>5, <2>1, <2>2, <2>3, <2>4 DEF KernelTypeOK
<1>8. /\ stack'[p] = s /\ \A t \in Procs \ {p} : stack'[t] = stack[t]
      /\ page'[p] = Found /\ \A t \in Procs \ {p} : page'[t] = page[t]
  BY <1>2, <1>4 DEF MInv, KernelTypeOK
<1>9. 0 \in Procs /\ 1 \in Procs /\ \A t \in Tasks : t \in Procs
  BY ConstantFacts
<1>10. IF current = Boot THEN p \in {0, 1} ELSE p \in Int /\ p > 1
  BY <1>1, <1>2, ConstantFacts DEF IInv, BootPhase, TypeOK, p
<1>11. /\ fn'[p] = IF p = 0 THEN "kernel_thread" ELSE IF p = 1 THEN "kernel_process" ELSE "user"
       /\ p = 0 => s = M!Null
  BY <1>1, <1>2, <1>6, <1>10, ConstantFacts DEF ForkFn, p
<1>12. TaskKinds'
  <2>1. \A t \in Tasks : frame'[t][1] # "none" =>
          fn'[t] = IF t = 0 THEN "kernel_thread" ELSE IF t = 1 THEN "kernel_process" ELSE "user"
    <3>1. current \in Tasks => frame[current][1] # "none" /\ fn'[current] = fn[current]
      BY <1>1, <1>2
    <3> QED BY <1>2, <1>9, <1>11, <3>1 DEF MInv, TaskKinds
  <2>2. stack'[0] = M!Null <=> frame'[0][1] \in {"none", "born", "kfn"}
    <3>1. CASE p = 0
      BY <1>2, <1>8, <1>11, <3>1
    <3>2. CASE p # 0 /\ current = 0
      BY <1>1, <1>2, <1>8, <1>9, <3>2 DEF MInv, TaskKinds
    <3>3. CASE p # 0 /\ current # 0
      BY <1>2, <1>8, <1>9, <3>3 DEF MInv, TaskKinds
    <3> QED BY <3>1, <3>2, <3>3
  <2>3. \A t \in Procs :
          /\ frame'[t][1] \in ForkLocs => t \in {0, Boot}
          /\ frame'[t][1] \in {"exit_free", "exit_sched"} =>
               t = 0 /\ state'[t] = "ZOMBIE" /\ upc' = "end"
    <3> SUFFICES ASSUME NEW t \in Procs
                 PROVE  /\ frame'[t][1] \in ForkLocs => t \in {0, Boot}
                        /\ frame'[t][1] \in {"exit_free", "exit_sched"} =>
                             t = 0 /\ state'[t] = "ZOMBIE" /\ upc' = "end"
      OBVIOUS
    <3>1. CASE t = current
      BY <1>1, <1>2, <1>4, <3>1 DEF MInv, TaskKinds, ForkLocs
    <3>2. CASE t = p
      BY <1>2, <3>2 DEF ForkLocs
    <3>3. CASE t # current /\ t # p
      BY <1>2, <1>4, <3>3 DEF MInv, TaskKinds
    <3> QED BY <3>1, <3>2, <3>3
  <2> QED BY <2>1, <2>2, <2>3 DEF TaskKinds
<1>13. CloneHasStack'
  <2>1. current = 0 => frame'[0][1] \in ForkLocs /\ upc \in {"clone1", "clone2"}
    BY <1>1, <1>2 DEF MInv, CloneHasStack, ForkLocs
  <2>2. current # 0 =>
          heap'[0] = heap[0] /\ (frame'[0][1] \in ForkLocs <=> frame[0][1] \in ForkLocs)
    <3>1. current # 0 => heap'[0] = heap[0]
      BY <1>1, <1>4, <1>9 DEF MInv, KernelTypeOK
    <3> QED BY <1>2, <1>9, <3>1 DEF ForkLocs
  <2> QED BY <1>4, <2>1, <2>2 DEF MInv, CloneHasStack
<1>14. FullAfterFailure' /\ ClonesHaveStacks' /\ TasksHavePages'
  <2>1. FullAfterFailure'
    BY <1>3, <1>4 DEF MInv, FullAfterFailure
  <2>2. ClonesHaveStacks'
    BY <1>6, <1>8 DEF MInv, ClonesHaveStacks
  <2>3. TasksHavePages'
    BY <1>1, <1>2, <1>3, <1>8, <1>9 DEF MInv, TasksHavePages
  <2> QED BY <2>1, <2>2, <2>3
<1>15. MInv'
  BY <1>5, <1>7, <1>12, <1>13, <1>14 DEF MInv
<1>16. forked' = forked + 1
  <2>1. Publishing'
    BY <1>1, <1>2 DEF Publishing
  <2> QED BY <1>1, <1>2, <2>1 DEF forked, p
<1>17. place'[current] = IF current = Boot THEN "kernel_main" ELSE "user"
  <2>1. CASE current = Boot
    BY <1>1, <1>5, <2>1 DEF place
  <2>2. CASE current = 0 /\ current # Boot
    <3>1. fn'[0] = "kernel_thread" /\ state'[0] # "ZOMBIE" /\ stack'[0] # 0
      BY <1>1, <1>2, <1>8, <1>9, <2>2, MemoryFacts, ConstantFacts
      DEF MInv, TaskKinds, IInv, ZombiesExit
    <3> QED BY <1>1, <1>2, <1>5, <2>2, <3>1 DEF place
  <2> QED BY <1>1, <2>1, <2>2, ConstantFacts
<1>18. place'[p] = IF current # Boot THEN "user"
                   ELSE IF p = 0 THEN "kernel_thread" ELSE "kernel_process"
  <2>1. state'[p] # "ZOMBIE" /\ call'[p] = "none" /\ frame'[p][1] = "born"
    BY <1>2, <1>5
  <2>2. p = 0 => stack'[p] = 0
    BY <1>8, <1>11, MemoryFacts
  <2> QED BY <1>2, <1>10, <1>11, <2>1, <2>2 DEF place
<1>19. \A t \in Procs \ {current, p} : place'[t] = place[t]
  <2>1. \A t \in Procs \ {current} : call'[t] = call[t]
    BY <1>1, <1>4 DEF MInv, KernelTypeOK
  <2> QED BY <1>2, <1>8, <2>1, PlaceSame
<1>20. place' = [place EXCEPT
         ![current] = IF current = Boot THEN "kernel_main" ELSE "user",
         ![p] = IF current # Boot THEN "user"
                ELSE IF p = 0 THEN "kernel_thread" ELSE "kernel_process"]
  <2>1. /\ place = [t \in Procs |-> place[t]]
        /\ place' = [t \in Procs |-> place'[t]]
    BY DEF place
  <2> QED BY <1>1, <1>2, <1>17, <1>18, <1>19, <2>1
<1>21. M!GetsTaskStruct
  BY <1>1, <1>2, <1>3, <1>4, <1>16, <1>20, MemoryFacts
  DEF M!GetsTaskStruct, M!callVars, s
<1> QED BY <1>15, <1>21 DEF Implements, M!Next

(* do_fork, or a call of user_process, is over.                            *)
LEMMA BackToUser ==
  ASSUME IInv, MInv, UNCHANGED <<current, fn, nr_tasks, state>>,
         current = 0, 0 \in Procs, depth[0] = 1, frame' = Goto("sys_ret"),
         frame[0][1] \in {"fork_alloc", "fork_end", "sys"},
         \A t \in Procs \ {0} : call'[t] = call[t], call'[0] = "none", stack' = stack,
         upc' # "end" => upc # "end",
         upc' \in {"clone1", "clone2"} => pstack' \in heap'[0],
         page' = page, arg' = arg, caller' = caller,
         frame[0][1] = "fork_alloc" => call[0] # "none"
  PROVE  /\ TaskKinds' /\ CloneHasStack' /\ ClonesHaveStacks' /\ TasksHavePages'
         /\ place' = [place EXCEPT ![current] = "user"] /\ forked' = forked
         /\ frame'[0][1] = "sys_ret" /\ \A t \in Procs \ {0} : frame'[t][1] = frame[t][1]
<1>1. frame'[0][1] = "sys_ret" /\ \A t \in Procs \ {0} : frame'[t][1] = frame[t][1]
  BY Moves DEF Loc, Bodies
<1>2. \A t \in Tasks : t \in Procs
  BY ConstantFacts
<1>3. TaskKinds'
  <2>1. \A t \in Tasks : frame'[t][1] # "none" =>
          fn'[t] = IF t = 0 THEN "kernel_thread" ELSE IF t = 1 THEN "kernel_process" ELSE "user"
    BY <1>1, <1>2 DEF MInv, TaskKinds
  <2>2. stack'[0] = M!Null <=> frame'[0][1] \in {"none", "born", "kfn"}
    BY <1>1 DEF MInv, TaskKinds
  <2>3. \A t \in Procs :
          /\ frame'[t][1] \in ForkLocs => t \in {0, Boot}
          /\ frame'[t][1] \in {"exit_free", "exit_sched"} =>
               t = 0 /\ state'[t] = "ZOMBIE" /\ upc' = "end"
    BY <1>1 DEF MInv, TaskKinds
  <2> QED BY <2>1, <2>2, <2>3 DEF TaskKinds
<1>4. CloneHasStack'
  BY <1>1 DEF CloneHasStack, ForkLocs
<1>5. ClonesHaveStacks' /\ TasksHavePages'
  BY <1>1, <1>2 DEF MInv, ClonesHaveStacks, TasksHavePages
<1>6. place' = [place EXCEPT ![current] = "user"]
  <2>1. fn[0] = "kernel_thread" /\ stack[0] # 0 /\ state[0] # "ZOMBIE"
    BY MemoryFacts, ConstantFacts DEF MInv, TaskKinds, IInv, ZombiesExit
  <2>2. place'[0] = "user"
    BY <1>1, <2>1, ConstantFacts DEF place
  <2>3. \A t \in Procs \ {current} : place'[t] = place[t]
    BY <1>1, OtherPlacesSame
  <2> QED BY <2>2, <2>3, PlaceStep
<1>7. forked' = forked
  BY <1>1, ForkedSame
<1> QED BY <1>1, <1>3, <1>4, <1>5, <1>6, <1>7

(* do_fork returns: nothing of it is seen in the memory.                   *)
LEMMA ForkReturnsMm == IInv /\ MInv /\ ForkReturns => Implements
<1> SUFFICES ASSUME IInv, MInv, ForkReturns PROVE Implements
  OBVIOUS
<1>1. /\ current \in Procs /\ depth[current] = 1 /\ frame[current][1] = "fork_end"
  BY Where DEF ForkReturns, DoForkEnd, Loc, Critical, ForkLocs, SchedLocs
<1>2. /\ UNCHANGED <<current, fn, nr_tasks, state>>
      /\ UNCHANGED <<mem_map, call, caller, i, arg, page, stack, heap, pstack>>
      /\ frame' = Goto(IF current = Boot THEN "kmain" ELSE "sys_ret")
      /\ upc' = IF current = Boot THEN upc ELSE After[upc]
  BY DEF ForkReturns, DoForkEnd, tableVars, forkVars, memVars, callVars, useVars
<1>3. current \in {0, Boot} /\ call[current] = "none" /\ \A t \in Procs : call[t] = "none"
  <2>1. current \in {0, Boot}
    BY <1>1 DEF MInv, TaskKinds, ForkLocs
  <2>2. call[current] = "none"
    BY <1>1 DEF MInv, CallPlaces, KernelTypeOK
  <2> QED BY <2>1, <2>2, OnlyCall
<1>4. upc' \in DOMAIN SyscallAt /\ (upc' # "end" => upc # "end")
      /\ (current # Boot => upc' \notin {"clone1", "clone2"})
  <2>1. upc \in DOMAIN SyscallAt
    BY DEF MInv, KernelTypeOK
  <2>2. current # Boot => upc \in {"clone1", "clone2"}
    BY <1>1, <1>3 DEF MInv, CloneHasStack, ForkLocs
  <2> QED BY <1>2, <2>1, <2>2 DEF After, SyscallAt
<1>5. KernelTypeOK' /\ ScanExact' /\ FullAfterFailure'
  BY <1>2, <1>3, <1>4 DEF MInv, KernelTypeOK, ScanExact, FullAfterFailure
<1>6. frame[current][1] # "fork_alloc" /\ \A t \in Procs : frame[t][1] # "fork_alloc"
  BY <1>1, <1>3 DEF MInv, CallPlaces
<1>7. CASE current = Boot
  <2>1. frame'[current][1] = "kmain" /\ \A t \in Procs \ {current} : frame'[t][1] = frame[t][1]
    BY <1>1, <1>2, <1>7, Moves DEF Loc, Bodies
  <2>2. 0 \in Procs \ {current} /\ \A t \in Tasks : t \in Procs \ {current}
    BY <1>7, ConstantFacts
  <2>3. CallPlaces'
    BY <1>2, <1>3, <1>6, <2>1 DEF CallPlaces
  <2>4. TaskKinds'
    <3>1. \A t \in Tasks : frame'[t][1] # "none" =>
            fn'[t] = IF t = 0 THEN "kernel_thread" ELSE IF t = 1 THEN "kernel_process" ELSE "user"
      BY <1>2, <2>1, <2>2 DEF MInv, TaskKinds
    <3>2. stack'[0] = M!Null <=> frame'[0][1] \in {"none", "born", "kfn"}
      BY <1>2, <2>1, <2>2 DEF MInv, TaskKinds
    <3>3. \A t \in Procs :
            /\ frame'[t][1] \in ForkLocs => t \in {0, Boot}
            /\ frame'[t][1] \in {"exit_free", "exit_sched"} =>
                 t = 0 /\ state'[t] = "ZOMBIE" /\ upc' = "end"
      BY <1>2, <1>7, <2>1 DEF MInv, TaskKinds
    <3> QED BY <3>1, <3>2, <3>3 DEF TaskKinds
  <2>5. CloneHasStack'
    BY <1>2, <1>7, <2>1, <2>2 DEF MInv, CloneHasStack
  <2>6. ClonesHaveStacks' /\ TasksHavePages'
    BY <1>2, <2>1, <2>2 DEF MInv, ClonesHaveStacks, TasksHavePages
  <2>7. MInv'
    BY <1>5, <2>3, <2>4, <2>5, <2>6 DEF MInv
  <2>8. place' = place
    <3>1. place'[current] = place[current]
      BY <1>1, <1>2, <1>3, <1>7 DEF place
    <3>2. \A t \in Procs \ {current} : place'[t] = place[t]
      BY <1>2, <2>1, OtherPlacesSame
    <3> QED BY <3>1, <3>2 DEF place
  <2>9. forked' = forked
    BY <1>1, <1>2, <2>1, ForkedSame
  <2> QED BY <1>2, <2>7, <2>8, <2>9 DEF Implements, M!vars
<1>8. CASE current # Boot
  <2>1. /\ TaskKinds' /\ CloneHasStack' /\ ClonesHaveStacks' /\ TasksHavePages'
        /\ place' = [place EXCEPT ![current] = "user"] /\ forked' = forked
        /\ frame'[0][1] = "sys_ret" /\ \A t \in Procs \ {0} : frame'[t][1] = frame[t][1]
    BY <1>1, <1>2, <1>3, <1>4, <1>8, BackToUser
  <2>2. CallPlaces'
    BY <1>2, <1>3, <1>6, <2>1 DEF CallPlaces
  <2>3. MInv'
    BY <1>5, <2>1, <2>2 DEF MInv
  <2>4. place[current] = "user"
    <3>1. fn[0] = "kernel_thread" /\ stack[0] # 0 /\ state[0] # "ZOMBIE" /\ current = 0
      BY <1>1, <1>3, <1>8, MemoryFacts, ConstantFacts DEF MInv, TaskKinds, IInv, ZombiesExit
    <3> QED BY <1>1, <1>3, <3>1, ConstantFacts DEF place
  <2>5. place' = place
    <3>1. place = [t \in Procs |-> place[t]]
      BY DEF place
    <3> QED BY <1>1, <2>1, <2>4, <3>1
  <2> QED BY <1>2, <2>1, <2>3, <2>5 DEF Implements, M!vars
<1> QED BY <1>7, <1>8

(* do_fork finds no page for user_process.                                 *)
LEMMA ForkRefusedMm == IInv /\ MInv /\ ForkRefused => Implements
<1> SUFFICES ASSUME IInv, MInv, ForkRefused PROVE Implements
  OBVIOUS
<1>1. /\ current \in Procs /\ current \in {0, Boot} /\ place[current] = "probe"
      /\ frame[current][1] = "fork_alloc" /\ caller[current] = "do_fork"
      /\ depth[current] = 1 /\ call[current] = "probe" /\ i[current] = PageNum
  BY InCall DEF ForkRefused, ReturnsNull, DoForkFail, At
<1>2. /\ UNCHANGED <<current, fn, nr_tasks, state>>
      /\ UNCHANGED <<mem_map, caller, i, arg, page, stack, heap, pstack>>
      /\ call' = [call EXCEPT ![current] = "none"] /\ frame' = Goto("sys_ret")
      /\ upc' = IfCloneFails[upc] /\ current # Boot
  BY DEF ForkRefused, ReturnsNull, DoForkFail, tableVars, useVars
<1>3. current = 0 /\ upc \in {"clone1", "clone2"}
  BY <1>1, <1>2 DEF MInv, CloneHasStack, ForkLocs
<1>4. upc' \in {"complain1", "complain2"}
  BY <1>2, <1>3 DEF IfCloneFails
<1>5. \A t \in Procs \ {current} : call'[t] = call[t]
  BY <1>1, <1>2 DEF MInv, KernelTypeOK
<1>6. frame'[current][1] = "sys_ret" /\ \A t \in Procs \ {current} : frame'[t][1] = frame[t][1]
  BY <1>1, <1>2, Moves DEF Loc, Bodies
<1>7. /\ call' \in [Procs -> {"none", "probe", "mark"}]
      /\ \A t \in Procs : call'[t] = "none"
      /\ CallPlaces' /\ ScanExact'
  BY <1>1, <1>2, <1>6, ReturnStep
<1>8. /\ TaskKinds' /\ CloneHasStack' /\ ClonesHaveStacks' /\ TasksHavePages'
      /\ place' = [place EXCEPT ![current] = "user"] /\ forked' = forked
  BY <1>1, <1>2, <1>3, <1>4, <1>5, <1>7, BackToUser
<1>9. KernelTypeOK' /\ FullAfterFailure'
  BY <1>2, <1>3, <1>4, <1>7 DEF MInv, KernelTypeOK, FullAfterFailure, SyscallAt
<1>10. MInv'
  BY <1>7, <1>8, <1>9 DEF MInv
<1>11. M!ForkRefused
  BY <1>1, <1>2, <1>3, <1>8, MemoryFacts, ConstantFacts
  DEF M!ForkRefused, M!Refused, M!Goto, M!callVars, M!useVars
<1> QED BY <1>10, <1>11 DEF Implements, M!Next

(* move_to_user_mode has its page.                                         *)
LEMMA GetsUserStackMm == IInv /\ MInv /\ GetsUserStack => Implements
<1> SUFFICES ASSUME IInv, MInv, GetsUserStack PROVE Implements
  OBVIOUS
<1>1. /\ current \in Procs /\ current = 0 /\ place[current] = "mark"
      /\ frame[current][1] = "kfn" /\ caller[current] = "move_to_user_mode"
      /\ depth[current] = 1 /\ call[current] = "mark"
  BY InCall DEF GetsUserStack, ReturnsFound, KthreadReturn, At
<1>2. /\ UNCHANGED <<current, fn, nr_tasks, state>>
      /\ UNCHANGED <<caller, i, arg, page, heap, upc, pstack>>
      /\ call' = [call EXCEPT ![current] = "none"] /\ frame' = Goto("ret_to_user")
      /\ stack' = [stack EXCEPT ![current] = Found]
  BY DEF GetsUserStack, ReturnsFound, KthreadReturn, tableVars, forkVars, progVars
<1>3. /\ Found \in M!Pages /\ Found = M!Found /\ M!Mark
      /\ mem_map' \in [M!Slots -> BOOLEAN]
      /\ \A k \in M!Slots : mem_map[k] => mem_map'[k]
  BY FoundStep DEF GetsUserStack
<1>4. /\ frame'[current][1] = "ret_to_user"
      /\ \A t \in Procs \ {current} : frame'[t][1] = frame[t][1]
  BY <1>1, <1>2, Moves DEF Loc
<1>5. /\ call' \in [Procs -> {"none", "probe", "mark"}]
      /\ \A t \in Procs : call'[t] = "none"
      /\ CallPlaces' /\ ScanExact'
  BY <1>1, <1>2, <1>4, ReturnStep
<1>6. /\ \A t \in Procs \ {current} : call'[t] = call[t] /\ stack'[t] = stack[t]
      /\ stack'[current] = Found /\ stack' \in [Procs -> M!Pages \cup {M!Null, M!Failed}]
  BY <1>1, <1>2, <1>3 DEF MInv, KernelTypeOK
<1>7. KernelTypeOK'
  BY <1>2, <1>3, <1>5, <1>6 DEF MInv, KernelTypeOK
<1>8. \A t \in Tasks : t \in Procs
  BY ConstantFacts
<1>9. TaskKinds'
  <2>1. \A t \in Tasks : frame'[t][1] # "none" =>
          fn'[t] = IF t = 0 THEN "kernel_thread" ELSE IF t = 1 THEN "kernel_process" ELSE "user"
    BY <1>1, <1>2, <1>4, <1>8 DEF MInv, TaskKinds
  <2>2. stack'[0] = M!Null <=> frame'[0][1] \in {"none", "born", "kfn"}
    BY <1>1, <1>3, <1>4, <1>6, MemoryFacts
  <2>3. \A t \in Procs :
          /\ frame'[t][1] \in ForkLocs => t \in {0, Boot}
          /\ frame'[t][1] \in {"exit_free", "exit_sched"} =>
               t = 0 /\ state'[t] = "ZOMBIE" /\ upc' = "end"
    BY <1>1, <1>2, <1>4 DEF MInv, TaskKinds, ForkLocs
  <2> QED BY <2>1, <2>2, <2>3 DEF TaskKinds
<1>10. CloneHasStack' /\ FullAfterFailure' /\ ClonesHaveStacks' /\ TasksHavePages'
  <2>1. CloneHasStack'
    BY <1>1, <1>2, <1>4 DEF MInv, CloneHasStack, ForkLocs
  <2>2. FullAfterFailure'
    BY <1>2, <1>3 DEF MInv, FullAfterFailure
  <2>3. ClonesHaveStacks'
    BY <1>1, <1>3, <1>6, MemoryFacts DEF MInv, ClonesHaveStacks
  <2>4. TasksHavePages'
    BY <1>1, <1>2, <1>4, <1>8 DEF MInv, TasksHavePages
  <2> QED BY <2>1, <2>2, <2>3, <2>4
<1>11. MInv'
  BY <1>5, <1>7, <1>9, <1>10 DEF MInv
<1>12. forked' = forked
  BY <1>1, <1>2, <1>4, ForkedSame
<1>13. place' = [place EXCEPT ![current] = "user"]
  <2>1. fn[0] = "kernel_thread" /\ state[0] # "ZOMBIE" /\ stack'[0] # 0
    BY <1>1, <1>3, <1>6, MemoryFacts, ConstantFacts DEF MInv, TaskKinds, IInv, ZombiesExit
  <2>2. place'[current] = "user"
    BY <1>1, <1>2, <1>4, <1>5, <2>1, ConstantFacts DEF place
  <2>3. \A t \in Procs \ {current} : place'[t] = place[t]
    BY <1>2, <1>4, <1>6, PlaceSame
  <2> QED BY <1>1, <2>2, <2>3, PlaceStep
<1>14. M!GetsUserStack
  BY <1>1, <1>2, <1>3, <1>12, <1>13 DEF M!GetsUserStack, M!Goto, M!callVars
<1> QED BY <1>11, <1>14 DEF Implements, M!Next

(* sys_malloc has its page, or none.                                       *)
LEMMA MallocReturnsStep ==
  ASSUME IInv, MInv, NEW w \in {"probe", "mark"}, InGetFreePage(w),
         NEW p \in M!Pages \cup {M!Failed}, MallocReturns(p),
         call' = [call EXCEPT ![current] = "none"], UNCHANGED <<caller, i, arg>>,
         mem_map' \in [M!Slots -> BOOLEAN],
         p = M!Failed => \A k \in M!Slots : mem_map'[k]
  PROVE  /\ MInv' /\ UNCHANGED <<current, forked>>
         /\ place[current] = w /\ caller[current] = "sys_malloc" /\ current = 0
         /\ place' = [place EXCEPT ![current] = "user"]
<1>1. /\ current \in Procs /\ current = 0 /\ place[current] = w
      /\ frame[current][1] = "sys" /\ caller[current] = "sys_malloc" /\ depth[current] = 1
  BY InCall DEF MallocReturns, SysOther, At
<1>2. /\ UNCHANGED <<current, fn, nr_tasks, state>>
      /\ UNCHANGED <<caller, i, arg, page, stack>>
      /\ heap' = [heap EXCEPT ![current] = @ \cup {p}] /\ pstack' = p /\ upc' = After[upc]
      /\ frame' = Goto("sys_ret")
  BY DEF MallocReturns, SysOther, tableVars, forkVars
<1>3. /\ frame'[current][1] = "sys_ret"
      /\ \A t \in Procs \ {current} : frame'[t][1] = frame[t][1]
  BY <1>1, <1>2, Moves DEF Loc, Bodies
<1>4. /\ call' \in [Procs -> {"none", "probe", "mark"}]
      /\ \A t \in Procs : call'[t] = "none"
      /\ CallPlaces' /\ ScanExact'
  BY <1>1, <1>3, ReturnStep
<1>5. /\ heap' \in [Procs -> SUBSET (M!Pages \cup {M!Failed})] /\ p \in heap'[0]
  BY <1>1, <1>2 DEF MInv, KernelTypeOK
<1>6. upc' \in DOMAIN SyscallAt /\ (upc' # "end" => upc # "end")
  <2>1. upc \in DOMAIN SyscallAt
    BY DEF MInv, KernelTypeOK
  <2> QED BY <1>2, <2>1 DEF After, SyscallAt
<1>7. KernelTypeOK' /\ FullAfterFailure'
  BY <1>2, <1>4, <1>5, <1>6 DEF MInv, KernelTypeOK, FullAfterFailure
<1>8. \A t \in Procs \ {0} : call'[t] = call[t]
  BY <1>1 DEF MInv, KernelTypeOK
<1>9. /\ TaskKinds' /\ CloneHasStack' /\ ClonesHaveStacks' /\ TasksHavePages'
      /\ place' = [place EXCEPT ![current] = "user"] /\ forked' = forked
  BY <1>1, <1>2, <1>4, <1>5, <1>6, <1>8, BackToUser
<1> QED BY <1>1, <1>2, <1>4, <1>7, <1>9 DEF MInv

(* sys_malloc's success and failure are steps of Mm.                       *)
LEMMA GetsMemoryMm == IInv /\ MInv /\ GetsMemory => Implements
<1> SUFFICES ASSUME IInv, MInv, GetsMemory PROVE Implements
  OBVIOUS
<1>1. /\ Found \in M!Pages /\ Found = M!Found /\ M!Mark
      /\ mem_map' \in [M!Slots -> BOOLEAN]
  BY FoundStep DEF GetsMemory
<1>2. /\ InGetFreePage("mark") /\ MallocReturns(Found)
      /\ call' = [call EXCEPT ![current] = "none"] /\ UNCHANGED <<caller, i, arg>>
  BY DEF GetsMemory, ReturnsFound
<1>3. /\ MInv' /\ UNCHANGED <<current, forked>>
      /\ place[current] = "mark" /\ caller[current] = "sys_malloc"
      /\ place' = [place EXCEPT ![current] = "user"]
  <2>1. Found # M!Failed
    BY <1>1, MemoryFacts
  <2> QED BY <1>1, <1>2, <2>1, MallocReturnsStep
<1>4. M!GetsMemory
  BY <1>1, <1>2, <1>3 DEF M!GetsMemory, M!Goto, M!callVars, MallocReturns
<1> QED BY <1>3, <1>4 DEF Implements, M!Next

LEMMA MallocRefusedMm == IInv /\ MInv /\ MallocRefused => Implements
<1> SUFFICES ASSUME IInv, MInv, MallocRefused PROVE Implements
  OBVIOUS
<1>1. /\ InGetFreePage("probe") /\ i[current] = PageNum /\ mem_map' = mem_map
      /\ MallocReturns(M!Failed)
      /\ call' = [call EXCEPT ![current] = "none"] /\ UNCHANGED <<caller, i, arg>>
  BY DEF MallocRefused, ReturnsNull
<1>2. mem_map \in [M!Slots -> BOOLEAN] /\ \A k \in M!Slots : mem_map[k]
  <2>1. current \in Procs /\ call[current] = "probe"
    BY <1>1, InCall
  <2> QED BY <1>1, <2>1, MemoryFacts DEF MInv, KernelTypeOK, ScanExact
<1>3. /\ MInv' /\ UNCHANGED <<current, forked>> /\ current = 0
      /\ place[current] = "probe" /\ caller[current] = "sys_malloc"
      /\ place' = [place EXCEPT ![current] = "user"]
  BY <1>1, <1>2, MallocReturnsStep
<1>4. M!MallocRefused
  BY <1>1, <1>3, MemoryFacts, ConstantFacts
  DEF M!MallocRefused, M!Refused, M!Goto, M!callVars, MallocReturns
<1> QED BY <1>3, <1>4 DEF Implements, M!Next

----------------------------------------------------------------------------
(* A program writes.                                                       *)
LEMMA SysWriteMm == IInv /\ MInv /\ SysWrite => Implements
<1> SUFFICES ASSUME IInv, MInv, SysWrite PROVE Implements
  OBVIOUS
<1>1. /\ current \in Procs /\ depth[current] = 1 /\ frame[current][1] = "sys"
  BY Where DEF SysWrite, SysOther, Loc, Bodies, SchedLocs
<1>2. /\ UNCHANGED <<current, fn, nr_tasks, state>>
      /\ UNCHANGED <<mem_map, call, caller, i, arg, page, stack, heap, pstack>>
      /\ frame' = Goto("sys_ret") /\ call[current] = "none" /\ NextCall = "sys_write"
      /\ upc' = IF current = 0 THEN After[upc] ELSE upc
  BY DEF SysWrite, SysOther, tableVars, forkVars, memVars, callVars, useVars
<1>3. /\ frame'[current][1] = "sys_ret"
      /\ \A t \in Procs \ {current} : frame'[t][1] = frame[t][1]
  BY <1>1, <1>2, Moves DEF Loc, Bodies
<1>4. upc' \in DOMAIN SyscallAt /\ (upc' # "end" => upc # "end")
      /\ (current = 0 => upc' \notin {"clone1", "clone2"} /\ upc # "end")
  <2>1. upc \in DOMAIN SyscallAt
    BY DEF MInv, KernelTypeOK
  <2>2. current = 0 => upc \in {"hello", "complain1", "complain2"}
    BY <1>2, <2>1 DEF NextCall, SyscallAt
  <2> QED BY <1>2, <2>1, <2>2 DEF After, SyscallAt
<1>5. \A t \in Procs :
        /\ frame'[t][1] = frame[t][1] \/ (frame'[t][1] = "sys_ret" /\ frame[t][1] = "sys")
        /\ call[t] # "none" => frame'[t][1] = frame[t][1]
  BY <1>1, <1>2, <1>3
<1>6. 0 \in Procs /\ \A t \in Tasks : t \in Procs
  BY ConstantFacts
<1>7. KernelTypeOK' /\ ScanExact' /\ FullAfterFailure' /\ ClonesHaveStacks'
  BY <1>2, <1>4 DEF MInv, KernelTypeOK, ScanExact, FullAfterFailure, ClonesHaveStacks
<1>8. CallPlaces'
  BY <1>2, <1>5 DEF MInv, CallPlaces
<1>9. TaskKinds'
  <2>1. \A t \in Tasks : frame'[t][1] # "none" =>
          fn'[t] = IF t = 0 THEN "kernel_thread" ELSE IF t = 1 THEN "kernel_process" ELSE "user"
    BY <1>2, <1>5, <1>6 DEF MInv, TaskKinds
  <2>2. stack'[0] = M!Null <=> frame'[0][1] \in {"none", "born", "kfn"}
    BY <1>2, <1>5, <1>6 DEF MInv, TaskKinds
  <2>3. \A t \in Procs :
          /\ frame'[t][1] \in ForkLocs => t \in {0, Boot}
          /\ frame'[t][1] \in {"exit_free", "exit_sched"} =>
               t = 0 /\ state'[t] = "ZOMBIE" /\ upc' = "end"
    <3>1. upc = "end" => upc' = "end"
      BY <1>2, <1>4
    <3> QED BY <1>2, <1>5, <3>1 DEF MInv, TaskKinds, ForkLocs
  <2> QED BY <2>1, <2>2, <2>3 DEF TaskKinds
<1>10. CloneHasStack' /\ TasksHavePages'
  <2>1. frame'[0][1] \in ForkLocs <=> frame[0][1] \in ForkLocs
    BY <1>5, <1>6 DEF ForkLocs
  <2>2. CloneHasStack'
    <3>1. CASE current = 0
      BY <1>3, <1>4, <3>1 DEF CloneHasStack, ForkLocs
    <3>2. CASE current # 0
      BY <1>2, <2>1, <3>2 DEF MInv, CloneHasStack
    <3> QED BY <3>1, <3>2
  <2> QED BY <1>2, <1>5, <1>6, <2>2 DEF MInv, TasksHavePages
<1>11. MInv'
  BY <1>7, <1>8, <1>9, <1>10 DEF MInv
<1>12. place' = place
  <2>1. place'[current] = place[current]
    BY <1>1, <1>2, <1>3 DEF place
  <2>2. \A t \in Procs \ {current} : place'[t] = place[t]
    BY <1>2, <1>3, OtherPlacesSame
  <2> QED BY <2>1, <2>2 DEF place
<1>13. forked' = forked
  BY <1>1, <1>2, <1>3, ForkedSame
<1> QED BY <1>2, <1>11, <1>12, <1>13 DEF Implements, M!vars

(* user_process exits: it is a zombie ...                                  *)
LEMMA SysExitMm == IInv /\ MInv /\ SysExit => Implements
<1> SUFFICES ASSUME IInv, MInv, SysExit PROVE Implements
  OBVIOUS
<1>1. /\ UNCHANGED <<current, fn, nr_tasks>> /\ NextCall = "sys_exit" /\ call[current] = "none"
      /\ UNCHANGED <<mem_map, call, caller, i, arg, page, stack, heap, upc, pstack>>
      /\ frame' = Goto("exit_free") /\ state' = [state EXCEPT ![current] = "ZOMBIE"]
      /\ At("sys")
  BY DEF SysExit, ExitZombie, tableVars, forkVars, memVars, callVars, useVars, progVars
<1>2. /\ current \in Procs /\ current = 0 /\ depth[current] = 1 /\ frame[current][1] = "sys"
      /\ SyscallAt[upc] = "sys_exit"
  BY <1>1, FirstCalls
<1>3. upc = "end"
  BY <1>2 DEF MInv, KernelTypeOK, SyscallAt
<1>4. /\ frame'[current][1] = "exit_free"
      /\ \A t \in Procs \ {current} : frame'[t][1] = frame[t][1]
  BY <1>1, <1>2, Moves DEF Loc, Bodies
<1>5. /\ state'[current] = "ZOMBIE" /\ \A t \in Procs \ {current} : state'[t] = state[t]
  BY <1>1, <1>2 DEF IInv, TypeOK
<1>6. \A t \in Tasks : t \in Procs
  BY ConstantFacts
<1>7. KernelTypeOK' /\ ScanExact' /\ FullAfterFailure' /\ ClonesHaveStacks'
  BY <1>1 DEF MInv, KernelTypeOK, ScanExact, FullAfterFailure, ClonesHaveStacks
<1>8. CallPlaces'
  BY <1>1, <1>2, <1>4 DEF MInv, CallPlaces
<1>9. TaskKinds'
  <2>1. \A t \in Tasks : frame'[t][1] # "none" =>
          fn'[t] = IF t = 0 THEN "kernel_thread" ELSE IF t = 1 THEN "kernel_process" ELSE "user"
    BY <1>1, <1>2, <1>4, <1>6 DEF MInv, TaskKinds
  <2>2. stack'[0] = M!Null <=> frame'[0][1] \in {"none", "born", "kfn"}
    BY <1>1, <1>2, <1>4 DEF MInv, TaskKinds
  <2>3. \A t \in Procs :
          /\ frame'[t][1] \in ForkLocs => t \in {0, Boot}
          /\ frame'[t][1] \in {"exit_free", "exit_sched"} =>
               t = 0 /\ state'[t] = "ZOMBIE" /\ upc' = "end"
    BY <1>1, <1>2, <1>3, <1>4, <1>5 DEF MInv, TaskKinds, ForkLocs
  <2> QED BY <2>1, <2>2, <2>3 DEF TaskKinds
<1>10. CloneHasStack' /\ TasksHavePages'
  BY <1>1, <1>2, <1>3, <1>4, <1>6 DEF MInv, CloneHasStack, TasksHavePages, ForkLocs
<1>11. MInv'
  BY <1>7, <1>8, <1>9, <1>10 DEF MInv
<1>12. place[current] = "user"
  BY <1>1, <1>2, UserPlace
<1>13. place' = [place EXCEPT ![current] = "exit"]
  <2>1. fn[0] = "kernel_thread"
    BY <1>2, ConstantFacts DEF MInv, TaskKinds
  <2>2. place'[current] = "exit"
    BY <1>1, <1>2, <1>4, <2>1, ConstantFacts DEF place
  <2>3. \A t \in Procs \ {current} : place'[t] = place[t]
    BY <1>1, <1>4, <1>5, PlaceSame
  <2> QED BY <1>2, <2>2, <2>3, PlaceStep
<1>14. forked' = forked
  BY <1>1, <1>2, <1>4, ForkedSame
<1>15. M!SysExit
  BY <1>1, <1>2, <1>12, <1>13, <1>14 DEF M!SysExit, M!Calls, M!Goto, M!callVars, M!useVars
<1> QED BY <1>11, <1>15 DEF Implements, M!Next

(* ... and gives its user stack back.                                      *)
LEMMA FreesStackMm == IInv /\ MInv /\ FreesStack => Implements
<1> SUFFICES ASSUME IInv, MInv, FreesStack PROVE Implements
  OBVIOUS
<1>1. /\ UNCHANGED <<current, fn, nr_tasks, state>> /\ At("exit_free")
      /\ UNCHANGED <<call, caller, i, arg, page, stack, heap, upc, pstack>>
      /\ frame' = Goto("exit_sched")
      /\ mem_map' = [k \in M!Slots |->
                       IF stack[current] # M!Null /\ k = M!PageIndex(stack[current])
                       THEN FALSE ELSE mem_map[k]]
  BY DEF FreesStack, ExitFree, tableVars, forkVars, callVars, useVars, progVars
<1>2. current \in Procs /\ depth[current] = 1 /\ frame[current][1] = "exit_free"
  BY <1>1, Where DEF Loc, Bodies, SchedLocs
<1>3. current = 0 /\ state[current] = "ZOMBIE" /\ upc = "end"
  BY <1>2 DEF MInv, TaskKinds
<1>4. /\ frame'[current][1] = "exit_sched"
      /\ \A t \in Procs \ {current} : frame'[t][1] = frame[t][1]
  BY <1>1, <1>2, Moves DEF Loc, Bodies
<1>5. \A t \in Procs : call[t] = "none"
  <2>1. call[current] = "none"
    BY <1>2 DEF MInv, CallPlaces, KernelTypeOK
  <2> QED BY <1>3, <2>1, OnlyCall
<1>6. \A t \in Tasks : t \in Procs
  BY ConstantFacts
<1>7. mem_map \in [M!Slots -> BOOLEAN] /\ mem_map' \in [M!Slots -> BOOLEAN]
  BY <1>1 DEF MInv, KernelTypeOK
<1>8. KernelTypeOK' /\ ScanExact' /\ FullAfterFailure' /\ ClonesHaveStacks'
  <2>1. KernelTypeOK'
    BY <1>1, <1>7 DEF MInv, KernelTypeOK
  <2> QED BY <1>1, <1>3, <1>5, <2>1 DEF MInv, ScanExact, FullAfterFailure, ClonesHaveStacks
<1>9. CallPlaces'
  BY <1>1, <1>4, <1>5 DEF MInv, CallPlaces
<1>10. TaskKinds'
  <2>1. \A t \in Tasks : frame'[t][1] # "none" =>
          fn'[t] = IF t = 0 THEN "kernel_thread" ELSE IF t = 1 THEN "kernel_process" ELSE "user"
    BY <1>1, <1>2, <1>4, <1>6 DEF MInv, TaskKinds
  <2>2. stack'[0] = M!Null <=> frame'[0][1] \in {"none", "born", "kfn"}
    BY <1>1, <1>2, <1>3, <1>4 DEF MInv, TaskKinds
  <2>3. \A t \in Procs :
          /\ frame'[t][1] \in ForkLocs => t \in {0, Boot}
          /\ frame'[t][1] \in {"exit_free", "exit_sched"} =>
               t = 0 /\ state'[t] = "ZOMBIE" /\ upc' = "end"
    BY <1>1, <1>3, <1>4 DEF MInv, TaskKinds, ForkLocs
  <2> QED BY <2>1, <2>2, <2>3 DEF TaskKinds
<1>11. CloneHasStack' /\ TasksHavePages'
  BY <1>1, <1>2, <1>3, <1>4, <1>6 DEF MInv, CloneHasStack, TasksHavePages, ForkLocs
<1>12. MInv'
  BY <1>8, <1>9, <1>10, <1>11 DEF MInv
<1>13. fn[0] = "kernel_thread"
  BY <1>2, <1>3, ConstantFacts DEF MInv, TaskKinds
<1>14. place[current] = "exit"
  BY <1>2, <1>3, <1>5, <1>13, ConstantFacts DEF place
<1>15. place' = [place EXCEPT ![current] = "zombie"]
  <2>1. place'[current] = "zombie"
    BY <1>1, <1>2, <1>3, <1>4, <1>5, <1>13, ConstantFacts DEF place
  <2>2. \A t \in Procs \ {current} : place'[t] = place[t]
    BY <1>1, <1>4, OtherPlacesSame
  <2> QED BY <1>2, <2>1, <2>2, PlaceStep
<1>16. forked' = forked
  BY <1>1, <1>2, <1>4, ForkedSame
<1>17. IF stack[current] # M!Null THEN M!free_page(stack[current]) ELSE mem_map' = mem_map
  BY <1>1, <1>7 DEF M!free_page
<1>18. M!ExitFree
  BY <1>1, <1>14, <1>15, <1>16, <1>17 DEF M!ExitFree, M!Goto, M!callVars, M!useVars
<1> QED BY <1>12, <1>18 DEF Implements, M!Next

----------------------------------------------------------------------------
(* Every step of Kernel keeps its part of the invariant and is one of Mm.  *)
LEMMA KernelStepMm == IInv /\ MInv /\ [KernelNext]_kernelVars => Implements
<1> SUFFICES ASSUME IInv, MInv, [KernelNext]_kernelVars PROVE Implements
  OBVIOUS
<1>1. CASE MemoryStep
  BY <1>1, KernelMainForksMm, CloneForksMm, MallocCalledMm, MovesToUserModeMm, ProbeTakenMm,
     ProbeFreeMm, GetsTaskStructMm, ForkReturnsMm, ForkRefusedMm, GetsUserStackMm,
     GetsMemoryMm, MallocRefusedMm, SysWriteMm, SysExitMm, FreesStackMm
  DEF MemoryStep
<1>2. CASE (SchedulerStep \/ Irq) /\ UNCHANGED <<memVars, progVars>>
  BY <1>2, SchedulerKeeps, SchedulerIsMm DEF Implements
<1>3. CASE UNCHANGED kernelVars
  <2>1. UNCHANGED <<vars, mem_map, call, caller, i, arg, page, stack, heap, upc, pstack>>
    BY <1>3 DEF kernelVars, memVars, callVars, useVars, progVars
  <2>2. MInv'
    BY <2>1 DEF vars, MInv, KernelTypeOK, CallPlaces, TaskKinds, CloneHasStack, ScanExact,
                FullAfterFailure, ClonesHaveStacks, TasksHavePages
  <2>3. UNCHANGED M!vars
    BY <2>1 DEF vars, M!vars, place, forked, Publishing
  <2> QED BY <2>2, <2>3 DEF Implements
<1> QED BY <1>1, <1>2, <1>3 DEF KernelNext, CodeStep, Tick

(* kernel_main starts with the whole memory free.                          *)
LEMMA KernelInitInv == KernelInit => MInv /\ M!Init /\ PointersToTasks
<1> SUFFICES ASSUME KernelInit PROVE MInv /\ M!Init /\ PointersToTasks
  OBVIOUS
<1>1. /\ \A t \in Procs : /\ frame[t][1] = (IF t = Boot THEN "kmain" ELSE "none")
                          /\ fn[t] = "none" /\ state[t] = "RUNNING"
                          /\ next[t] = NoTask /\ pPrev[t] = NoTask /\ newTask[t] = NoTask
                          /\ \A d \in Levels : last[t][d] = NoTask
      /\ current = Boot /\ nr_tasks = 0
  BY ConstantFacts DEF KernelInit, Init
<1>2. 0 \in Procs /\ 0 # Boot /\ (\A t \in Tasks : t \in Procs /\ t # Boot) /\ NoTask \notin Tasks
  BY ConstantFacts
<1>3. KernelTypeOK
  BY MemoryFacts DEF KernelInit, KernelTypeOK, SyscallAt
<1>4. CallPlaces /\ TaskKinds /\ CloneHasStack
  BY <1>1, <1>2 DEF KernelInit, CallPlaces, TaskKinds, CloneHasStack, ForkLocs
<1>5. ScanExact /\ FullAfterFailure /\ ClonesHaveStacks /\ TasksHavePages
  BY <1>1, <1>2, MemoryFacts
  DEF KernelInit, ScanExact, FullAfterFailure, ClonesHaveStacks, TasksHavePages
<1>6. forked = 0
  BY <1>1 DEF forked, Publishing
<1>7. place = [t \in Procs |-> IF t = Boot THEN "kernel_main" ELSE "none"]
  BY <1>1 DEF KernelInit, place
<1>8. M!Init
  BY <1>1, <1>6, <1>7, MemoryFacts DEF KernelInit, M!Init
<1>9. Referenced \cap Tasks = {}
  <2>1. 0 .. nr_tasks - 1 = {}
    BY <1>1
  <2>2. Boot \notin Tasks
    BY <1>2
  <2> QED BY <1>1, <1>2, <2>1, <2>2 DEF Referenced
<1> QED BY <1>3, <1>4, <1>5, <1>8, <1>9 DEF MInv, PointersToTasks

----------------------------------------------------------------------------
(* Whoever has been forked stays forked.                                   *)
LEMMA BornStays ==
  ASSUME IInv, MInv, [KernelNext]_kernelVars, NEW t \in Tasks, frame[t][1] # "none"
  PROVE  frame'[t][1] # "none"
<1>1. t \in Procs /\ IInv' /\ forked' >= forked /\ t < forked
  <2>1. t \in Procs
    BY ConstantFacts
  <2>2. IInv'
    <3>1. [Next]_vars
      BY KernelStepIsSchedStep DEF kernelVars
    <3> QED BY <3>1, NextInv
  <2>3. t < forked
    <3>1. nr_tasks \in Nat /\ t \in Int
      BY ConstantFacts DEF IInv, TypeOK
    <3> QED BY <3>1 DEF IInv, PagesTaken, forked
  <2>4. forked' >= forked
    <3>1. [M!Next]_(M!vars)
      BY KernelStepMm DEF Implements
    <3>2. forked \in Int
      BY ForkedFacts
    <3> QED
      BY <3>1, <3>2
      DEF M!Next, M!vars, M!KernelMain, M!MoveToUserMode, M!SysMalloc, M!SysClone, M!SysExit,
          M!ExitFree, M!ProbeTaken, M!ProbeFree, M!GetsTaskStruct, M!GetsUserStack,
          M!GetsMemory, M!ForkRefused, M!MallocRefused, M!Switch, M!BootSwitch
  <2> QED BY <2>1, <2>2, <2>3, <2>4
<1>2. nr_tasks' \in Nat /\ t \in Int
  BY <1>1, ConstantFacts DEF IInv, TypeOK
<1>3. frame'[t][1] = "none" => t >= forked'
  <2>1. frame'[t][1] = "none" <=> IF Publishing' THEN t > nr_tasks' ELSE t >= nr_tasks'
    <3>1. PagesTaken'
      BY <1>1 DEF IInv
    <3> QED BY <3>1 DEF PagesTaken
  <2>2. forked' = IF Publishing' THEN nr_tasks' + 1 ELSE nr_tasks'
    BY DEF forked
  <2>3. CASE Publishing'
    <3>1. forked' = nr_tasks' + 1
      BY <2>2, <2>3
    <3>2. frame'[t][1] = "none" => t > nr_tasks'
      BY <2>1, <2>3
    <3>3. \A m, n \in Int : m > n => m >= n + 1
      OBVIOUS
    <3>4. nr_tasks' \in Int
      BY <1>2
    <3>5. t > nr_tasks' => t >= nr_tasks' + 1
      BY <1>2, <3>3, <3>4
    <3> QED BY <3>1, <3>2, <3>5
  <2>4. CASE ~Publishing'
    BY <1>2, <2>1, <2>2, <2>4
  <2> QED BY <2>3, <2>4
<1>4. forked \in Int /\ forked' \in Int
  <2>1. forked' = IF Publishing' THEN nr_tasks' + 1 ELSE nr_tasks'
    BY DEF forked
  <2> QED BY <1>2, <2>1, ForkedFacts
<1> QED BY <1>1, <1>2, <1>3, <1>4

(* A step of the scheduler copies pointers, and the only new one is to the *)
(* task_struct do_fork has just got.                                       *)
Allowed == Referenced \cup {NoTask, Boot} \cup {t \in Tasks : frame'[t][1] = "born"}

Copied ==
  /\ current' \in Allowed
  /\ \A k \in 0 .. nr_tasks' - 1 : task'[k] \in Allowed
  /\ \A t \in Procs : next'[t] \in Allowed /\ pPrev'[t] \in Allowed /\ newTask'[t] \in Allowed
  /\ \A t \in Procs, d \in Levels : last'[t][d] \in Allowed

(* A step of the scheduler copies pointers; do_fork adds its own.          *)
LEMMA PointersCopied ==
  ASSUME IInv, [Next]_vars
  PROVE  Copied
<1> USE DEF tableVars, ctxVars, forkVars
<1>1. /\ current \in Allowed /\ NoTask \in Allowed /\ Boot \in Allowed
      /\ \A k \in 0 .. nr_tasks - 1 : task[k] \in Allowed
      /\ \A t \in Procs : next[t] \in Allowed /\ pPrev[t] \in Allowed /\ newTask[t] \in Allowed
      /\ \A t \in Procs, d \in Levels : last[t][d] \in Allowed
  BY DEF Allowed, Referenced
<1>2. /\ current \in Procs /\ next \in [Procs -> Tasks \cup {NoTask}]
      /\ pPrev \in [Procs -> Tasks \cup {NoTask}] /\ newTask \in [Procs -> Tasks \cup {NoTask}]
      /\ last \in [Procs -> [Levels -> Procs \cup {NoTask}]]
      /\ task \in [Tasks -> Tasks \cup {NoTask}] /\ nr_tasks \in 0 .. MaxTasks
  BY DEF IInv, TypeOK
<1>3. ASSUME UNCHANGED <<current, task, nr_tasks, next, newTask>>,
             \A t \in Procs : pPrev'[t] \in Allowed,
             \A t \in Procs, d \in Levels : last'[t][d] \in Allowed
      PROVE  Copied
  BY <1>1, <1>3 DEF Copied
<1>4. CASE El1Irq \/ El0Irq \/ ScheduleReturn \/ PreemptReturn \/ KthreadReturn \/ KernelExit
           \/ RetFromSyscall \/ DoForkFail \/ DoForkEnd \/ ExitFree \/ El0Svc \/ SysOther
           \/ DoForkEnter \/ ExitZombie \/ UNCHANGED vars
  <2>1. UNCHANGED <<current, task, nr_tasks, next, newTask, pPrev, last>>
    BY <1>4 DEF El1Irq, El0Irq, ScheduleReturn, PreemptReturn, KthreadReturn, KernelExit,
                RetFromSyscall, DoForkFail, DoForkEnd, ExitFree, El0Svc, SysOther,
                DoForkEnter, ExitZombie, vars
  <2> QED BY <1>1, <1>3, <2>1
<1>5. CASE El1IrqPreempt \/ WorkPending \/ ExitSchedule
  <2>1. /\ UNCHANGED <<current, task, nr_tasks, next, newTask, last>>
        /\ pPrev' = [pPrev EXCEPT ![current] = current]
    BY <1>5 DEF El1IrqPreempt, WorkPending, ExitSchedule, StartPick
  <2> QED BY <1>1, <1>2, <1>3, <2>1
<1>6. CASE PickSkip
  <2>1. pPrev[current] \in Procs
    BY <1>6, NextInRing, ConstantFacts DEF PickSkip
  <2>2. /\ UNCHANGED <<current, task, nr_tasks, next, newTask, last>>
        /\ pPrev' = [pPrev EXCEPT ![current] = next[pPrev[current]]]
    BY <1>2, <1>6 DEF PickSkip
  <2> QED BY <1>1, <1>2, <1>3, <2>1, <2>2
<1>7. CASE PickSwitch
  <2> DEFINE n == next[pPrev[current]]
  <2>1. n \in Allowed /\ n \in Procs
    <3>1. pPrev[current] \in Procs /\ n \in Tasks
      BY <1>7, NextInRing, ConstantFacts DEF PickSwitch
    <3> QED BY <1>1, <3>1, ConstantFacts
  <2>2. /\ UNCHANGED <<task, nr_tasks, next, newTask>> /\ current' = n
        /\ pPrev' = [pPrev EXCEPT ![current] = NoTask]
        /\ last' = [last EXCEPT ![n][depth[n]] = current]
    BY <1>7 DEF PickSwitch
  <2> HIDE DEF n
  <2>3. \A t \in Procs : pPrev'[t] \in Allowed
    BY <1>1, <1>2, <2>2
  <2>4. \A t \in Procs, d \in Levels : last'[t][d] \in Allowed
    BY <1>1, <1>2, <2>1, <2>2
  <2> QED BY <1>1, <2>1, <2>2, <2>3, <2>4 DEF Copied
<1>8. CASE PickSelf
  <2>1. PICK junk \in {t \in Procs : t = Boot \/ IsTask(t)} \cup {NoTask} :
          last' = [last EXCEPT ![current][depth[current]] = junk]
    BY <1>8 DEF PickSelf
  <2>2. junk \in Allowed
    BY <1>1, <2>1 DEF IsTask
  <2>3. /\ UNCHANGED <<current, task, nr_tasks, next, newTask>>
        /\ pPrev' = [pPrev EXCEPT ![current] = NoTask]
    BY <1>8 DEF PickSelf
  <2>4. \A t \in Procs : pPrev'[t] \in Allowed
    BY <1>1, <1>2, <2>3
  <2>5. \A t \in Procs, d \in Levels : last'[t][d] \in Allowed
    BY <1>1, <1>2, <2>1, <2>2
  <2> QED BY <1>3, <2>3, <2>4, <2>5
<1>9. CASE ScheduleTail \/ RetFromFork
  <2>1. /\ UNCHANGED <<current, task, nr_tasks, next, newTask, pPrev>>
        /\ last' = [last EXCEPT ![current][depth[current]] = NoTask]
    BY <1>9 DEF ScheduleTail, RetFromFork, schedule_tail
  <2>2. \A t \in Procs, d \in Levels : last'[t][d] \in Allowed
    BY <1>1, <1>2, <2>1
  <2> QED BY <1>1, <1>3, <2>1, <2>2
<1>10. CASE BootSwitch
  <2>1. /\ UNCHANGED <<task, nr_tasks, next, newTask, pPrev>> /\ current' = task[0]
        /\ last' = [last EXCEPT ![task[0]][depth[task[0]]] = current] /\ nr_tasks = 2
    BY <1>10 DEF BootSwitch
  <2>2. task[0] \in Allowed
    BY <1>1, <2>1
  <2>3. \A t \in Procs, d \in Levels : last'[t][d] \in Allowed
    BY <1>1, <1>2, <2>1
  <2> QED BY <1>1, <2>1, <2>2, <2>3 DEF Copied
<1>11. CASE DoForkAlloc
  <2>1. /\ UNCHANGED <<current, task, nr_tasks, next, pPrev, last>>
    BY <1>11 DEF DoForkAlloc
  <2>2. PICK p \in Fresh : (\A q \in Fresh : p <= q) /\ newTask' = [newTask EXCEPT ![current] = p]
                           /\ frame' = [frame EXCEPT ![current][depth[current]] = "fork_publish",
                                                     ![p][1] = "born"]
    BY <1>11 DEF DoForkAlloc
  <2>3. p \in Tasks /\ p \in Procs /\ frame \in [Procs -> [Levels -> Loc]] /\ 1 \in Levels
    BY <2>2, ConstantFacts DEF Fresh, IInv, TypeOK
  <2>4. frame'[p][1] = "born"
    BY <2>2, <2>3
  <2>5. p \in Allowed
    BY <2>3, <2>4 DEF Allowed
  <2>6. \A t \in Procs : newTask'[t] \in Allowed
    BY <1>1, <1>2, <2>2, <2>5
  <2> QED BY <1>1, <2>1, <2>6 DEF Copied
<1>12. CASE DoForkPublish
  <2>1. /\ UNCHANGED <<current, next, pPrev, last, newTask>> /\ nr_tasks' = nr_tasks + 1
        /\ task' = [task EXCEPT ![nr_tasks] = newTask[current]]
    BY <1>12 DEF DoForkPublish
  <2>2. nr_tasks \in Tasks
    <3>1. nr_tasks < MaxTasks
      BY <1>12, FirstActivation DEF DoForkPublish, At, IInv, PagesTaken, SchedLocs
    <3> QED BY <1>2, <3>1, ConstantFacts
  <2>3. \A k \in 0 .. nr_tasks : task'[k] \in Allowed
    <3> SUFFICES ASSUME NEW k \in 0 .. nr_tasks PROVE task'[k] \in Allowed
      OBVIOUS
    <3>1. k \in Tasks /\ (k = nr_tasks \/ k \in 0 .. nr_tasks - 1)
      BY <1>2, <2>2, ConstantFacts
    <3> QED BY <1>1, <1>2, <2>1, <2>2, <3>1
  <2>4. nr_tasks' - 1 = nr_tasks
    BY <1>2, <2>1
  <2> QED BY <1>1, <2>1, <2>3, <2>4 DEF Copied
<1>13. CASE DoForkLink
  <2>1. /\ UNCHANGED <<current, task, nr_tasks, pPrev, last>> /\ next' = LinkNext
        /\ newTask' = [newTask EXCEPT ![current] = NoTask]
    BY <1>13 DEF DoForkLink
  <2>2. nr_tasks > 0
    BY <1>13, FirstActivation DEF DoForkLink, At, IInv, PagesTaken, SchedLocs
  <2>3. task[nr_tasks - 1] \in Allowed /\ task[0] \in Allowed
    BY <1>1, <1>2, <2>2, ConstantFacts
  <2>4. \A t \in Procs : next'[t] \in Allowed
    <3> SUFFICES ASSUME NEW t \in Procs PROVE next'[t] \in Allowed
      OBVIOUS
    <3>1. next'[t] = IF nr_tasks >= 2 /\ t = task[nr_tasks - 2] THEN task[nr_tasks - 1]
                     ELSE IF t = task[nr_tasks - 1] THEN task[0] ELSE next[t]
      BY <2>1 DEF LinkNext
    <3> QED BY <1>1, <2>3, <3>1
  <2>5. \A t \in Procs : newTask'[t] \in Allowed
    BY <1>1, <1>2, <2>1
  <2> QED BY <1>1, <2>1, <2>4, <2>5 DEF Copied
<1> QED
  BY <1>4, <1>5, <1>6, <1>7, <1>8, <1>9, <1>10, <1>11, <1>12, <1>13
  DEF Next, Irq, KernelStep, ProgramStep

(* So whoever a pointer is to has been forked.                             *)
LEMMA PointersStep ==
  ASSUME IInv, MInv, PointersToTasks, [KernelNext]_kernelVars
  PROVE  PointersToTasks'
<1>1. [Next]_vars
  BY KernelStepIsSchedStep DEF kernelVars
<1>2. Copied
  BY <1>1, PointersCopied
<1>3. Referenced' \subseteq Allowed
  BY <1>2 DEF Copied, Referenced
<1> SUFFICES ASSUME NEW t \in Referenced' \cap Tasks PROVE frame'[t][1] # "none"
  BY DEF PointersToTasks
<1>4. t \in Tasks /\ t # NoTask /\ t # Boot /\ t \in Allowed
  BY <1>3, ConstantFacts
<1>5. CASE t \in Referenced
  BY <1>4, <1>5, BornStays DEF PointersToTasks
<1>6. CASE frame'[t][1] = "born"
  BY <1>6
<1> QED BY <1>4, <1>5, <1>6 DEF Allowed

----------------------------------------------------------------------------
(* The inductive invariant holds in every state of the kernel.             *)
THEOREM KernelInvariance == KernelSpec => []KInv
<1>1. KernelInit => KInv
  BY InitInv, KernelInitInv DEF KInv, KernelInit
<1>2. KInv /\ [KernelNext]_kernelVars => KInv'
  <2> SUFFICES ASSUME KInv, [KernelNext]_kernelVars PROVE KInv'
    OBVIOUS
  <2>1. [Next]_vars
    BY KernelStepIsSchedStep DEF kernelVars
  <2>2. IInv'
    BY <2>1, NextInv DEF KInv
  <2>3. MInv'
    BY KernelStepMm DEF KInv, Implements
  <2>4. PointersToTasks'
    BY PointersStep DEF KInv
  <2> QED BY <2>2, <2>3, <2>4 DEF KInv
<1> QED BY <1>1, <1>2, PTL DEF KernelSpec

(* The memory of the kernel is Mm's, run by Sched's scheduler: what is     *)
(* proved of Mm under its assumptions on preemption holds of it.           *)
THEOREM KernelImplementsMm == KernelSpec => MmSpec
<1>1. KernelInit => M!Init
  BY KernelInitInv
<1>2. KInv /\ [KernelNext]_kernelVars => [M!Next]_(M!vars)
  BY KernelStepMm DEF KInv, Implements
<1> QED BY <1>1, <1>2, KernelInvariance, PTL DEF KernelSpec, MmSpec, M!Spec

(* No clone gets the -1 of a sys_malloc that found no page for its stack,  *)
(* although user_process does not look at it.                              *)
THEOREM NoCloneWithoutStack == KernelSpec => []ClonesHaveStacks
<1>1. KInv => ClonesHaveStacks
  BY DEF KInv, MInv
<1> QED BY <1>1, KernelInvariance, PTL

----------------------------------------------------------------------------
(* What MmProofs says of Mm, of the memory of the kernel.                  *)
MP == INSTANCE MmProofs WITH CloneCalls <- {}, nr_tasks <- forked, at <- place

(* The two instances of Mm, the one in Kernel and the one under MmProofs,  *)
(* are the same module with the same substitution.                         *)
LEMMA SameMemory ==
  /\ M!Init => MP!Init
  /\ [M!Next]_(M!vars) => [MP!Next]_(MP!vars)
<1>1. M!Init => MP!Init
  BY DEF M!Init, MP!Init, M!Boot, MP!Boot, M!Procs, MP!Procs, M!Tasks, MP!Tasks,
      M!Slots, MP!Slots, M!Null, MP!Null
<1>2. M!KernelMain => MP!KernelMain
  BY DEF M!KernelMain, MP!KernelMain, M!Enter, MP!Enter, M!Goto, MP!Goto, M!Null,
      MP!Null, M!useVars, MP!useVars
<1>3. M!MoveToUserMode => MP!MoveToUserMode
  BY DEF M!MoveToUserMode, MP!MoveToUserMode, M!Enter, MP!Enter, M!Goto, MP!Goto,
      M!Null, MP!Null, M!useVars, MP!useVars
<1>4. M!SysMalloc => MP!SysMalloc
  BY DEF M!SysMalloc, MP!SysMalloc, M!Enter, MP!Enter, M!Goto, MP!Goto, M!Calls,
      MP!Calls, M!Null, MP!Null, M!useVars, MP!useVars
<1>5. M!SysClone => MP!SysClone
  BY DEF M!SysClone, MP!SysClone, M!Enter, MP!Enter, M!Goto, MP!Goto, M!Calls,
      MP!Calls, M!useVars, MP!useVars
<1>6. M!SysExit => MP!SysExit
  BY DEF M!SysExit, MP!SysExit, M!Goto, MP!Goto, M!Calls, MP!Calls, M!callVars,
      MP!callVars, M!useVars, MP!useVars
<1>7. M!ExitFree => MP!ExitFree
  <2>1. M!PageIndex(stack[current]) = MP!PageIndex(stack[current]) /\ M!Slots = MP!Slots
    BY DEF M!PageIndex, MP!PageIndex, M!LowMemory, MP!LowMemory, M!PageSize,
      MP!PageSize, M!Slots, MP!Slots
  <2>2. M!free_page(stack[current]) => MP!free_page(stack[current])
    BY <2>1 DEF M!free_page, MP!free_page
  <2> QED
    BY <2>2 DEF M!ExitFree, MP!ExitFree, M!Goto, MP!Goto, M!Null, MP!Null,
      M!callVars, MP!callVars, M!useVars, MP!useVars
<1>8. M!ProbeTaken => MP!ProbeTaken
  BY DEF M!ProbeTaken, MP!ProbeTaken, M!useVars, MP!useVars
<1>9. M!ProbeFree => MP!ProbeFree
  BY DEF M!ProbeFree, MP!ProbeFree, M!Goto, MP!Goto, M!callVars, MP!callVars,
      M!useVars, MP!useVars
<1>10. M!GetsTaskStruct => MP!GetsTaskStruct
  BY DEF M!GetsTaskStruct, MP!GetsTaskStruct, M!Mark, MP!Mark, M!Found, MP!Found,
      M!PageAddress, MP!PageAddress, M!LowMemory, MP!LowMemory, M!PageSize,
      MP!PageSize, M!Boot, MP!Boot, M!callVars, MP!callVars
<1>11. M!GetsUserStack => MP!GetsUserStack
  BY DEF M!GetsUserStack, MP!GetsUserStack, M!Goto, MP!Goto, M!Mark, MP!Mark,
      M!Found, MP!Found, M!PageAddress, MP!PageAddress, M!LowMemory,
      MP!LowMemory, M!PageSize, MP!PageSize, M!callVars, MP!callVars
<1>12. M!GetsMemory => MP!GetsMemory
  BY DEF M!GetsMemory, MP!GetsMemory, M!Goto, MP!Goto, M!Mark, MP!Mark, M!Found,
      MP!Found, M!PageAddress, MP!PageAddress, M!LowMemory, MP!LowMemory,
      M!PageSize, MP!PageSize, M!callVars, MP!callVars
<1>13. M!ForkRefused => MP!ForkRefused
  BY DEF M!ForkRefused, MP!ForkRefused, M!Goto, MP!Goto, M!Refused, MP!Refused,
      M!Boot, MP!Boot, M!callVars, MP!callVars, M!useVars, MP!useVars
<1>14. M!MallocRefused => MP!MallocRefused
  BY DEF M!MallocRefused, MP!MallocRefused, M!Goto, MP!Goto, M!Refused,
      MP!Refused, M!Boot, MP!Boot, M!Failed, MP!Failed, M!callVars,
      MP!callVars
<1>15. M!Switch => MP!Switch
  BY DEF M!Switch, MP!Switch, M!Atomic, MP!Atomic, M!Boot, MP!Boot, M!callVars,
      MP!callVars, M!useVars, MP!useVars
<1>16. M!BootSwitch => MP!BootSwitch
  BY DEF M!BootSwitch, MP!BootSwitch, M!callVars, MP!callVars, M!useVars,
      MP!useVars
<1>17. UNCHANGED M!vars => UNCHANGED MP!vars
  BY DEF M!vars, MP!vars
<1> QED
  BY <1>1, <1>2, <1>3, <1>4, <1>5, <1>6, <1>7, <1>8, <1>9, <1>10, <1>11, <1>12, <1>13, <1>14, <1>15, <1>16, <1>17 DEF M!Next, MP!Next

(* So no page of the kernel is in two uses, and mem_map is exact.          *)
LEMMA MemoryPages == KernelSpec => []MP!PagesInv
<1>1. MP!OneAllocator
  BY DEF MP!OneAllocator
<1>2. KernelInit => MP!PagesInv
  BY KernelInitInv, SameMemory, MP!InitInv, SchedAssumption, KernelAssumption
<1>3. KInv /\ [KernelNext]_kernelVars /\ MP!PagesInv => MP!PagesInv'
  BY <1>1, KernelStepMm, SameMemory, MP!NextInv, SchedAssumption, KernelAssumption
  DEF KInv, Implements
<1> QED
  BY <1>2, <1>3, KernelInvariance, PTL DEF KernelSpec

(* Whatever task_struct the scheduler may look at, the page it is in is    *)
(* taken, and taken for it alone: that exit_process frees a page while the *)
(* walk, the ring and the switches refer to tasks harms none of them.      *)
THEOREM TaskStructsKept == KernelSpec => []ReferencedTasksKept
<1>1. KInv /\ MP!PagesInv => ReferencedTasksKept
  <2> SUFFICES ASSUME KInv, MP!PagesInv, NEW t \in Referenced \cap Tasks
               PROVE  /\ page[t] \in M!Pages /\ mem_map[M!PageIndex(page[t])]
                      /\ \A u \in Procs : page[u] = page[t] => u = t
    BY DEF ReferencedTasksKept
  <2>1. page[t] \in M!Pages
    BY DEF KInv, MInv, PointersToTasks, TasksHavePages
  <2>2. /\ M!Pages = MP!Pages
        /\ M!PageIndex(page[t]) = MP!PageIndex(page[t])
    BY DEF M!Pages, MP!Pages, M!Slots, MP!Slots, M!PageAddress, MP!PageAddress,
           M!PageIndex, MP!PageIndex, M!LowMemory, MP!LowMemory, M!PageSize, MP!PageSize
  <2>3. /\ MP!PageIndex(page[t]) \in MP!Slots
        /\ MP!PageAddress(MP!PageIndex(page[t])) = page[t]
    BY <2>1, <2>2, MP!AddressFacts, SchedAssumption, KernelAssumption
  <2>4. t \in MP!Procs /\ Procs = MP!Procs
    BY DEF Procs, MP!Procs, MP!Tasks, Tasks, Boot, MP!Boot
  <2>5. mem_map[MP!PageIndex(page[t])]
    BY <2>3, <2>4 DEF MP!PagesInv, MP!MapIsUse, MP!InUse, MP!IsTaskStruct
  <2>6. \A u \in Procs : page[u] = page[t] => u = t
    BY <2>1, <2>2, <2>4 DEF MP!PagesInv, MP!Exclusive, MP!IsTaskStruct
  <2> QED BY <2>1, <2>2, <2>5, <2>6
<1> QED BY <1>1, MemoryPages, KernelInvariance, PTL
=============================================================================
