------------------------------- MODULE Sched -------------------------------
(***************************************************************************)
(* The scheduler of the kernel: one CPU, the task table and ring of        *)
(* src/src/fork.c, the scheduling code of src/src/sched.c and the control  *)
(* flow of the exception paths of src/src/entry.S that lead into it.       *)
(*                                                                         *)
(* The CPU executes the task `current`.  A step of Next is a stretch of    *)
(* code of that task whose effect on the shared state no interrupt can     *)
(* split, or one timer interrupt.  Each task has a kernel stack of         *)
(* activations: level 1 is the thread itself (its body, a system call, an  *)
(* exception taken from EL0), a further level is an el1_irq that entered   *)
(* preempt_schedule_irq.  frame[t][d] says where activation d of t stands. *)
(***************************************************************************)
EXTENDS Integers

CONSTANTS
  MaxTasks,        \* how many tasks are ever forked (the table has 64 slots)
  TaskSlice,       \* TASK_SLICE, in ticks
  MaxFailedForks   \* bound: how often a task's do_fork may find no page

ASSUME SchedAssumption ==
  /\ MaxTasks \in Nat /\ MaxTasks >= 2
  /\ TaskSlice \in Nat \ {0}
  /\ MaxFailedForks \in Nat

VARIABLES
  current,         \* the task whose page holds sp
  irq_on,          \* PSTATE.I is clear
  task,            \* fork.c: the table of tasks
  nr_tasks,        \* fork.c: how many slots of it are filled
  state,           \* task_struct.state
  counter,         \* task_struct.counter, saturated at TaskSlice
  preempt_count,   \* task_struct.preempt_count
  flag,            \* task_struct.flag, its only bit: _TIF_NEED_RESCHED
  next,            \* task_struct.next
  fn,              \* cpu_context.x19: what ret_from_fork calls
  frame,           \* where each activation on each kernel stack stands
  depth,           \* how many activations each kernel stack holds
  last,            \* x0 on return from cpu_switch_to, per activation
  pPrev,           \* pick_next_task's local of that name
  newTask,         \* do_fork's local p
  failed           \* history: how many of a task's forks found no page

vars == <<current, irq_on, task, nr_tasks, state, counter, preempt_count, flag,
          next, fn, frame, depth, last, pPrev, newTask, failed>>

tableVars == <<task, nr_tasks, next>>
ctxVars   == <<frame, depth, last, pPrev>>
forkVars  == <<newTask, failed, fn>>

----------------------------------------------------------------------------
Boot   == -1               \* kernel_main's own context, below LOW_MEMORY
NoTask == -2               \* a pointer to no task
Tasks  == 0 .. MaxTasks - 1
Procs  == Tasks \cup {Boot}
Levels == 1 .. 3

(* do_fork after its preempt_disable, exit_process, and the part of        *)
(* schedule and preempt_schedule_irq between preempt_disable and           *)
(* preempt_enable.                                                         *)
ForkLocs  == {"fork_alloc", "fork_publish", "fork_link", "fork_end"}
SchedLocs == {"pick", "tail", "enable"}
Critical  == ForkLocs \cup SchedLocs \cup {"exit_free"}

(* Code that runs outside the scheduler: it must be interruptible.         *)
Bodies == ForkLocs \cup {"kmain", "kfn", "user", "sys", "sys_ret", "exit_free", "exit_sched"}

Loc == Critical \cup Bodies \cup {"none", "born", "ret_to_user", "finish", "dead"}

(* Where cpu_switch_to leaves a context from which it may be resumed.      *)
ResumePoints == {"born", "tail"}

Fns == {"none", "kernel_thread", "kernel_process", "user"}

Top(t)   == frame[t][depth[t]]
At(l)    == Top(current) = l
Goto(l)  == [frame EXCEPT ![current][depth[current]] = l]
IsTask(t) == \E i \in 0 .. nr_tasks - 1 : task[i] = t

----------------------------------------------------------------------------
(* do_fork clears these fields of a task_struct before it is in the table. *)
(* Nobody clears Boot's, the page below the first stack, which is not in   *)
(* bss: that it reads as zero is an assumption on the RAM.                 *)
ZeroedRam ==
  /\ counter = [t \in Procs |-> 0]
  /\ preempt_count = [t \in Procs |-> 0]
  /\ flag = [t \in Procs |-> FALSE]

(* kernel_main is entered with an empty table and, once uart_init and      *)
(* timer_init are done, interrupts on.                                     *)
Init ==
  /\ current = Boot
  /\ irq_on = TRUE
  /\ task = [i \in Tasks |-> NoTask]
  /\ nr_tasks = 0
  /\ state = [t \in Procs |-> "RUNNING"]
  /\ ZeroedRam
  /\ next = [t \in Procs |-> NoTask]
  /\ fn = [t \in Procs |-> "none"]
  /\ frame = [t \in Procs |-> [d \in Levels |->
                IF t = Boot /\ d = 1 THEN "kmain" ELSE "none"]]
  /\ depth = [t \in Procs |-> 1]
  /\ last = [t \in Procs |-> [d \in Levels |-> NoTask]]
  /\ pPrev = [t \in Procs |-> NoTask]
  /\ newTask = [t \in Procs |-> NoTask]
  /\ failed = [t \in Procs |-> 0]

----------------------------------------------------------------------------
(* A definition named Broken... is a variant of the one after it, with a   *)
(* plausible mistake in it; nothing in this module uses it.  PROJECT.json  *)
(* says which property must catch which mistake.                           *)

(* preempt_disable and preempt_enable.                                     *)
BrokenPreemptDisable == UNCHANGED preempt_count
BrokenPreemptEnable  == UNCHANGED preempt_count

PreemptDisable == preempt_count' = [preempt_count EXCEPT ![current] = @ + 1]
PreemptEnable  == preempt_count' = [preempt_count EXCEPT ![current] = @ - 1]

(* Entering __schedule: pick_next_task starts its walk at current.         *)
BrokenStartPick == pPrev' = [pPrev EXCEPT ![current] = next[current]]

StartPick == pPrev' = [pPrev EXCEPT ![current] = current]

(* task_tick.  The code only ever compares counter with TASK_SLICE, so the *)
(* model stops counting there.                                             *)
task_tick ==
  LET c == counter[current] + 1 IN
  /\ counter' = [counter EXCEPT ![current] = IF c < TaskSlice THEN c ELSE TaskSlice]
  /\ flag' = [flag EXCEPT ![current] = @ \/ c >= TaskSlice]

(* kernel_main forks twice and leaves in a few milliseconds: its slice of  *)
(* TaskSlice ticks does not run out.                                       *)
BootTickBound == current = Boot => counter[Boot] + 1 < TaskSlice

BrokenMayPreempt(c, needResched) == c <= 1 /\ needResched
BrokenNeverPreempt(c, needResched) == FALSE

MayPreempt(c, needResched) == c = 0 /\ needResched

(* A timer interrupt taken from EL1 that returns to the interrupted code.  *)
El1Irq ==
  /\ irq_on /\ ~At("user") /\ BootTickBound
  /\ task_tick
  /\ ~MayPreempt(preempt_count[current], flag'[current])
  /\ UNCHANGED <<current, irq_on, tableVars, state, preempt_count, ctxVars, forkVars>>

(* One that calls preempt_schedule_irq.                                    *)
El1IrqPreempt ==
  /\ irq_on /\ ~At("user") /\ BootTickBound
  /\ task_tick
  /\ MayPreempt(preempt_count[current], flag'[current])
  /\ PreemptDisable
  /\ StartPick
  /\ depth' = [depth EXCEPT ![current] = @ + 1]
  /\ frame' = [frame EXCEPT ![current][depth[current] + 1] = "pick"]
  /\ UNCHANGED <<current, irq_on, tableVars, state, last, forkVars>>

(* A timer interrupt taken from EL0.                                       *)
El0Irq ==
  /\ irq_on /\ At("user")
  /\ task_tick
  /\ irq_on' = FALSE
  /\ frame' = Goto("ret_to_user")
  /\ UNCHANGED <<current, tableVars, state, preempt_count, depth, last, pPrev, forkVars>>

Irq == El1Irq \/ El1IrqPreempt \/ El0Irq

----------------------------------------------------------------------------
(* pick_next_task, one iteration of its loop, and the rest of __schedule.  *)
BrokenSkip(t) == FALSE

Skip(t) == state[t] = "ZOMBIE"

PickSkip ==
  /\ At("pick")
  /\ Skip(next[pPrev[current]])
  /\ pPrev' = [pPrev EXCEPT ![current] = next[@]]
  /\ UNCHANGED <<current, irq_on, tableVars, state, counter, preempt_count, flag,
                 frame, depth, last, forkVars>>

(* cpu_switch_to: x0, the task switched away from, becomes `last` of the   *)
(* activation that is resumed.                                             *)
PickSwitch ==
  LET n == next[pPrev[current]] IN
  /\ At("pick")
  /\ ~Skip(n)
  /\ n # current
  /\ frame' = Goto("tail")
  /\ last' = [last EXCEPT ![n][depth[n]] = current]
  /\ current' = n
  /\ pPrev' = [pPrev EXCEPT ![current] = NoTask]
  /\ UNCHANGED <<irq_on, tableVars, state, counter, preempt_count, flag, depth, forkVars>>

(* The walk came back to current: `last` is read uninitialized.            *)
PickSelf ==
  /\ At("pick")
  /\ ~Skip(next[pPrev[current]])
  /\ next[pPrev[current]] = current
  /\ frame' = Goto("tail")
  /\ \E junk \in {t \in Procs : t = Boot \/ IsTask(t)} \cup {NoTask} :
       last' = [last EXCEPT ![current][depth[current]] = junk]
  /\ pPrev' = [pPrev EXCEPT ![current] = NoTask]
  /\ UNCHANGED <<current, irq_on, tableVars, state, counter, preempt_count, flag,
                 depth, forkVars>>

(* schedule_tail, called by __schedule and by ret_from_fork.               *)
BrokenTailMasked ==
  LET prev == last[current][depth[current]] IN
  /\ counter' = [t \in Procs |-> IF t = prev THEN 0 ELSE counter[t]]
  /\ flag' = [t \in Procs |-> IF t = prev THEN FALSE ELSE flag[t]]
  /\ UNCHANGED irq_on
  /\ last' = [last EXCEPT ![current][depth[current]] = NoTask]

BrokenTailOfCurrent ==
  LET prev == current IN
  /\ counter' = [t \in Procs |-> IF t = prev THEN 0 ELSE counter[t]]
  /\ flag' = [t \in Procs |-> IF t = prev THEN FALSE ELSE flag[t]]
  /\ irq_on' = TRUE
  /\ last' = [last EXCEPT ![current][depth[current]] = NoTask]

schedule_tail ==
  LET prev == last[current][depth[current]] IN
  /\ counter' = [t \in Procs |-> IF t = prev THEN 0 ELSE counter[t]]
  /\ flag' = [t \in Procs |-> IF t = prev THEN FALSE ELSE flag[t]]
  /\ irq_on' = TRUE
  /\ last' = [last EXCEPT ![current][depth[current]] = NoTask]

ScheduleTail ==
  /\ At("tail")
  /\ schedule_tail
  /\ frame' = Goto("enable")
  /\ UNCHANGED <<current, tableVars, state, preempt_count, depth, pPrev, forkVars>>

(* The end of schedule: it was called by do_notify_resume, which goes on   *)
(* to finish_ret_to_user, or by exit_process, which never comes back.      *)
ScheduleReturn ==
  /\ At("enable") /\ depth[current] = 1
  /\ PreemptEnable
  /\ frame' = Goto(IF state[current] = "ZOMBIE" THEN "sys_ret" ELSE "finish")
  /\ UNCHANGED <<current, irq_on, tableVars, state, counter, flag, depth, last, pPrev,
                 forkVars>>

(* The end of preempt_schedule_irq, el1_preempt and kernel_exit 1: the     *)
(* interrupted code continues, with interrupts on as it had them.          *)
PreemptReturn ==
  /\ At("enable") /\ depth[current] > 1
  /\ PreemptEnable
  /\ irq_on' = TRUE
  /\ frame' = Goto("none")
  /\ depth' = [depth EXCEPT ![current] = @ - 1]
  /\ UNCHANGED <<current, tableVars, state, counter, flag, last, pPrev, forkVars>>

----------------------------------------------------------------------------
(* ret_from_fork: a task's first steps.                                    *)
RetFromFork ==
  /\ At("born")
  /\ schedule_tail
  /\ frame' = Goto(IF fn[current] = "user" THEN "ret_to_user" ELSE "kfn")
  /\ UNCHANGED <<current, tableVars, state, preempt_count, depth, pPrev, forkVars>>

(* kernel_thread returns, having prepared its pt_regs for EL0;             *)
(* kernel_process never does.                                              *)
BrokenKthreadReturn ==
  /\ At("kfn")
  /\ frame' = Goto("ret_to_user")
  /\ UNCHANGED <<current, irq_on, tableVars, state, counter, preempt_count, flag, depth,
                 last, pPrev, forkVars>>

KthreadReturn ==
  /\ At("kfn") /\ fn[current] = "kernel_thread"
  /\ frame' = Goto("ret_to_user")
  /\ UNCHANGED <<current, irq_on, tableVars, state, counter, preempt_count, flag, depth,
                 last, pPrev, forkVars>>

(* ret_to_user: work_pending calls schedule with interrupts off ...        *)
WorkPending ==
  /\ At("ret_to_user") /\ flag[current]
  /\ irq_on' = FALSE
  /\ PreemptDisable
  /\ StartPick
  /\ frame' = Goto("pick")
  /\ UNCHANGED <<current, tableVars, state, counter, flag, depth, last, forkVars>>

(* ... and without work, or after it, kernel_exit 0 returns to EL0.        *)
KernelExit ==
  /\ At("finish") \/ (At("ret_to_user") /\ ~flag[current])
  /\ irq_on' = TRUE
  /\ frame' = Goto("user")
  /\ UNCHANGED <<current, tableVars, state, counter, preempt_count, flag, depth, last,
                 pPrev, forkVars>>

----------------------------------------------------------------------------
(* el0_sync and el0_svc: a system call is entered and interrupts go on.    *)
El0Svc ==
  /\ At("user")
  /\ frame' = Goto("sys")
  /\ UNCHANGED <<current, irq_on, tableVars, state, counter, preempt_count, flag, depth,
                 last, pPrev, forkVars>>

(* sys_write and sys_malloc leave the scheduler's state alone.             *)
SysOther ==
  /\ At("sys")
  /\ frame' = Goto("sys_ret")
  /\ UNCHANGED <<current, irq_on, tableVars, state, counter, preempt_count, flag, depth,
                 last, pPrev, forkVars>>

(* ret_from_syscall: straight back to EL0, whatever flag says.             *)
RetFromSyscall ==
  /\ At("sys_ret")
  /\ irq_on' = TRUE
  /\ frame' = Goto("user")
  /\ UNCHANGED <<current, tableVars, state, counter, preempt_count, flag, depth, last,
                 pPrev, forkVars>>

----------------------------------------------------------------------------
(* do_fork: preempt_disable.  kernel_main forks two kernel threads; a      *)
(* system call clones a user process, as often as the bounds let it.       *)
Fresh == {p \in Tasks : frame[p][1] = "none"}

CallsFork ==
  \/ At("sys") /\ (Fresh # {} \/ failed[current] < MaxFailedForks)
  \/ At("kmain") /\ nr_tasks < 2

BrokenDoForkEnter ==
  /\ CallsFork
  /\ frame' = Goto("fork_alloc")
  /\ UNCHANGED <<current, irq_on, tableVars, state, counter, preempt_count, flag, depth,
                 last, pPrev, forkVars>>

DoForkEnter ==
  /\ CallsFork
  /\ PreemptDisable
  /\ frame' = Goto("fork_alloc")
  /\ UNCHANGED <<current, irq_on, tableVars, state, counter, flag, depth, last, pPrev,
                 forkVars>>

(* get_free_page, which hands out the lowest page first, and the fields of *)
(* the new task_struct.                                                    *)
ForkFn ==
  IF current # Boot THEN "user"
  ELSE IF nr_tasks = 0 THEN "kernel_thread" ELSE "kernel_process"

DoForkAlloc ==
  /\ At("fork_alloc")
  /\ \E p \in Fresh :
       /\ \A q \in Fresh : p <= q
       /\ newTask' = [newTask EXCEPT ![current] = p]
       /\ fn' = [fn EXCEPT ![p] = ForkFn]
       /\ frame' = [frame EXCEPT ![current][depth[current]] = "fork_publish",
                                 ![p][1] = "born"]
  /\ UNCHANGED <<current, irq_on, tableVars, state, counter, preempt_count, flag, depth,
                 last, pPrev, failed>>

(* get_free_page finds none: do_fork returns -1 at once.                   *)
DoForkFail ==
  /\ At("fork_alloc") /\ current # Boot
  /\ failed[current] < MaxFailedForks
  /\ failed' = [failed EXCEPT ![current] = @ + 1]
  /\ frame' = Goto("sys_ret")
  /\ UNCHANGED <<current, irq_on, tableVars, state, counter, preempt_count, flag, depth,
                 last, pPrev, newTask, fn>>

(* task[nr_tasks++] = p.                                                   *)
DoForkPublish ==
  /\ At("fork_publish")
  /\ task' = [task EXCEPT ![nr_tasks] = newTask[current]]
  /\ nr_tasks' = nr_tasks + 1
  /\ frame' = Goto("fork_link")
  /\ UNCHANGED <<current, irq_on, state, counter, preempt_count, flag, next, fn, depth,
                 last, pPrev, newTask, failed>>

(* The new last slot points to the first, its predecessor to it.           *)
BrokenLinkNext ==
  [t \in Procs |->
     IF nr_tasks > 2 /\ t = task[nr_tasks - 2] THEN task[nr_tasks - 1]
     ELSE IF t = task[nr_tasks - 1] THEN task[0]
     ELSE next[t]]

LinkNext ==
  [t \in Procs |->
     IF nr_tasks >= 2 /\ t = task[nr_tasks - 2] THEN task[nr_tasks - 1]
     ELSE IF t = task[nr_tasks - 1] THEN task[0]
     ELSE next[t]]

DoForkLink ==
  /\ At("fork_link")
  /\ next' = LinkNext
  /\ frame' = Goto("fork_end")
  /\ newTask' = [newTask EXCEPT ![current] = NoTask]
  /\ UNCHANGED <<current, irq_on, task, nr_tasks, state, counter, preempt_count, flag, fn,
                 depth, last, pPrev, failed>>

DoForkEnd ==
  /\ At("fork_end")
  /\ PreemptEnable
  /\ frame' = Goto(IF current = Boot THEN "kmain" ELSE "sys_ret")
  /\ UNCHANGED <<current, irq_on, tableVars, state, counter, flag, depth, last, pPrev,
                 forkVars>>

(* switch_to(task[0]), at the end of kernel_main.                          *)
BootSwitch ==
  /\ At("kmain") /\ nr_tasks = 2
  /\ irq_on' = FALSE
  /\ frame' = Goto("dead")
  /\ last' = [last EXCEPT ![task[0]][depth[task[0]]] = current]
  /\ current' = task[0]
  /\ UNCHANGED <<tableVars, state, counter, preempt_count, flag, depth, pPrev, forkVars>>

----------------------------------------------------------------------------
(* exit_process: TASK_ZOMBIE, then the user stack is freed, then schedule. *)
ExitZombie ==
  /\ At("sys")
  /\ PreemptDisable
  /\ state' = [state EXCEPT ![current] = "ZOMBIE"]
  /\ frame' = Goto("exit_free")
  /\ UNCHANGED <<current, irq_on, tableVars, counter, flag, depth, last, pPrev, forkVars>>

ExitFree ==
  /\ At("exit_free")
  /\ PreemptEnable
  /\ frame' = Goto("exit_sched")
  /\ UNCHANGED <<current, irq_on, tableVars, state, counter, flag, depth, last, pPrev,
                 forkVars>>

ExitSchedule ==
  /\ At("exit_sched")
  /\ PreemptDisable
  /\ StartPick
  /\ frame' = Goto("pick")
  /\ UNCHANGED <<current, irq_on, tableVars, state, counter, flag, depth, last, forkVars>>

----------------------------------------------------------------------------
(* What the CPU does of itself, once the running code is in the kernel.    *)
KernelStep ==
  \/ PickSkip \/ PickSwitch \/ PickSelf \/ ScheduleTail \/ ScheduleReturn \/ PreemptReturn
  \/ RetFromFork \/ KthreadReturn \/ WorkPending \/ KernelExit
  \/ RetFromSyscall \/ DoForkAlloc \/ DoForkFail \/ DoForkPublish \/ DoForkLink
  \/ DoForkEnd \/ BootSwitch
  \/ ExitFree \/ ExitSchedule

(* What a program chooses: which system call, and when.                    *)
ProgramStep == El0Svc \/ SysOther \/ DoForkEnter \/ ExitZombie

Next == Irq \/ KernelStep \/ ProgramStep

Spec == Init /\ [][Next]_vars

(* Kernel code runs on, and kernel_main with it; the timer keeps expiring, *)
(* and an interrupt that comes while interrupts are masked stays pending.  *)
(* A program may stay in EL0 or in a system call for as long as it likes.  *)
BootStep == current = Boot /\ DoForkEnter

Fairness == WF_vars(KernelStep) /\ WF_vars(BootStep) /\ SF_vars(Irq)

FairSpec == Spec /\ Fairness

----------------------------------------------------------------------------
TypeOK ==
  /\ current \in Procs
  /\ irq_on \in BOOLEAN
  /\ task \in [Tasks -> Tasks \cup {NoTask}]
  /\ nr_tasks \in 0 .. MaxTasks
  /\ state \in [Procs -> {"RUNNING", "ZOMBIE"}]
  /\ counter \in [Procs -> 0 .. TaskSlice]
  /\ preempt_count \in [Procs -> 0 .. MaxFailedForks + 1]
  /\ flag \in [Procs -> BOOLEAN]
  /\ next \in [Procs -> Tasks \cup {NoTask}]
  /\ fn \in [Procs -> Fns]
  /\ frame \in [Procs -> [Levels -> Loc]]
  /\ depth \in [Procs -> 1 .. 2]
  /\ last \in [Procs -> [Levels -> Procs \cup {NoTask}]]
  /\ pPrev \in [Procs -> Tasks \cup {NoTask}]
  /\ newTask \in [Procs -> Tasks \cup {NoTask}]
  /\ failed \in [Procs -> 0 .. MaxFailedForks]

----------------------------------------------------------------------------
(* Preemption is excluded by preempt_count alone: a task interrupted       *)
(* inside do_fork, inside schedule or before exit_process has freed its    *)
(* stack is never switched out there, however its interrupts nest and      *)
(* whichever of them sets _TIF_NEED_RESCHED.                               *)
NeverPreemptedInside ==
  \A t \in Procs : depth[t] > 1 => frame[t][1] \notin Critical

(* preempt_count[t] is what t has disabled and not enabled again: one for  *)
(* the critical section its thread is in, one for each preempting          *)
(* activation above it, and one for each do_fork that found no page and    *)
(* returned without preempt_enable.                                        *)
PreemptCountBalanced ==
  \A t \in Procs :
    preempt_count[t] = failed[t] + (depth[t] - 1)
                         + (IF frame[t][1] \in Critical THEN 1 ELSE 0)

(* How many slots of task the ring goes through: a task that do_fork has   *)
(* put into the table is not linked until the next step.                   *)
Linked == IF \E t \in Procs : frame[t][1] = "fork_link" THEN nr_tasks - 1 ELSE nr_tasks

(* The ring of next pointers goes through the table in the order of its    *)
(* slots and back to the first, at every moment the scheduler may walk it, *)
(* with do_fork called by any task and interrupted anywhere.               *)
RingMatchesTable ==
  \A i \in 0 .. Linked - 1 :
    next[task[i]] = IF i = Linked - 1 THEN task[0] ELSE task[i + 1]

(* Interrupts are on whenever code outside the scheduler runs.             *)
(* cpu_switch_to does not save PSTATE.I: a task resumes with what the task *)
(* before it had, masked after a ret_to_user, unmasked after a preemption. *)
InterruptsOnInBodies ==
  Top(current) \in Bodies \cup {"enable"} => irq_on

(* pick_next_task's loop ends: however many tasks have exited, the ring    *)
(* holds one that has not.                                                 *)
WalkEnds ==
  At("pick") => \E i \in 0 .. nr_tasks - 1 : state[task[i]] # "ZOMBIE"

(* A task that waits for the CPU starts its next slice with counter 0 and  *)
(* no request to reschedule, unless the task it was switched away for has  *)
(* still to run its schedule_tail (a newborn one can be preempted first).  *)
SliceTidiedOrOwed ==
  \A t \in Procs \ {current} :
    flag[t] \/ counter[t] > 0 =>
      \E u \in Procs, d \in Levels : last[u][d] = t

(* Once exit_process has given up the CPU for a zombie, whose user stack   *)
(* is already free, no switch ever resumes it.                             *)
ZombieNeverRunsAgain ==
  [][\A t \in Tasks : state[t] = "ZOMBIE" /\ current # t => current' # t]_vars

(* The scheduler implements round robin in the order of creation.          *)
RR == INSTANCE RoundRobin
        WITH n <- nr_tasks, dead <- {t \in Tasks : state[t] = "ZOMBIE"}, cur <- current

RoundRobinSpec == RR!Spec

(* pick_next_task overtakes nobody: at every switch each live task that    *)
(* waits comes nearer to the CPU.                                          *)
EachSwitchBringsNearer == RR!ComesNearer

(* Every task that has been forked and has not exited gets the CPU, again  *)
(* and again, whatever the other programs do: loop, fork, exit, stay in    *)
(* system calls.  Only a live task that a failed do_fork has left with     *)
(* preemption disabled (fork.c:14) may keep it.                            *)
KeepsCpu(p) == failed[p] > 0 /\ state[p] = "RUNNING"

LiveTaskRuns ==
  \A t \in Tasks : IsTask(t) /\ state[t] = "RUNNING"
                     ~> current = t \/ \E p \in Tasks : KeepsCpu(p)

(* sched.c:48-55: schedule_tail is there for the next process to tidy up   *)
(* after prev, so it is given a task.  __schedule leaves `last`            *)
(* uninitialized when the task picked is the one that runs.                *)
TailGivenPrev ==
  At("tail") => last[current][depth[current]] \in Procs

(* sched.c:115: "preempt_count =0, enable preempt" at the end of schedule. *)
(* A do_fork that found no page has left the count at one for ever.        *)
ScheduleEnablesPreemption ==
  At("finish") => preempt_count[current] = 0

----------------------------------------------------------------------------
(* The inductive invariant.  First the kernel stacks: a second activation  *)
(* is always in preempt_schedule_irq, above code that may be interrupted;  *)
(* whoever does not run has not started or stands in cpu_switch_to.        *)
StackShape ==
  \A t \in Procs : depth[t] = 2 =>
    /\ frame[t][2] \in SchedLocs
    /\ frame[t][1] \notin {"none", "user", "dead"}
    /\ t # Boot

OthersWait ==
  \A t \in Procs \ {current} : Top(t) \in {"none", "dead"} \cup ResumePoints

(* The pages and the table: tasks are the first pages, in slot order; the  *)
(* page do_fork has taken and not yet published is the next one.           *)
Publishing == \E t \in Procs : frame[t][1] = "fork_publish"

PagesTaken ==
  /\ \A p \in Tasks : frame[p][1] = "none" <=>
                        IF Publishing THEN p > nr_tasks ELSE p >= nr_tasks
  /\ \A t \in Procs : frame[t][1] = "fork_publish" =>
                        newTask[t] = nr_tasks /\ nr_tasks < MaxTasks
  /\ \A t \in Procs : frame[t][1] = "fork_link" => nr_tasks > 0
  /\ \A i \in Tasks : task[i] = IF i < nr_tasks THEN i ELSE NoTask

(* kernel_main: alone until it starts the first task, gone afterwards.     *)
BootPhase ==
  IF current = Boot
  THEN /\ frame[Boot][1] \in {"kmain"} \cup ForkLocs
       /\ nr_tasks <= 2 /\ (frame[Boot][1] \in {"fork_alloc", "fork_publish"} => nr_tasks < 2)
       /\ counter[Boot] < TaskSlice /\ ~flag[Boot]
       /\ \A t \in Tasks : frame[t][1] \in {"none", "born"} /\ depth[t] = 1
  ELSE /\ current < nr_tasks /\ nr_tasks >= 2
       /\ frame[Boot][1] = "dead"
       /\ \A t \in Tasks : frame[t][1] \notin {"kmain", "dead"}

(* The tasks the cyclic walk from a to b has passed, b included.           *)
Passed(a, b) ==
  IF a <= b THEN {k \in Tasks : a < k /\ k <= b}
            ELSE {k \in Tasks : k < nr_tasks /\ (a < k \/ k <= b)}

(* What pick_next_task has walked past is dead ...                         *)
WalkedPastZombies ==
  At("pick") =>
    /\ pPrev[current] \in Tasks /\ pPrev[current] < nr_tasks
    /\ \A k \in Passed(current, pPrev[current]) : state[k] = "ZOMBIE"

(* ... and it will find a task that is not: kernel_process, the second     *)
(* one forked, never leaves the kernel and so never exits.                 *)
KernelProcessLives ==
  /\ frame[1][1] \in {"none", "born", "kfn"}
  /\ frame[1][1] # "none" => fn[1] = "kernel_process"

ZombiesExit ==
  \A t \in Procs : state[t] = "ZOMBIE" =>
    /\ frame[t][1] \in {"exit_free", "exit_sched", "pick", "tail"}
    /\ t = current => Top(t) \in {"exit_free", "exit_sched", "pick"}

(* `last` is set from the switch until its activation calls schedule_tail. *)
LastPending ==
  \A t \in Procs, d \in Levels : last[t][d] # NoTask =>
    /\ d <= depth[t]
    /\ frame[t][d] \in ResumePoints
    /\ t = current \/ d < depth[t]

IInv ==
  /\ TypeOK
  /\ StackShape /\ OthersWait /\ NeverPreemptedInside /\ PreemptCountBalanced
  /\ PagesTaken /\ RingMatchesTable /\ BootPhase
  /\ WalkedPastZombies /\ KernelProcessLives /\ ZombiesExit
  /\ InterruptsOnInBodies
  /\ LastPending /\ SliceTidiedOrOwed
=============================================================================
