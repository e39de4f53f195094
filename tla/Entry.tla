------------------------------- MODULE Entry -------------------------------
(***************************************************************************)
(* The exception paths of src/src/entry.S and the registers they save and  *)
(* restore: what the CPU does at an exception and an eret, the pt_regs on  *)
(* the kernel stack of each task, and the changes do_fork, sys_write and   *)
(* move_to_user_mode make to them.                                         *)
(*                                                                         *)
(* Registers are x0, x8 and xr, which stands for all the others and, in    *)
(* EL0, tells whose they are.  Of a kernel stack only the pt_regs on it    *)
(* are left; the first is at the top of the page, where get_task_pt_regs   *)
(* looks.  Which task runs next, and when a slice is over, is left open   *)
(* here: the module Sched decides it.                                      *)
(***************************************************************************)
EXTENDS Integers, SequencesExt

CONSTANTS
  MaxTasks,       \* tasks: kernel_thread, kernel_process, and what is cloned
  SysNos,         \* the numbers programs put into x8 for a system call
  TicksInExit     \* may a timer interrupt hit the middle of kernel_exit 0?

ASSUME EntryAssumption ==
  /\ MaxTasks \in Nat /\ MaxTasks >= 2
  /\ SysNos \subseteq Nat
  /\ TicksInExit \in BOOLEAN

VARIABLES
  cur,            \* the running task
  el,             \* the exception level
  irq_on,         \* PSTATE.I is clear
  pc,             \* where the running task stands
  reg,            \* x0, x8 and the rest
  elr, spsr,      \* elr_el1, spsr_el1
  sp_el0,         \* the user stack pointer: whose stack it points to
  stack,          \* the pt_regs on each task's kernel stack, the newest last
  resume,         \* cpu_context.pc of a task that is switched out
  inside,         \* which caller of schedule a task is in, if any
  gone,           \* the zombies
  want,           \* history: the registers a task must have back in EL0
  from            \* history: how it left EL0

cpuVars  == <<cur, el, irq_on, pc, reg, elr, spsr, sp_el0>>
histVars == <<want, from>>
vars     == <<cpuVars, stack, resume, inside, gone, histVars>>

----------------------------------------------------------------------------
Tasks  == 0 .. MaxTasks - 1
NrSyscalls == 4

Junk   == -1      \* a register the kernel has used for itself
Kernel == 9       \* what kernel_process keeps in its registers
NoTask == -1

UserPcs  == {"u0", "u1"}
Program(t) == 10 + t     \* what a program keeps in the other registers

KernelPcs == {"ret_from_fork", "fn", "el0_svc", "ret_from_syscall", "ret_to_user",
              "finish", "exit0", "eret0", "el1_irq", "el1_exit", "pick", "tail",
              "sched_ret", "fork_copy", "sync_error", "err_hang"}

UserRegs(t, args, numbers) == [x0 : args, x8 : numbers, xr : {Program(t)}]

RegValues == {Junk, Kernel, 0, 1} \cup SysNos \cup {Program(t) : t \in Tasks}
Regs   == [x0 : RegValues, x8 : RegValues, xr : RegValues]
PtRegs == [x0 : RegValues, x8 : RegValues, xr : RegValues,
           sp : Tasks \cup {NoTask}, pc : UserPcs \cup KernelPcs, pstate : {"EL0", "EL1"}]

AllJunk == [x0 |-> Junk, x8 |-> Junk, xr |-> Junk]
Zeroed  == [x0 |-> 0, x8 |-> 0, xr |-> 0, sp |-> NoTask, pc |-> "u0", pstate |-> "EL0"]

Frame(r, s, p, m) ==
  [x0 |-> r.x0, x8 |-> r.x8, xr |-> r.xr, sp |-> s, pc |-> p, pstate |-> m]

RegsOf(f) == [x0 |-> f.x0, x8 |-> f.x8, xr |-> f.xr]
Top == Last(stack[cur])

(* kernel_main has forked kernel_thread and kernel_process and switches to *)
(* the first, with interrupts masked.                                      *)
Init ==
  /\ cur = 0 /\ el = "EL1" /\ irq_on = FALSE /\ pc = "ret_from_fork"
  /\ reg = AllJunk /\ elr = "fn" /\ spsr = "EL1" /\ sp_el0 = NoTask
  /\ stack = [t \in Tasks |-> IF t < 2 THEN <<Zeroed>> ELSE <<>>]
  /\ resume = [t \in Tasks |-> IF t < 2 THEN "ret_from_fork" ELSE "none"]
  /\ inside = [t \in Tasks |-> "none"]
  /\ gone = {}
  /\ want = [t \in Tasks |-> Zeroed]
  /\ from = [t \in Tasks |-> "none"]

----------------------------------------------------------------------------
(* Where the definition of an action is wrong in a definition Broken...    *)
(* before it, that is a mistake the properties below must notice.          *)

(* kernel_entry: r, the stack pointer s, pc and pstate go into a new frame. *)
kernel_entry(r, s, p, m) ==
  /\ stack' = [stack EXCEPT ![cur] = Append(@, Frame(r, s, p, m))]
  /\ elr' = p /\ spsr' = m

(* A program has run, anyhow, and is interrupted or makes a system call.   *)
LeaveEL0(r, p, how) ==
  /\ el = "EL0"
  /\ kernel_entry(r, sp_el0, p, "EL0")
  /\ el' = "EL1"
  /\ want' = [want EXCEPT ![cur] = Frame(r, sp_el0, p, "EL0")]
  /\ from' = [from EXCEPT ![cur] = how]

(* el0_irq: handle_irq runs with interrupts masked.                        *)
El0Irq ==
  \E r \in UserRegs(cur, {0, 1}, {1}), p \in UserPcs :
    /\ LeaveEL0(r, p, "irq")
    /\ irq_on' = FALSE /\ pc' = "ret_to_user" /\ reg' = AllJunk
    /\ UNCHANGED <<cur, sp_el0, resume, inside, gone>>

(* el0_sync and el0_svc, up to the dispatch, with interrupts on again.  The *)
(* registers are the program's, but for x24 to x27, which xr leaves out    *)
(* while they are the dispatch's.                                          *)
El0Svc ==
  \E r \in UserRegs(cur, {1}, SysNos), p \in UserPcs :
    /\ LeaveEL0(r, p, "svc")
    /\ irq_on' = TRUE /\ pc' = "el0_svc" /\ reg' = r
    /\ UNCHANGED <<cur, sp_el0, resume, inside, gone>>

(* el0_sync, when the exception is no system call.                         *)
El0Fault ==
  \E r \in UserRegs(cur, {0, 1}, {1}), p \in UserPcs :
    /\ LeaveEL0(r, p, "fault")
    /\ irq_on' = FALSE /\ pc' = "sync_error" /\ reg' = r
    /\ UNCHANGED <<cur, sp_el0, resume, inside, gone>>

(* el1_irq.                                                                *)
El1Irq ==
  /\ el = "EL1" /\ irq_on
  /\ pc = "eret0" => TicksInExit
  /\ kernel_entry(reg, NoTask, pc, "EL1")
  /\ irq_on' = FALSE /\ pc' = "el1_irq" /\ reg' = AllJunk
  /\ UNCHANGED <<cur, el, sp_el0, resume, inside, gone, histVars>>

(* el1_preempt and preempt_schedule_irq: not while the task is in schedule *)
(* already, or in do_fork, where its preempt_count is not zero.            *)
BrokenMayPreempt == TRUE

MayPreempt == inside[cur] = "none" /\ Top.pc # "fork_copy"

El1Preempt ==
  /\ pc = "el1_irq" /\ MayPreempt
  /\ inside' = [inside EXCEPT ![cur] = "preempt"]
  /\ irq_on' = TRUE /\ pc' = "pick"
  /\ UNCHANGED <<cur, el, reg, elr, spsr, sp_el0, stack, resume, gone, histVars>>

(* kernel_exit 1, with interrupts masked.                                  *)
BrokenRestore == [RegsOf(Top) EXCEPT !.x0 = reg.x0]

Restore == RegsOf(Top)

BrokenPop == UNCHANGED stack

Pop == stack' = [stack EXCEPT ![cur] = Front(@)]

El1Exit ==
  /\ pc \in {"el1_irq", "el1_exit"}
  /\ reg' = Restore /\ Pop
  /\ elr' = Top.pc /\ spsr' = Top.pstate
  /\ pc' = Top.pc /\ irq_on' = TRUE
  /\ UNCHANGED <<cur, el, sp_el0, resume, inside, gone, histVars>>

----------------------------------------------------------------------------
(* __schedule: to any task that can run, or back to the same one.          *)
(* cpu_switch_to leaves PSTATE, elr_el1, spsr_el1 and sp_el0 as they are.  *)
Pick ==
  /\ pc = "pick"
  /\ \E n \in Tasks \ gone :
       /\ resume[n] # "none"
       /\ cur' = n
       /\ pc' = IF n = cur THEN "tail" ELSE resume[n]
       /\ resume' = IF n = cur THEN resume ELSE [resume EXCEPT ![cur] = "tail"]
  /\ reg' = AllJunk
  /\ UNCHANGED <<el, irq_on, elr, spsr, sp_el0, stack, inside, gone, histVars>>

(* schedule_tail, in __schedule.                                           *)
ScheduleTail ==
  /\ pc = "tail"
  /\ irq_on' = TRUE /\ pc' = "sched_ret"
  /\ UNCHANGED <<cur, el, reg, elr, spsr, sp_el0, stack, resume, inside, gone, histVars>>

(* The ends of preempt_schedule_irq and of schedule, which do_notify_resume *)
(* returns to.                                                             *)
SchedRet ==
  /\ pc = "sched_ret"
  /\ inside' = [inside EXCEPT ![cur] = "none"]
  /\ \/ inside[cur] = "preempt" /\ irq_on' = FALSE /\ pc' = "el1_exit"
     \/ inside[cur] = "work" /\ irq_on' = irq_on /\ pc' = "finish"
  /\ UNCHANGED <<cur, el, reg, elr, spsr, sp_el0, stack, resume, gone, histVars>>

(* ret_from_fork: schedule_tail, and x19 tells a kernel thread.            *)
RetFromFork ==
  /\ pc = "ret_from_fork"
  /\ irq_on' = TRUE
  /\ pc' = IF cur < 2 THEN "fn" ELSE "ret_to_user"
  /\ reg' = IF cur < 2 THEN [AllJunk EXCEPT !.xr = Kernel] ELSE AllJunk
  /\ UNCHANGED <<cur, el, elr, spsr, sp_el0, stack, resume, inside, gone, histVars>>

(* kernel_thread: move_to_user_mode, and a return to ret_to_user.          *)
MoveToUserMode ==
  LET f == [Zeroed EXCEPT !.sp = cur] IN
  /\ pc = "fn" /\ cur = 0
  /\ stack' = [stack EXCEPT ![cur][1] = f]
  /\ want' = [want EXCEPT ![cur] = f]
  /\ from' = [from EXCEPT ![cur] = "start"]
  /\ pc' = "ret_to_user" /\ reg' = AllJunk
  /\ UNCHANGED <<cur, el, irq_on, elr, spsr, sp_el0, resume, inside, gone>>

----------------------------------------------------------------------------
(* ret_to_user: with work_pending ...                                      *)
WorkPending ==
  /\ pc = "ret_to_user"
  /\ irq_on' = FALSE
  /\ inside' = [inside EXCEPT ![cur] = "work"]
  /\ pc' = "pick"
  /\ UNCHANGED <<cur, el, reg, elr, spsr, sp_el0, stack, resume, gone, histVars>>

(* ... and without.                                                        *)
NoWork ==
  /\ pc = "ret_to_user"
  /\ irq_on' = FALSE /\ pc' = "finish"
  /\ UNCHANGED <<cur, el, reg, elr, spsr, sp_el0, stack, resume, inside, gone, histVars>>

(* finish_ret_to_user: regs[8] goes into regs[0], in the frame on top.     *)
FinishRetToUser ==
  /\ pc = "finish"
  /\ stack' = [stack EXCEPT ![cur][Len(stack[cur])].x0 = Top.x8]
  /\ pc' = "exit0"
  /\ UNCHANGED <<cur, el, irq_on, reg, elr, spsr, sp_el0, resume, inside, gone, histVars>>

(* kernel_exit 0: spsr_el1, elr_el1 and sp_el0 first ...                   *)
BrokenLoadState == elr' = Top.pc /\ spsr' = Top.pstate /\ UNCHANGED sp_el0

LoadState == elr' = Top.pc /\ spsr' = Top.pstate /\ sp_el0' = Top.sp

KernelExitLoad ==
  /\ pc = "exit0"
  /\ LoadState
  /\ pc' = "eret0"
  /\ UNCHANGED <<cur, el, irq_on, reg, stack, resume, inside, gone, histVars>>

(* ... then the other registers, the stack pointer, and eret.              *)
KernelExitEret ==
  /\ pc = "eret0"
  /\ reg' = RegsOf(Top) /\ Pop
  /\ el' = spsr /\ pc' = elr /\ irq_on' = TRUE
  /\ UNCHANGED <<cur, elr, spsr, sp_el0, resume, inside, gone, histVars>>

----------------------------------------------------------------------------
(* A system call returns with its result in x0.  sys_write is void: it     *)
(* stores the result of printf in pt_regs and leaves anything in x0, which *)
(* ret_from_syscall then stores over it.  That x0 is what want says the    *)
(* program gets: that it is not printf's result shows in no property.      *)
Returns(r) ==
  /\ reg' = [AllJunk EXCEPT !.x0 = r]
  /\ want' = [want EXCEPT ![cur].x0 = r]
  /\ pc' = "ret_from_syscall"

SysWrite ==
  /\ pc = "el0_svc" /\ reg.x8 = 0
  /\ \E printed, r \in {0, 1} :
       /\ stack' = [stack EXCEPT ![cur][1].x0 = printed]
       /\ Returns(r)
  /\ UNCHANGED <<cur, el, irq_on, elr, spsr, sp_el0, resume, inside, gone, from>>

SysMalloc ==
  /\ pc = "el0_svc" /\ reg.x8 = 1
  /\ \E r \in {0, 1} : Returns(r)
  /\ UNCHANGED <<cur, el, irq_on, elr, spsr, sp_el0, stack, resume, inside, gone, from>>

(* sys_clone, with interrupts on.  do_fork clears the child's pt_regs and  *)
(* copies its parent's, of which half is done when the first step ends.    *)
(* Then the child gets its own stack and function, and its argument in x8, *)
(* from where finish_ret_to_user moves it into x0.  Or there is no page.   *)
IsNew(c) == resume[c] = "none" /\ \A t \in Tasks : resume[t] = "none" => c <= t

HalfCopied(f) == [Zeroed EXCEPT !.x0 = f.x0, !.x8 = f.x8, !.xr = f.xr]

SysClone ==
  /\ pc = "el0_svc" /\ reg.x8 = 2
  /\ \E c \in Tasks : /\ IsNew(c)
                      /\ stack' = [stack EXCEPT ![c] = <<HalfCopied(stack[cur][1])>>]
  /\ pc' = "fork_copy" /\ reg' = AllJunk
  /\ UNCHANGED <<cur, el, irq_on, elr, spsr, sp_el0, resume, inside, gone, histVars>>

BrokenChildFrame(f, s, arg) == [f EXCEPT !.x0 = 0, !.x8 = arg, !.pc = "u0"]

ChildFrame(f, s, arg) == [f EXCEPT !.x0 = 0, !.x8 = arg, !.sp = s, !.pc = "u0"]

ForkCopy ==
  /\ pc = "fork_copy"
  /\ \E c \in Tasks, arg \in {0, 1} :
       /\ IsNew(c)
       /\ LET f == stack[cur][1]
              copy == Frame(RegsOf(stack[c][1]), f.sp, f.pc, f.pstate) IN
          stack' = [stack EXCEPT ![c] = <<ChildFrame(copy, c, arg)>>]
       /\ resume' = [resume EXCEPT ![c] = "ret_from_fork"]
       /\ want' = [want EXCEPT
            ![c] = [want[cur] EXCEPT !.x0 = arg, !.x8 = arg, !.sp = c, !.pc = "u0"],
            ![cur].x0 = 0]
       /\ from' = [from EXCEPT ![c] = "start"]
  /\ reg' = [AllJunk EXCEPT !.x0 = 0]
  /\ pc' = "ret_from_syscall"
  /\ UNCHANGED <<cur, el, irq_on, elr, spsr, sp_el0, inside, gone>>

SysCloneFails ==
  /\ pc = "el0_svc" /\ reg.x8 = 2
  /\ Returns(-1)
  /\ UNCHANGED <<cur, el, irq_on, elr, spsr, sp_el0, stack, resume, inside, gone, from>>

(* sys_exit does not return.                                               *)
SysExit ==
  /\ pc = "el0_svc" /\ reg.x8 = 3
  /\ gone' = gone \cup {cur}
  /\ inside' = [inside EXCEPT ![cur] = "exit"]
  /\ pc' = "pick" /\ reg' = AllJunk
  /\ UNCHANGED <<cur, el, irq_on, elr, spsr, sp_el0, stack, resume, histVars>>

(* ni_sys, with interrupts on, and el0_sync's other exceptions, with       *)
(* interrupts masked: a second frame, a message, and err_hang.             *)
handle_invalid_entry ==
  /\ (pc = "el0_svc" /\ reg.x8 >= NrSyscalls) \/ pc = "sync_error"
  /\ stack' = [stack EXCEPT ![cur] = Append(@, Frame(reg, sp_el0, elr, spsr))]
  /\ pc' = "err_hang" /\ reg' = AllJunk
  /\ UNCHANGED <<cur, el, irq_on, elr, spsr, sp_el0, resume, inside, gone, histVars>>

err_hang == pc = "err_hang" /\ UNCHANGED vars

(* ret_from_syscall.                                                       *)
RetFromSyscall ==
  /\ pc = "ret_from_syscall"
  /\ irq_on' = FALSE
  /\ stack' = [stack EXCEPT ![cur][Len(stack[cur])].x0 = reg.x0]
  /\ pc' = "exit0"
  /\ UNCHANGED <<cur, el, reg, elr, spsr, sp_el0, resume, inside, gone, histVars>>

Next ==
  \/ El0Irq \/ El0Svc \/ El0Fault \/ El1Irq \/ El1Preempt \/ El1Exit
  \/ Pick \/ ScheduleTail \/ SchedRet \/ RetFromFork \/ MoveToUserMode
  \/ WorkPending \/ NoWork \/ FinishRetToUser \/ KernelExitLoad \/ KernelExitEret
  \/ SysWrite \/ SysMalloc \/ SysClone \/ ForkCopy \/ SysCloneFails \/ SysExit
  \/ handle_invalid_entry \/ err_hang \/ RetFromSyscall

Spec == Init /\ [][Next]_vars

----------------------------------------------------------------------------
TypeOK ==
  /\ cur \in Tasks /\ el \in {"EL0", "EL1"} /\ irq_on \in BOOLEAN
  /\ pc \in UserPcs \cup KernelPcs
  /\ reg \in Regs
  /\ elr \in UserPcs \cup KernelPcs /\ spsr \in {"EL0", "EL1"}
  /\ sp_el0 \in Tasks \cup {NoTask}
  /\ stack \in [Tasks -> Seq(PtRegs)]
  /\ resume \in [Tasks -> {"none", "ret_from_fork", "tail"}]
  /\ inside \in [Tasks -> {"none", "preempt", "work", "exit"}]
  /\ gone \subseteq Tasks
  /\ want \in [Tasks -> PtRegs]
  /\ from \in [Tasks -> {"none", "start", "svc", "irq", "fault"}]

----------------------------------------------------------------------------
(* Two sets of registers that differ at most in x0.                        *)
SameButX0(f, g) == f.x8 = g.x8 /\ f.xr = g.xr /\ f.sp = g.sp /\ f.pc = g.pc

UserContext == Frame(reg, sp_el0, pc, el)

(* A program gets back the registers, stack and place it left EL0 with,    *)
(* after whatever interrupts, preemptions and switches; after a system     *)
(* call, and at its start, also x0: the result, or the argument it was     *)
(* cloned with.                                                            *)
UserContextKept ==
  el = "EL0" =>
    /\ SameButX0(UserContext, want[cur])
    /\ from[cur] # "irq" => reg.x0 = want[cur].x0

(* Code of the kernel that is interrupted goes on with its registers: the  *)
(* arguments of a system call, its result, kernel_process's variables.     *)
InterruptedCodeResumes ==
  /\ pc = "el0_svc" => reg = RegsOf(want[cur])
  /\ pc = "ret_from_syscall" => reg.x0 = want[cur].x0
  /\ pc = "fn" => reg.xr = Kernel

(* What a program left EL0 with is in the frame at the top of the page.    *)
UserFrameFound(t) ==
  from[t] # "none" /\ (t = cur => el = "EL1") =>
    /\ stack[t] # <<>>
    /\ SameButX0(stack[t][1], want[t]) /\ stack[t][1].pstate = "EL0"

(* get_task_pt_regs finds a program's registers: its kernel stack is empty *)
(* whenever it is in EL0, so its first frame is always the topmost one.    *)
PtRegsIsUserFrame ==
  /\ el = "EL0" => stack[cur] = <<>>
  /\ \A t \in Tasks : UserFrameFound(t)

(* Interrupts do not pile up on a kernel stack: a frame for EL0, one for   *)
(* a preemption, one for an interrupt while it looks for the next task,    *)
(* and one more in err_hang.                                               *)
FramesBounded ==
  \A t \in Tasks :
    Len(stack[t]) <= IF \E f \in ToSet(stack[t]) : f.pc = "err_hang" THEN 4 ELSE 3

(* entry.S:57-59: kernel_exit restores the context saved when the          *)
(* exception was taken.  Nothing but x0 is in question here.               *)
X0Kept == (el = "EL0" /\ from[cur] = "irq") => reg.x0 = want[cur].x0

(* entry.S:61-63: kernel_exit restores elr_el1 and spsr_el1 from pt_regs:  *)
(* they hold what it put there when it comes to its eret.                  *)
ReturnStateIntact ==
  pc = "eret0" => elr = Top.pc /\ spsr = Top.pstate /\ sp_el0 = Top.sp
----------------------------------------------------------------------------
(* The inductive invariant, with no interrupt inside kernel_exit 0.  The   *)
(* frames on a kernel stack, by where its task stands: none in EL0, one in *)
(* the code that an exception from EL0 leads to, two in err_hang; ...      *)
ThreadLocs == {"ret_from_fork", "fn", "el0_svc", "fork_copy", "ret_from_syscall",
               "ret_to_user", "finish", "exit0", "eret0", "sync_error"}
SchedLocs  == {"pick", "tail", "sched_ret"}

Where(t) == IF t = cur THEN pc ELSE resume[t]

(* ... one more if that code is interrupted, and n are left beside those   *)
(* of an interrupt in the scheduler, of which there is one at most.        *)
Interrupted(t, n) ==
  \/ n = 2 /\ stack[t][2].pc \in ThreadLocs \ {"eret0"}
  \/ n = 3 /\ stack[t][3].pc = "err_hang"

Scheduling(t, n) ==
  IF inside[t] = "preempt" THEN Interrupted(t, n) /\ stack[t][n].pc # "fork_copy"
                           ELSE n = 1

FramesAt(t, p, n) ==
  /\ p \in UserPcs => n = 0 /\ inside[t] = "none"
  /\ p = "none" => n \in {0, 1} /\ inside[t] = "none"
  /\ p \in ThreadLocs => n = 1 /\ inside[t] = "none"
  /\ p = "err_hang" => n = 2 /\ inside[t] = "none"
  /\ p = "el1_exit" => Interrupted(t, n) /\ inside[t] = "none"
  /\ p \in SchedLocs => Scheduling(t, n) /\ inside[t] # "none"
  /\ p = "el1_irq" =>
       IF inside[t] = "none" THEN Interrupted(t, n)
       ELSE n > 1 /\ stack[t][n].pc \in SchedLocs /\ Scheduling(t, n - 1)

Frames == \A t \in Tasks : FramesAt(t, Where(t), Len(stack[t]))

(* What the registers r of a task at p hold, and how it has come there, or *)
(* those it is to go on with.                                              *)
Hung(t) ==
  Where(t) = "err_hang" \/ (Len(stack[t]) > 2 /\ stack[t][3].pc = "err_hang")

RightAt(t, p, r) ==
  /\ p = "ret_from_fork" => from[t] = IF t < 2 THEN "none" ELSE "start"
  /\ p = "fn" => t < 2 /\ from[t] = "none" /\ r.xr = Kernel
  /\ p = "el0_svc" => from[t] = "svc" /\ r = RegsOf(want[t])
  /\ p = "fork_copy" => from[t] = "svc"
  /\ p = "ret_from_syscall" => from[t] = "svc" /\ r.x0 = want[t].x0
  /\ p \in {"ret_to_user", "finish"} => from[t] \in {"start", "irq"}
  /\ p \in {"exit0", "eret0"} =>
       from[t] # "none" /\ (from[t] # "irq" => stack[t][1].x0 = want[t].x0)
  /\ p \in {"sync_error", "err_hang"} => from[t] # "none"

RightTask(t) ==
  /\ RightAt(t, Where(t), IF t = cur THEN reg ELSE AllJunk)
  /\ Len(stack[t]) > 1 /\ ~Hung(t) => RightAt(t, stack[t][2].pc, RegsOf(stack[t][2]))
  /\ Hung(t) => from[t] # "none"
  /\ inside[t] = "work" => from[t] \in {"start", "irq"}
  /\ from[t] = "start" => want[t].x0 = want[t].x8
  /\ want[t].pc \in UserPcs

Right == \A t \in Tasks : RightTask(t)

(* From the first half of do_fork's copy to the second, interrupts or no,  *)
(* the new task's frame stays as it is.                                    *)
InFork ==
  \/ pc = "fork_copy"
  \/ Len(stack[cur]) > 1 /\ stack[cur][2].pc = "fork_copy" /\ ~Hung(cur)

CopyUnderWay ==
  InFork => \E c \in Tasks :
              IsNew(c) /\ Len(stack[c]) = 1 /\ stack[c][1].xr = want[cur].xr

Born ==
  /\ resume[cur] # "none" /\ resume[0] # "none" /\ resume[1] # "none"
  /\ \A t \in Tasks : resume[t] = "none" => from[t] = "none"

Masked == pc \in {"el1_irq", "el1_exit"} => ~irq_on

IInv ==
  /\ TypeOK /\ Frames /\ Right /\ CopyUnderWay /\ Born /\ Masked
  /\ el = "EL0" <=> pc \in UserPcs
  /\ PtRegsIsUserFrame /\ UserContextKept /\ ReturnStateIntact
=============================================================================
