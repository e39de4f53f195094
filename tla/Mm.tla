--------------------------------- MODULE Mm ---------------------------------
(***************************************************************************)
(* The page allocator of src/src/mm.c and everything that calls it: do_fork *)
(* for a task_struct, move_to_user_mode and sys_malloc for user stacks,    *)
(* exit_process to give one back.                                          *)
(*                                                                         *)
(* get_free_page takes no lock.  It is modelled one probe of mem_map at a  *)
(* time, with the test of a slot and the mark in it two steps, because a   *)
(* task may lose the CPU between them wherever preempt_count is zero.  The *)
(* module Sched says when that is; here Switch gives the CPU to any task   *)
(* that can have it.                                                       *)
(***************************************************************************)
EXTENDS Integers

CONSTANTS
  MaxTasks,     \* how many tasks are ever forked
  PageNum,      \* PAGE_NUM, how many pages there are between the two limits
  CloneCalls    \* the system calls a cloned process may make, sys_write apart

ASSUME MmAssumption ==
  /\ MaxTasks \in Nat /\ MaxTasks >= 2
  /\ PageNum \in Nat /\ PageNum >= 3
  /\ CloneCalls \subseteq {"sys_malloc", "sys_clone", "sys_exit"}

VARIABLES
  current,      \* the running task
  mem_map,      \* which pages are taken, by page number
  nr_tasks,     \* how many tasks have been forked
  at,           \* what each task is doing
  caller,       \* who called get_free_page
  i,            \* get_free_page's local
  arg,          \* the stack do_fork was called with
  page,         \* the page that is the task_struct and kernel stack of a task
  stack,        \* task_struct.stack
  heap          \* what a program has from sys_malloc and not passed to a clone

vars == <<current, mem_map, nr_tasks, at, caller, i, arg, page, stack, heap>>

callVars == <<caller, i, arg>>
useVars  == <<page, stack, heap>>

----------------------------------------------------------------------------
Boot  == -1
Tasks == 0 .. MaxTasks - 1
Procs == Tasks \cup {Boot}
Slots == 0 .. PageNum - 1

LowMemory == 4194304
PageSize  == 4096

(* The address of a page, and the page an address is in.                   *)
PageAddress(k) == LowMemory + PageSize * k

BrokenPageIndex(p) == (p + PageSize - LowMemory) \div PageSize

PageIndex(p) == (p - LowMemory) \div PageSize

Pages  == {PageAddress(k) : k \in Slots}
Null   == 0      \* what get_free_page returns when there is none
Failed == -1     \* what sys_malloc makes of it

(* Preemption is off in do_fork and until exit_process has freed the stack. *)
Atomic(t) == (at[t] \in {"probe", "mark"} /\ caller[t] = "do_fork") \/ at[t] = "exit"

----------------------------------------------------------------------------
Init ==
  /\ current = Boot
  /\ mem_map = [k \in Slots |-> FALSE]
  /\ nr_tasks = 0
  /\ at = [t \in Procs |-> IF t = Boot THEN "kernel_main" ELSE "none"]
  /\ caller = [t \in Procs |-> "none"]
  /\ i = [t \in Procs |-> 0]
  /\ arg = [t \in Procs |-> Null]
  /\ page = [t \in Procs |-> Null]
  /\ stack = [t \in Procs |-> Null]
  /\ heap = [t \in Procs |-> {}]

Goto(l) == at' = [at EXCEPT ![current] = l]

(* get_free_page is called by c.                                           *)
BrokenEnter(c, s) ==
  /\ Goto("probe")
  /\ caller' = [caller EXCEPT ![current] = c]
  /\ i' = [i EXCEPT ![current] = 1]
  /\ arg' = [arg EXCEPT ![current] = s]

Enter(c, s) ==
  /\ Goto("probe")
  /\ caller' = [caller EXCEPT ![current] = c]
  /\ i' = [i EXCEPT ![current] = 0]
  /\ arg' = [arg EXCEPT ![current] = s]

(* kernel_main forks kernel_thread and kernel_process.                     *)
BrokenKernelMain ==
  /\ at[current] = "kernel_main"
  /\ Enter("do_fork", Null)
  /\ UNCHANGED <<current, mem_map, nr_tasks, useVars>>

KernelMain ==
  /\ at[current] = "kernel_main" /\ nr_tasks < 2
  /\ Enter("do_fork", Null)
  /\ UNCHANGED <<current, mem_map, nr_tasks, useVars>>

(* kernel_thread, the first task, moves to user mode.                      *)
MoveToUserMode ==
  /\ at[current] = "kernel_thread"
  /\ Enter("move_to_user_mode", Null)
  /\ UNCHANGED <<current, mem_map, nr_tasks, useVars>>

(* The programs: user_process, which the first task becomes, may make any  *)
(* of the calls in any order; the ones it clones make those in CloneCalls. *)
Calls(t) == IF t = 0 THEN {"sys_malloc", "sys_clone", "sys_exit"} ELSE CloneCalls

SysMalloc ==
  /\ at[current] = "user" /\ "sys_malloc" \in Calls(current)
  /\ Enter("sys_malloc", Null)
  /\ UNCHANGED <<current, mem_map, nr_tasks, useVars>>

(* A program clones with a stack it has got, unchecked, from sys_malloc.   *)
SysClone ==
  /\ at[current] = "user" /\ "sys_clone" \in Calls(current)
  /\ nr_tasks < MaxTasks
  /\ \E s \in heap[current] : Enter("do_fork", s)
  /\ UNCHANGED <<current, mem_map, nr_tasks, useVars>>

(* exit_process, up to free_page ...                                       *)
SysExit ==
  /\ at[current] = "user" /\ "sys_exit" \in Calls(current)
  /\ Goto("exit")
  /\ UNCHANGED <<current, mem_map, nr_tasks, callVars, useVars>>

(* ... and free_page.  What is no page's address writes outside mem_map.   *)
BrokenFreePage(p) == UNCHANGED mem_map

free_page(p) ==
  mem_map' = [k \in Slots |-> IF k = PageIndex(p) THEN FALSE ELSE mem_map[k]]

ExitFree ==
  /\ at[current] = "exit"
  /\ IF stack[current] # Null THEN free_page(stack[current]) ELSE UNCHANGED mem_map
  /\ Goto("zombie")
  /\ UNCHANGED <<current, nr_tasks, callVars, useVars>>

----------------------------------------------------------------------------
(* get_free_page: a slot that is taken, a slot that is free ...            *)
ProbeTaken ==
  /\ at[current] = "probe" /\ i[current] < PageNum
  /\ mem_map[i[current]]
  /\ i' = [i EXCEPT ![current] = @ + 1]
  /\ UNCHANGED <<current, mem_map, nr_tasks, at, caller, arg, useVars>>

BrokenProbeFree ==
  /\ at[current] = "probe" /\ i[current] < PageNum
  /\ Goto("mark")
  /\ UNCHANGED <<current, mem_map, nr_tasks, callVars, useVars>>

ProbeFree ==
  /\ at[current] = "probe" /\ i[current] < PageNum
  /\ ~mem_map[i[current]]
  /\ Goto("mark")
  /\ UNCHANGED <<current, mem_map, nr_tasks, callVars, useVars>>

(* ... its mark, and what the caller does with the page.                   *)
Mark == mem_map' = [mem_map EXCEPT ![i[current]] = TRUE]

BrokenFound == LowMemory + i[current]

Found == PageAddress(i[current])

GetsTaskStruct ==
  /\ at[current] = "mark" /\ caller[current] = "do_fork"
  /\ Mark
  /\ nr_tasks' = nr_tasks + 1
  /\ page' = [page EXCEPT ![nr_tasks] = Found]
  /\ stack' = [stack EXCEPT ![nr_tasks] = arg[current]]
  /\ heap' = [heap EXCEPT ![current] = @ \ {arg[current]}]
  /\ at' = [at EXCEPT
       ![current]  = IF current = Boot THEN "kernel_main" ELSE "user",
       ![nr_tasks] = IF current # Boot THEN "user"
                     ELSE IF nr_tasks = 0 THEN "kernel_thread" ELSE "kernel_process"]
  /\ UNCHANGED <<current, callVars>>

GetsUserStack ==
  /\ at[current] = "mark" /\ caller[current] = "move_to_user_mode"
  /\ Mark
  /\ stack' = [stack EXCEPT ![current] = Found]
  /\ Goto("user")
  /\ UNCHANGED <<current, nr_tasks, callVars, page, heap>>

GetsMemory ==
  /\ at[current] = "mark" /\ caller[current] = "sys_malloc"
  /\ Mark
  /\ heap' = [heap EXCEPT ![current] = @ \cup {Found}]
  /\ Goto("user")
  /\ UNCHANGED <<current, nr_tasks, callVars, page, stack>>

(* Every slot was taken: do_fork returns -1, and so does sys_malloc.       *)
(* kernel_main and move_to_user_mode are never told so: EarlyCallsSucceed. *)
Refused(c) ==
  /\ at[current] = "probe" /\ i[current] = PageNum
  /\ caller[current] = c /\ current # Boot

ForkRefused ==
  /\ Refused("do_fork")
  /\ Goto("user")
  /\ UNCHANGED <<current, mem_map, nr_tasks, callVars, useVars>>

MallocRefused ==
  /\ Refused("sys_malloc")
  /\ heap' = [heap EXCEPT ![current] = @ \cup {Failed}]
  /\ Goto("user")
  /\ UNCHANGED <<current, mem_map, nr_tasks, callVars, page, stack>>

----------------------------------------------------------------------------
(* The scheduler, seen from here: between any two steps of a task that may *)
(* be preempted, and at its exit, the CPU goes to another live task.       *)
Switch ==
  /\ current # Boot /\ ~Atomic(current)
  /\ \E t \in 0 .. nr_tasks - 1 :
       at[t] # "zombie" /\ t # current /\ current' = t
  /\ UNCHANGED <<mem_map, nr_tasks, at, callVars, useVars>>

BootSwitch ==
  /\ at[current] = "kernel_main" /\ nr_tasks = 2
  /\ current' = 0
  /\ UNCHANGED <<mem_map, nr_tasks, at, callVars, useVars>>

Next ==
  \/ KernelMain \/ MoveToUserMode \/ SysMalloc \/ SysClone \/ SysExit \/ ExitFree
  \/ ProbeTaken \/ ProbeFree
  \/ GetsTaskStruct \/ GetsUserStack \/ GetsMemory \/ ForkRefused \/ MallocRefused
  \/ Switch \/ BootSwitch

Spec == Init /\ [][Next]_vars

----------------------------------------------------------------------------
TypeOK ==
  /\ current \in Procs
  /\ mem_map \in [Slots -> BOOLEAN]
  /\ nr_tasks \in 0 .. MaxTasks
  /\ at \in [Procs -> {"none", "kernel_main", "kernel_thread", "kernel_process", "user",
                       "probe", "mark", "exit", "zombie"}]
  /\ caller \in [Procs -> {"none", "do_fork", "sys_malloc", "move_to_user_mode"}]
  /\ i \in [Procs -> 0 .. PageNum]
  /\ arg \in [Procs -> Pages \cup {Null, Failed}]
  /\ page \in [Procs -> Pages \cup {Null}]
  /\ stack \in [Procs -> Pages \cup {Null, Failed}]
  /\ heap \in [Procs -> SUBSET (Pages \cup {Failed})]

----------------------------------------------------------------------------
(* What a page is given out for: a task_struct with its kernel stack, which *)
(* stays in the ring when the task has exited; a user stack, until the     *)
(* task exits; what a program has got from sys_malloc and not passed on,   *)
(* whether or not it has exited since.                                     *)
IsTaskStruct(p, t) == page[t] = p
IsUserStack(p, t)  == stack[t] = p /\ at[t] # "zombie"
IsMemory(p, t)     == p \in heap[t]

(* No page is in two uses at once, whoever is preempted where.             *)
Exclusive ==
  \A p \in Pages, t, u \in Procs :
    /\ ~(IsTaskStruct(p, t) /\ IsUserStack(p, u))
    /\ ~(IsTaskStruct(p, t) /\ IsMemory(p, u))
    /\ ~(IsUserStack(p, t) /\ IsMemory(p, u))
    /\ t # u => /\ ~(IsTaskStruct(p, t) /\ IsTaskStruct(p, u))
                /\ ~(IsUserStack(p, t) /\ IsUserStack(p, u))
                /\ ~(IsMemory(p, t) /\ IsMemory(p, u))

(* A live program's memory is in use.  A dead one's is lost: exit_process  *)
(* gives back the stack and nothing else, and nobody is left to.           *)
InUse(p) ==
  \E t \in Procs :
    IsTaskStruct(p, t) \/ IsUserStack(p, t) \/ (IsMemory(p, t) /\ at[t] # "zombie")

Lost(p) == \E t \in Procs : IsMemory(p, t) /\ at[t] = "zombie"

(* mem_map says of every page whether it is in use, but for what programs  *)
(* have lost by exiting: no other page is lost, and none is free that      *)
(* somebody has.                                                           *)
MapIsUse == \A k \in Slots : mem_map[k] <=> InUse(PageAddress(k)) \/ Lost(PageAddress(k))

(* The slot get_free_page has found free is still free when it marks it.   *)
CheckedStillFree ==
  \A t \in Procs : at[t] = "mark" => i[t] < PageNum /\ ~mem_map[i[t]]

(* get_free_page reports that there is no page only if there is none: it   *)
(* passes no slot that is free.  In do_fork that is exact; a sys_malloc    *)
(* that is preempted may miss the stack of a process that exits meanwhile, *)
(* and nothing else.                                                       *)
GivenBack(k) == \E z \in Procs : at[z] = "zombie" /\ stack[z] = PageAddress(k)

RefusedOnlyWhenFull ==
  \A t \in Procs : at[t] = "probe" =>
    \A k \in Slots : k < i[t] =>
      mem_map[k] \/ (caller[t] # "do_fork" /\ GivenBack(k))

(* kernel_main and kernel_thread, which do not look at what they are told, *)
(* always get their pages.                                                 *)
EarlyCallsSucceed ==
  \A t \in Procs :
    at[t] = "probe" /\ (t = Boot \/ caller[t] = "move_to_user_mode") => i[t] < PageNum

(* free_page is only called with the address of a page in use by nobody    *)
(* but the process that exits, unless that is a clone made with the -1 of  *)
(* a sys_malloc that failed.                                               *)
FreesItsOwn ==
  \A t \in Procs : at[t] = "exit" /\ stack[t] # Failed =>
    stack[t] \in Pages /\ mem_map[PageIndex(stack[t])]

(* doc/4.1.md:110: a user process uses a stack space independent of the    *)
(* kernel's.  No page is a user stack, or memory to become one, and a      *)
(* task_struct with its kernel stack at the same time.                     *)
StacksApart ==
  \A p \in Pages, t, u \in Procs :
    IsTaskStruct(p, t) => ~IsUserStack(p, u) /\ ~IsMemory(p, u)

----------------------------------------------------------------------------
(* The inductive invariant of a system whose clones do not allocate: until *)
(* kernel_main is done only it does, afterwards only the first task.       *)
BootPhase ==
  IF current = Boot
  THEN /\ at[Boot] \in {"kernel_main", "probe", "mark"}
       /\ at[Boot] # "kernel_main" =>
            caller[Boot] = "do_fork" /\ arg[Boot] = Null /\ nr_tasks < 2
       /\ nr_tasks <= 2
       /\ \A t \in Tasks : at[t] \in {"none", "kernel_thread", "kernel_process"}
  ELSE at[Boot] = "kernel_main" /\ nr_tasks >= 2 /\ current < nr_tasks

Unborn ==
  /\ \A t \in Tasks : at[t] = "none" <=> t >= nr_tasks
  /\ \A t \in Procs : t = Boot \/ at[t] = "none" =>
       page[t] = Null /\ stack[t] = Null /\ heap[t] = {}

Roles ==
  /\ at[0] \notin {"kernel_main", "kernel_process"}
  /\ at[1] \in {"none", "kernel_process"}
  /\ \A t \in Tasks : t > 1 => at[t] \in {"none", "user", "exit", "zombie"}
  /\ at[0] \in {"probe", "mark"} =>
       /\ caller[0] # "none"
       /\ caller[0] = "do_fork" => arg[0] \in heap[0] /\ nr_tasks < MaxTasks

(* Before there is a program, the taken pages are the tasks, in order.     *)
NoProgram ==
  current = Boot \/ at[0] = "kernel_thread"
    \/ (at[0] \in {"probe", "mark"} /\ caller[0] = "move_to_user_mode")

EarlyMap ==
  NoProgram =>
    /\ nr_tasks <= 2
    /\ \A k \in Slots : mem_map[k] <=> k < nr_tasks
    /\ stack[0] = Null /\ heap[0] = {}
    /\ \A t \in {0, Boot} : at[t] \in {"probe", "mark"} => i[t] <= nr_tasks

PagesInv ==
  /\ TypeOK /\ BootPhase /\ Unborn /\ Roles /\ EarlyMap
  /\ CheckedStillFree /\ Exclusive /\ MapIsUse

(* Only the running task is where it cannot be preempted, and a process    *)
(* has a stack until it has exited.                                        *)
AtomicRuns == \A t \in Procs : Atomic(t) => t = current

StackKept ==
  \A t \in Tasks :
    at[t] \in {"user", "exit"}
      \/ (at[t] \in {"probe", "mark"} /\ caller[t] # "move_to_user_mode")
    => stack[t] # Null

IInv == PagesInv /\ AtomicRuns /\ StackKept /\ RefusedOnlyWhenFull
=============================================================================
