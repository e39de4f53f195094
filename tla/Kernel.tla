-------------------------------- MODULE Kernel --------------------------------
(***************************************************************************)
(* The kernel as it runs: the scheduler of Sched with the page allocator   *)
(* under it and the programs of src/src/main.c on top of it.               *)
(*                                                                         *)
(* Sched leaves open when do_fork finds no page, and what a program calls; *)
(* Mm leaves open when the CPU changes hands.  Here each closes the other: *)
(* a step of get_free_page is one of the task the scheduler runs, where it *)
(* stands on its kernel stack, and a page is refused when mem_map has none *)
(* left.  Every action but the four of get_free_page and sys_malloc is one *)
(* of Sched's with what it does to the memory.                             *)
(***************************************************************************)
EXTENDS Sched

CONSTANT PageNum       \* how many pages there are between the two limits

ASSUME KernelAssumption == PageNum \in Nat /\ PageNum >= 3

VARIABLES
  mem_map,      \* mm.c: which pages are taken
  call,         \* per task: where it stands in get_free_page, if it is in it
  caller,       \* who called it
  i,            \* its local
  arg,          \* the stack do_fork was called with
  page,         \* the page that is the task_struct and kernel stack of a task
  stack,        \* task_struct.stack
  heap,         \* what a program has from sys_malloc and not passed to a clone
  upc,          \* user_process: the call it makes next, or is in
  pstack        \* user_process: what sys_malloc returned last

callVars   == <<call, caller, i, arg>>
useVars    == <<page, stack, heap>>
memVars    == <<mem_map, callVars, useVars>>
progVars   == <<upc, pstack>>
kernelVars == <<vars, memVars, progVars>>

----------------------------------------------------------------------------
(* What Mm says of the memory, with Sched's state in the place of its own: *)
(* how many task_structs there are, and what each task is doing.           *)
forked == IF Publishing THEN nr_tasks + 1 ELSE nr_tasks

place ==
  [t \in Procs |->
     IF call[t] # "none" THEN call[t]
     ELSE IF t = Boot THEN "kernel_main"
     ELSE IF frame[t][1] = "none" THEN "none"
     ELSE IF fn[t] = "kernel_process" THEN "kernel_process"
     ELSE IF frame[t][1] = "exit_free" THEN "exit"
     ELSE IF state[t] = "ZOMBIE" THEN "zombie"
     ELSE IF fn[t] = "kernel_thread" /\ stack[t] = 0 THEN "kernel_thread"
     ELSE "user"]

M == INSTANCE Mm WITH CloneCalls <- {}, nr_tasks <- forked, at <- place

----------------------------------------------------------------------------
(* user_process: a greeting, two clones, each with a stack from           *)
(* sys_malloc and a complaint if there is none, and the end.               *)
SyscallAt ==
  [hello |-> "sys_write",
   malloc1 |-> "sys_malloc", clone1 |-> "sys_clone", complain1 |-> "sys_write",
   malloc2 |-> "sys_malloc", clone2 |-> "sys_clone", complain2 |-> "sys_write",
   end |-> "sys_exit"]

After ==
  [hello |-> "malloc1",
   malloc1 |-> "clone1", clone1 |-> "malloc2", complain1 |-> "malloc2",
   malloc2 |-> "clone2", clone2 |-> "end", complain2 |-> "end",
   end |-> "end"]

IfCloneFails == [clone1 |-> "complain1", clone2 |-> "complain2"]

(* user_process1, which the clones execute, writes for ever.               *)
NextCall == IF current = 0 THEN SyscallAt[upc] ELSE "sys_write"

KernelInit ==
  /\ Init
  /\ mem_map = [k \in M!Slots |-> FALSE]
  /\ call = [t \in Procs |-> "none"]
  /\ caller = [t \in Procs |-> "none"]
  /\ i = [t \in Procs |-> 0]
  /\ arg = [t \in Procs |-> M!Null]
  /\ page = [t \in Procs |-> M!Null]
  /\ stack = [t \in Procs |-> M!Null]
  /\ heap = [t \in Procs |-> {}]
  /\ upc = "hello"
  /\ pstack = M!Null

----------------------------------------------------------------------------
(* get_free_page is called, by c, for a task with the stack s.             *)
Enter(c, s) ==
  /\ call[current] = "none"
  /\ call' = [call EXCEPT ![current] = "probe"]
  /\ caller' = [caller EXCEPT ![current] = c]
  /\ i' = [i EXCEPT ![current] = 0]
  /\ arg' = [arg EXCEPT ![current] = s]
  /\ UNCHANGED <<mem_map, useVars, progVars>>

KernelMainForks == DoForkEnter /\ current = Boot /\ Enter("do_fork", M!Null)

(* sys_clone is called with the stack that is there, -1 or not.            *)
CloneForks ==
  /\ DoForkEnter /\ current # Boot
  /\ NextCall = "sys_clone" /\ Fresh # {}
  /\ Enter("do_fork", pstack)

MallocCalled ==
  /\ At("sys") /\ NextCall = "sys_malloc"
  /\ Enter("sys_malloc", M!Null)
  /\ UNCHANGED vars

MovesToUserMode ==
  /\ At("kfn") /\ fn[current] = "kernel_thread"
  /\ Enter("move_to_user_mode", M!Null)
  /\ UNCHANGED vars

(* Its loop, which an interrupt may leave between any two steps.           *)
InGetFreePage(where) ==
  /\ call[current] = where
  /\ At("fork_alloc") \/ At("sys") \/ At("kfn")

ProbeTaken ==
  /\ InGetFreePage("probe") /\ i[current] < PageNum
  /\ mem_map[i[current]]
  /\ i' = [i EXCEPT ![current] = @ + 1]
  /\ UNCHANGED <<vars, mem_map, call, caller, arg, useVars, progVars>>

ProbeFree ==
  /\ InGetFreePage("probe") /\ i[current] < PageNum
  /\ ~mem_map[i[current]]
  /\ call' = [call EXCEPT ![current] = "mark"]
  /\ UNCHANGED <<vars, mem_map, caller, i, arg, useVars, progVars>>

(* The mark, and with it the return to the caller ...  (A definition named *)
(* Broken... is a mistake in the one after it.)                            *)
BrokenFound == M!LowMemory + i[current]

Found == M!PageAddress(i[current])

ReturnsFound ==
  /\ InGetFreePage("mark")
  /\ mem_map' = [mem_map EXCEPT ![i[current]] = TRUE]
  /\ call' = [call EXCEPT ![current] = "none"]
  /\ UNCHANGED <<caller, i, arg>>

(* ... or the end of the loop.                                             *)
BrokenReturnsNull ==
  /\ InGetFreePage("probe") /\ i[current] >= PageNum - 1
  /\ call' = [call EXCEPT ![current] = "none"]
  /\ UNCHANGED <<mem_map, caller, i, arg>>

ReturnsNull ==
  /\ InGetFreePage("probe") /\ i[current] = PageNum
  /\ call' = [call EXCEPT ![current] = "none"]
  /\ UNCHANGED <<mem_map, caller, i, arg>>

----------------------------------------------------------------------------
(* do_fork with a page: the next task's task_struct is in it.              *)
GetsTaskStruct ==
  /\ DoForkAlloc /\ ReturnsFound
  /\ page' = [page EXCEPT ![forked] = Found]
  /\ stack' = [stack EXCEPT ![forked] = arg[current]]
  /\ heap' = [heap EXCEPT ![current] = @ \ {arg[current]}]
  /\ UNCHANGED progVars

(* The clone is there; user_process goes on.                               *)
ForkReturns ==
  /\ DoForkEnd
  /\ upc' = IF current = Boot THEN upc ELSE After[upc]
  /\ UNCHANGED <<memVars, pstack>>

(* do_fork without one: user_process reports that, and goes on.            *)
ForkRefused ==
  /\ DoForkFail /\ ReturnsNull
  /\ upc' = IfCloneFails[upc]
  /\ UNCHANGED <<useVars, pstack>>

GetsUserStack ==
  /\ KthreadReturn /\ ReturnsFound
  /\ stack' = [stack EXCEPT ![current] = Found]
  /\ UNCHANGED <<page, heap, progVars>>

(* sys_malloc hands the address, or -1, to user_process.                   *)
MallocReturns(p) ==
  /\ SysOther
  /\ heap' = [heap EXCEPT ![current] = @ \cup {p}]
  /\ pstack' = p
  /\ upc' = After[upc]
  /\ UNCHANGED <<page, stack>>

GetsMemory    == ReturnsFound /\ MallocReturns(Found)
MallocRefused == ReturnsNull /\ MallocReturns(M!Failed)

SysWrite ==
  /\ SysOther /\ call[current] = "none" /\ NextCall = "sys_write"
  /\ upc' = IF current = 0 THEN After[upc] ELSE upc
  /\ UNCHANGED <<memVars, pstack>>

SysExit ==
  /\ ExitZombie /\ call[current] = "none" /\ NextCall = "sys_exit"
  /\ UNCHANGED <<memVars, progVars>>

(* exit_process gives the user stack back and keeps the task_struct.       *)
BrokenFreesStack ==
  /\ ExitFree
  /\ mem_map' = [k \in M!Slots |->
                   IF k = M!PageIndex(page[current]) THEN FALSE ELSE mem_map[k]]
  /\ UNCHANGED <<callVars, useVars, progVars>>

FreesStack ==
  /\ ExitFree
  /\ mem_map' = [k \in M!Slots |->
                   IF stack[current] # M!Null /\ k = M!PageIndex(stack[current])
                   THEN FALSE ELSE mem_map[k]]
  /\ UNCHANGED <<callVars, useVars, progVars>>

----------------------------------------------------------------------------
(* The scheduler's own steps, which do not touch the memory.               *)
SchedulerStep ==
  \/ PickSkip \/ PickSwitch \/ PickSelf \/ ScheduleTail \/ ScheduleReturn \/ PreemptReturn
  \/ RetFromFork \/ WorkPending \/ KernelExit \/ El0Svc \/ RetFromSyscall
  \/ DoForkPublish \/ DoForkLink \/ BootSwitch \/ ExitSchedule

MemoryStep ==
  \/ KernelMainForks \/ CloneForks \/ MallocCalled \/ MovesToUserMode
  \/ ProbeTaken \/ ProbeFree
  \/ GetsTaskStruct \/ ForkReturns \/ ForkRefused \/ GetsUserStack
  \/ GetsMemory \/ MallocRefused \/ SysWrite \/ SysExit \/ FreesStack

(* What the running task does, and what the timer does to it.              *)
CodeStep == (SchedulerStep /\ UNCHANGED <<memVars, progVars>>) \/ MemoryStep
Tick     == Irq /\ UNCHANGED <<memVars, progVars>>

KernelNext == CodeStep \/ Tick

KernelSpec == KernelInit /\ [][KernelNext]_kernelVars

(* The CPU goes on executing, the timer keeps expiring, and, a tick being  *)
(* 10 ms, the first task, when it has the CPU again and again, gets on     *)
(* with its code: it leaves the kernel, and does in its calls and in EL0   *)
(* what main.c says.                                                       *)
FirstTaskAt(ls) == current = 0 /\ Top(0) \in ls /\ CodeStep

KernelFairSpec ==
  /\ KernelSpec
  /\ WF_kernelVars(CodeStep) /\ SF_kernelVars(Tick)
  /\ SF_kernelVars(FirstTaskAt(Bodies))
  /\ SF_kernelVars(FirstTaskAt({"ret_to_user"})) /\ SF_kernelVars(FirstTaskAt({"finish"}))

----------------------------------------------------------------------------
(* The memory as Mm has it, under the scheduler that there is: the CPU     *)
(* never changes hands where Mm assumes that it does not, nobody enters    *)
(* get_free_page while another do_fork is in it, and do_fork fails only    *)
(* when mem_map has been searched to its end.                              *)
MmSpec == M!Spec

(* No task_struct the scheduler may look at has been given back: the       *)
(* running task's, those in the table and in the ring, the one the walk    *)
(* has reached, the one a switch has come from.  exit_process frees a page *)
(* while all of them are in use.                                           *)
Referenced ==
  {current} \cup {task[k] : k \in 0 .. nr_tasks - 1} \cup {next[t] : t \in Procs}
    \cup {pPrev[t] : t \in Procs} \cup {newTask[t] : t \in Procs}
    \cup {last[t][d] : t \in Procs, d \in Levels}

ReferencedTasksKept ==
  \A t \in Referenced \cap Tasks :
    /\ page[t] \in M!Pages /\ mem_map[M!PageIndex(page[t])]
    /\ \A u \in Procs : page[u] = page[t] => u = t

(* user_process clones with what sys_malloc returned, unchecked (-1 on     *)
(* failure), but no clone ever gets that for a stack: when sys_malloc has  *)
(* found nothing, do_fork finds nothing either, whatever runs in between.  *)
ClonesHaveStacks == \A t \in Procs : stack[t] # M!Failed

(* The system comes up: user_process reaches its exit, with as many clones *)
(* as there is memory for, and from then on kernel_process and every clone *)
(* run again and again.                                                    *)
ComesUp ==
  /\ <>[](state[0] = "ZOMBIE" /\ current # 0)
  /\ \A t \in Tasks \ {0} : [](IsTask(t) => <>(current = t))
----------------------------------------------------------------------------
(* The inductive invariant.  To the one of Sched and the types it adds     *)
(* where a task in get_free_page stands on its kernel stack, ...           *)
KernelTypeOK ==
  /\ mem_map \in [M!Slots -> BOOLEAN]
  /\ call \in [Procs -> {"none", "probe", "mark"}]
  /\ caller \in [Procs -> {"none", "do_fork", "sys_malloc", "move_to_user_mode"}]
  /\ i \in [Procs -> 0 .. PageNum]
  /\ arg \in [Procs -> M!Pages \cup {M!Null, M!Failed}]
  /\ page \in [Procs -> M!Pages \cup {M!Null}]
  /\ stack \in [Procs -> M!Pages \cup {M!Null, M!Failed}]
  /\ heap \in [Procs -> SUBSET (M!Pages \cup {M!Failed})]
  /\ upc \in DOMAIN SyscallAt
  /\ pstack \in M!Pages \cup {M!Null, M!Failed}

CallPlaces ==
  \A t \in Procs :
    /\ frame[t][1] = "fork_alloc" => call[t] # "none" /\ caller[t] = "do_fork"
    /\ call[t] # "none" =>
         /\ t \in {0, Boot}
         /\ caller[t] # "none"
         /\ caller[t] = "do_fork" =>
              frame[t][1] = "fork_alloc" /\ arg[t] = IF t = Boot THEN M!Null ELSE pstack
         /\ caller[t] = "sys_malloc" => frame[t][1] = "sys"
         /\ caller[t] = "move_to_user_mode" => frame[t][1] = "kfn" /\ fn[t] = "kernel_thread"

(* ... who is who, and what each of them ever does: the first task starts  *)
(* as kernel_thread, the second is kernel_process, the others are born in  *)
(* EL0 and only the first of them forks or exits, ...                      *)
TaskKinds ==
  /\ \A t \in Tasks : frame[t][1] # "none" =>
       fn[t] = IF t = 0 THEN "kernel_thread" ELSE IF t = 1 THEN "kernel_process" ELSE "user"
  /\ stack[0] = M!Null <=> frame[0][1] \in {"none", "born", "kfn"}
  /\ \A t \in Procs :
       /\ frame[t][1] \in ForkLocs => t \in {0, Boot}
       /\ frame[t][1] \in {"exit_free", "exit_sched"} =>
            t = 0 /\ state[t] = "ZOMBIE" /\ upc = "end"

(* ... what user_process clones with, ...                                  *)
CloneHasStack ==
  /\ upc \in {"clone1", "clone2"} /\ frame[0][1] \notin ForkLocs => pstack \in heap[0]
  /\ frame[0][1] \in ForkLocs => upc \in {"clone1", "clone2"}

(* ... that get_free_page passes no free slot, as nobody frees one before  *)
(* the last call of it, and so once it has found none it finds none again, *)
ScanExact ==
  \A t \in Procs : call[t] # "none" =>
    /\ \A k \in M!Slots : k < i[t] => mem_map[k]
    /\ call[t] = "mark" => i[t] \in M!Slots /\ ~mem_map[i[t]]

FullAfterFailure ==
  pstack = M!Failed /\ upc # "end" => \A k \in M!Slots : mem_map[k]

(* and that whoever has been forked has a page, and only they are pointed  *)
(* to.                                                                     *)
TasksHavePages ==
  \A t \in Tasks : frame[t][1] # "none" => page[t] \in M!Pages

PointersToTasks == \A t \in Referenced \cap Tasks : frame[t][1] # "none"

MInv ==
  /\ KernelTypeOK /\ CallPlaces /\ TaskKinds /\ CloneHasStack
  /\ ScanExact /\ FullAfterFailure /\ ClonesHaveStacks /\ TasksHavePages

KInv == IInv /\ MInv /\ PointersToTasks
=============================================================================
