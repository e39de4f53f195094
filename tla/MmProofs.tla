------------------------------ MODULE MmProofs ------------------------------
(***************************************************************************)
(* Proofs about Mm, for every number of pages and tasks: as long as the    *)
(* programs that are cloned do not allocate, which is what main.c runs,    *)
(* get_free_page is right although nothing protects it.                    *)
(***************************************************************************)
EXTENDS Mm, TLAPS

(* The clones make no call that allocates: user_process1 only writes.      *)
OneAllocator == CloneCalls \subseteq {"sys_exit"}

(* The constants, as facts about numbers.                                  *)
LEMMA ConstantFacts ==
  /\ MaxTasks \in Nat /\ MaxTasks >= 2
  /\ PageNum \in Nat /\ PageNum >= 3
  /\ Boot = -1 /\ Null = 0 /\ Failed = -1
  /\ \A t : t \in Tasks <=> t \in Int /\ 0 <= t /\ t < MaxTasks
  /\ \A t : t \in Procs <=> t \in Tasks \/ t = Boot
  /\ \A k : k \in Slots <=> k \in Int /\ 0 <= k /\ k < PageNum
BY MmAssumption DEF Boot, Null, Failed, Tasks, Procs, Slots

(* get_free_page's conversion of a number to an address and free_page's    *)
(* back to a number are inverse, and what stands for no page is in none.   *)
THEOREM AddressFacts ==
  /\ \A k \in Slots : PageAddress(k) \in Pages /\ PageIndex(PageAddress(k)) = k
  /\ \A p \in Pages : PageIndex(p) \in Slots /\ PageAddress(PageIndex(p)) = p
  /\ Null \notin Pages /\ Failed \notin Pages
  /\ PageIndex(Failed) \notin Slots
<1>1. \A k \in Slots : PageAddress(k) \in Pages /\ PageIndex(PageAddress(k)) = k
  BY ConstantFacts DEF Pages, PageAddress, PageIndex, LowMemory, PageSize
<1>2. \A p \in Pages : PageIndex(p) \in Slots /\ PageAddress(PageIndex(p)) = p
  BY <1>1 DEF Pages
<1>3. Null \notin Pages /\ Failed \notin Pages
  BY ConstantFacts DEF Pages, PageAddress, LowMemory, PageSize
<1>4. PageIndex(Failed) \notin Slots
  BY ConstantFacts DEF PageIndex, LowMemory, PageSize
<1> QED
  BY <1>1, <1>2, <1>3, <1>4

----------------------------------------------------------------------------
(* A page that is given out, by a program that has exited or another.      *)
GivenOut(p) == \E t \in Procs : IsTaskStruct(p, t) \/ IsUserStack(p, t) \/ IsMemory(p, t)

LEMMA MapIsGivenOut ==
  /\ MapIsUse <=> \A k \in Slots : mem_map[k] <=> GivenOut(PageAddress(k))
  /\ MapIsUse' <=> \A k \in Slots : mem_map'[k] <=> GivenOut(PageAddress(k))'
<1>1. \A p : InUse(p) \/ Lost(p) <=> GivenOut(p)
  BY DEF InUse, Lost, GivenOut
<1>2. \A p : InUse(p)' \/ Lost(p)' <=> GivenOut(p)'
  BY DEF InUse, Lost, GivenOut
<1> QED BY <1>1, <1>2 DEF MapIsUse, PageAddress

----------------------------------------------------------------------------
(* At most one task is in get_free_page, and only the running one when it  *)
(* is kernel_main.                                                         *)
LEMMA OneInside ==
  ASSUME PagesInv, NEW t \in Procs, at[t] \in {"probe", "mark"}
  PROVE  /\ t \in {0, Boot}
         /\ t = Boot => current = Boot
         /\ t = 0 => current # Boot
<1>1. current = Boot => t \notin Tasks
  BY DEF PagesInv, BootPhase
<1>2. t \in Tasks => t = 0
  BY ConstantFacts DEF PagesInv, Roles
<1>3. current # Boot => t # Boot
  BY DEF PagesInv, BootPhase
<1> QED
  BY <1>1, <1>2, <1>3, ConstantFacts

(* Steps that neither mark, nor free, nor give a page another use.         *)
LEMMA QuietStep ==
  ASSUME PagesInv, UNCHANGED <<mem_map, useVars>>,
         \A t \in Procs : at'[t] = "zombie" <=> at[t] = "zombie"
  PROVE  Exclusive' /\ MapIsUse'
<1>1. \A p \in Pages, t \in Procs :
        /\ IsTaskStruct(p, t)' <=> IsTaskStruct(p, t)
        /\ IsUserStack(p, t)' <=> IsUserStack(p, t)
        /\ IsMemory(p, t)' <=> IsMemory(p, t)
  BY DEF useVars, IsTaskStruct, IsUserStack, IsMemory
<1>2. \A p \in Pages : GivenOut(p)' <=> GivenOut(p)
  BY <1>1 DEF GivenOut
<1> QED
  BY <1>1, <1>2, AddressFacts, MapIsGivenOut DEF PagesInv, Exclusive, useVars

(* kernel_main starts with no page taken and none in use.                  *)
LEMMA InitInv == Init => PagesInv
<1> SUFFICES ASSUME Init PROVE PagesInv
  OBVIOUS
<1>1. TypeOK
  BY ConstantFacts DEF Init, TypeOK
<1>2. BootPhase /\ Unborn /\ Roles /\ EarlyMap /\ CheckedStillFree
  BY ConstantFacts DEF Init, BootPhase, Unborn, Roles, EarlyMap, CheckedStillFree
<1>3. Exclusive /\ MapIsUse
  BY ConstantFacts, AddressFacts
  DEF Init, Exclusive, MapIsUse, InUse, Lost, IsTaskStruct, IsUserStack, IsMemory
<1> QED
  BY <1>1, <1>2, <1>3 DEF PagesInv

----------------------------------------------------------------------------
(* A call of get_free_page is entered, from a place outside it.            *)
LEMMA EnterStep ==
  ASSUME PagesInv, NEW c \in {"do_fork", "sys_malloc", "move_to_user_mode"},
         NEW s \in Pages \cup {Null, Failed},
         Enter(c, s), UNCHANGED <<current, mem_map, nr_tasks, useVars>>,
         current \in {0, Boot},
         at[current] \in {"kernel_main", "kernel_thread", "user"},
         current = Boot => c = "do_fork" /\ s = Null /\ nr_tasks < 2,
         current = 0 /\ c = "do_fork" => s \in heap[0] /\ nr_tasks < MaxTasks,
         c = "move_to_user_mode" <=> at[current] = "kernel_thread"
  PROVE  PagesInv'
<1>1. TypeOK'
  BY ConstantFacts DEF PagesInv, TypeOK, Enter, Goto, useVars
<1>2. /\ at' \in [Procs -> {"none", "kernel_main", "kernel_thread", "kernel_process",
                           "user", "probe", "mark", "exit", "zombie"}]
      /\ at'[current] = "probe"
      /\ \A t \in Procs \ {current} : at'[t] = at[t]
  BY ConstantFacts DEF PagesInv, TypeOK, Enter, Goto
<1>3. BootPhase'
  BY <1>2, ConstantFacts DEF PagesInv, TypeOK, BootPhase, Enter
<1>4. Unborn'
  BY <1>2, ConstantFacts DEF PagesInv, TypeOK, Unborn, useVars
<1>5. Roles'
  BY <1>2, ConstantFacts DEF PagesInv, TypeOK, Roles, Enter, useVars
<1>6. EarlyMap'
  <2>1. NoProgram' => NoProgram
    BY <1>2, ConstantFacts DEF PagesInv, TypeOK, NoProgram, Enter, Roles
  <2>2. NoProgram' => i'[current] <= nr_tasks
    BY ConstantFacts DEF PagesInv, TypeOK, Enter
  <2> QED
    BY <1>2, <2>1, <2>2, ConstantFacts DEF PagesInv, TypeOK, EarlyMap, Enter, useVars
<1>7. CheckedStillFree'
  BY <1>2 DEF PagesInv, TypeOK, CheckedStillFree, Enter
<1>8. Exclusive' /\ MapIsUse'
  BY <1>2, QuietStep
<1> QED
  BY <1>1, <1>3, <1>4, <1>5, <1>6, <1>7, <1>8 DEF PagesInv

(* A task that is not the first is in none of the first one's places.      *)
LEMMA OtherPlaces ==
  ASSUME PagesInv, NEW t \in Tasks, t # 0
  PROVE  at[t] \in {"none", "kernel_process", "user", "exit", "zombie"}
<1>1. t = 1 \/ t > 1
  BY DEF Tasks
<1>2. CASE t = 1
  BY <1>2 DEF PagesInv, Roles
<1>3. CASE t > 1
  BY <1>3 DEF PagesInv, Roles
<1> QED
  BY <1>1, <1>2, <1>3

(* Only kernel_main's own context is in kernel_main, only the first task   *)
(* in kernel_thread.                                                       *)
LEMMA WhoIsWhere ==
  ASSUME PagesInv
  PROVE  /\ at[current] = "kernel_main" => current = Boot
         /\ at[current] = "kernel_thread" => current = 0
<1>1. current \in Tasks \cup {Boot}
  BY DEF PagesInv, TypeOK, Procs
<1>2. at[0] # "kernel_main"
  BY DEF PagesInv, Roles
<1>3. current = Boot => at[current] # "kernel_thread"
  BY DEF PagesInv, BootPhase
<1> QED
  BY <1>1, <1>2, <1>3, OtherPlaces

(* kernel_main calls do_fork.                                              *)
LEMMA KernelMainInv == PagesInv /\ KernelMain => PagesInv'
<1> SUFFICES ASSUME PagesInv, KernelMain PROVE PagesInv'
  OBVIOUS
<1>1. current = Boot
  BY WhoIsWhere DEF KernelMain
<1> QED
  BY <1>1, EnterStep, ConstantFacts DEF KernelMain

(* kernel_thread calls move_to_user_mode.                                  *)
LEMMA MoveToUserModeInv == PagesInv /\ MoveToUserMode => PagesInv'
<1> SUFFICES ASSUME PagesInv, MoveToUserMode PROVE PagesInv'
  OBVIOUS
<1>1. current = 0
  BY WhoIsWhere DEF MoveToUserMode
<1> QED
  BY <1>1, EnterStep, ConstantFacts DEF MoveToUserMode

(* Only the first task's program may call sys_malloc or sys_clone.         *)
LEMMA Allocator ==
  ASSUME OneAllocator, PagesInv, at[current] = "user",
         {"sys_malloc", "sys_clone"} \cap Calls(current) # {}
  PROVE  current = 0
BY ConstantFacts DEF OneAllocator, Calls

(* sys_malloc is called.                                                   *)
LEMMA SysMallocInv == OneAllocator /\ PagesInv /\ SysMalloc => PagesInv'
<1> SUFFICES ASSUME OneAllocator, PagesInv, SysMalloc PROVE PagesInv'
  OBVIOUS
<1>1. current = 0
  BY Allocator DEF SysMalloc
<1> QED
  BY <1>1, EnterStep, ConstantFacts DEF SysMalloc

(* sys_clone is called, with a stack from sys_malloc.                      *)
LEMMA SysCloneInv == OneAllocator /\ PagesInv /\ SysClone => PagesInv'
<1> SUFFICES ASSUME OneAllocator, PagesInv, SysClone PROVE PagesInv'
  OBVIOUS
<1>1. current = 0
  BY Allocator DEF SysClone
<1>2. PICK s \in heap[current] : Enter("do_fork", s)
  BY DEF SysClone
<1>3. s \in Pages \cup {Null, Failed}
  BY <1>1, <1>2, ConstantFacts DEF PagesInv, TypeOK
<1> QED
  BY <1>1, <1>2, <1>3, EnterStep, ConstantFacts DEF SysClone

----------------------------------------------------------------------------
(* A step of one task to another place, outside get_free_page, that leaves *)
(* the pages and their uses alone.                                         *)
LEMMA GotoStep ==
  ASSUME PagesInv, NEW l \in {"user", "exit"},
         Goto(l), UNCHANGED <<current, mem_map, nr_tasks, callVars, useVars>>,
         current \in Tasks, ~NoProgram,
         at[current] \in {"user", "probe"}
  PROVE  PagesInv'
<1>1. TypeOK'
  BY ConstantFacts DEF PagesInv, TypeOK, Goto, useVars, callVars
<1>2. /\ at'[current] = l
      /\ \A t \in Procs \ {current} : at'[t] = at[t]
  BY ConstantFacts DEF PagesInv, TypeOK, Goto
<1>3. BootPhase'
  BY <1>2, ConstantFacts DEF PagesInv, TypeOK, BootPhase, callVars
<1>4. Unborn'
  BY <1>2, ConstantFacts DEF PagesInv, TypeOK, Unborn, useVars
<1>5. Roles'
  BY <1>2, ConstantFacts DEF PagesInv, TypeOK, Roles, callVars, useVars
<1>6. EarlyMap'
  BY <1>2, ConstantFacts DEF PagesInv, TypeOK, EarlyMap, NoProgram, callVars
<1>7. CheckedStillFree'
  BY <1>2 DEF PagesInv, TypeOK, CheckedStillFree, callVars
<1>8. Exclusive' /\ MapIsUse'
  BY <1>2, QuietStep
<1> QED
  BY <1>1, <1>3, <1>4, <1>5, <1>6, <1>7, <1>8 DEF PagesInv

(* exit_process is called.                                                 *)
LEMMA SysExitInv == PagesInv /\ SysExit => PagesInv'
<1> SUFFICES ASSUME PagesInv, SysExit PROVE PagesInv'
  OBVIOUS
<1>1. current \in Tasks /\ ~NoProgram
  BY ConstantFacts DEF PagesInv, TypeOK, SysExit, BootPhase, Roles, NoProgram, EarlyMap
<1> QED
  BY <1>1, GotoStep DEF SysExit

(* do_fork returns -1.                                                     *)
LEMMA ForkRefusedInv == PagesInv /\ ForkRefused => PagesInv'
<1> SUFFICES ASSUME PagesInv, ForkRefused PROVE PagesInv'
  OBVIOUS
<1>1. current \in Tasks /\ ~NoProgram
  BY ConstantFacts, OneInside DEF PagesInv, TypeOK, ForkRefused, Refused, NoProgram
<1> QED
  BY <1>1, GotoStep DEF ForkRefused, Refused

(* sys_malloc returns -1, which is no page.                                *)
LEMMA MallocRefusedInv == PagesInv /\ MallocRefused => PagesInv'
<1> SUFFICES ASSUME PagesInv, MallocRefused PROVE PagesInv'
  OBVIOUS
<1>1. current = 0 /\ ~NoProgram /\ at[0] = "probe"
  BY ConstantFacts, OneInside DEF PagesInv, TypeOK, MallocRefused, Refused, NoProgram
<1>2. TypeOK'
  BY ConstantFacts DEF PagesInv, TypeOK, MallocRefused, Goto, callVars
<1>3. /\ at'[current] = "user"
      /\ \A t \in Procs \ {current} : at'[t] = at[t]
      /\ heap'[current] = heap[current] \cup {Failed}
      /\ \A t \in Procs \ {current} : heap'[t] = heap[t]
  BY ConstantFacts DEF PagesInv, TypeOK, MallocRefused, Goto
<1>4. BootPhase'
  BY <1>1, <1>3, ConstantFacts DEF PagesInv, TypeOK, BootPhase, callVars, MallocRefused
<1>5. Unborn'
  BY <1>1, <1>3, ConstantFacts DEF PagesInv, TypeOK, Unborn, MallocRefused
<1>6. Roles'
  BY <1>1, <1>3, ConstantFacts DEF PagesInv, TypeOK, Roles, callVars, MallocRefused
<1>7. EarlyMap'
  BY <1>1, <1>3, ConstantFacts DEF PagesInv, TypeOK, EarlyMap, NoProgram, callVars, MallocRefused
<1>8. CheckedStillFree'
  BY <1>3 DEF PagesInv, TypeOK, CheckedStillFree, callVars, MallocRefused
<1>9. \A p \in Pages, t \in Procs :
        /\ IsTaskStruct(p, t)' <=> IsTaskStruct(p, t)
        /\ IsUserStack(p, t)' <=> IsUserStack(p, t)
        /\ IsMemory(p, t)' <=> IsMemory(p, t)
  BY <1>1, <1>3, AddressFacts, ConstantFacts
  DEF IsTaskStruct, IsUserStack, IsMemory, MallocRefused
<1>10. Exclusive' /\ MapIsUse'
  <2>1. \A p \in Pages : GivenOut(p)' <=> GivenOut(p)
    BY <1>9 DEF GivenOut
  <2> QED
    BY <1>9, <2>1, AddressFacts, MapIsGivenOut DEF PagesInv, Exclusive, MallocRefused
<1> QED
  BY <1>2, <1>4, <1>5, <1>6, <1>7, <1>8, <1>10 DEF PagesInv

(* get_free_page passes a slot that is taken.                              *)
LEMMA ProbeTakenInv == PagesInv /\ ProbeTaken => PagesInv'
<1> SUFFICES ASSUME PagesInv, ProbeTaken PROVE PagesInv'
  OBVIOUS
<1>1. TypeOK'
  BY ConstantFacts DEF PagesInv, TypeOK, ProbeTaken, useVars
<1>2. BootPhase' /\ Unborn' /\ Roles'
  BY ConstantFacts DEF PagesInv, TypeOK, BootPhase, Unborn, Roles, ProbeTaken, useVars
<1>3. EarlyMap'
  <2>1. NoProgram' <=> NoProgram
    BY DEF NoProgram, ProbeTaken
  <2>2. NoProgram => i'[current] <= nr_tasks
    <3>1. NoProgram => i[current] < nr_tasks
      BY OneInside, ConstantFacts DEF PagesInv, TypeOK, EarlyMap, ProbeTaken
    <3> QED
      BY <3>1, ConstantFacts DEF PagesInv, TypeOK, ProbeTaken
  <2> QED
    BY <2>1, <2>2, ConstantFacts DEF PagesInv, TypeOK, EarlyMap, ProbeTaken, useVars
<1>4. CheckedStillFree'
  BY ConstantFacts DEF PagesInv, TypeOK, CheckedStillFree, ProbeTaken
<1>5. Exclusive' /\ MapIsUse'
  BY QuietStep DEF ProbeTaken
<1> QED
  BY <1>1, <1>2, <1>3, <1>4, <1>5 DEF PagesInv

(* get_free_page sees a slot that is free.                                 *)
LEMMA ProbeFreeInv == PagesInv /\ ProbeFree => PagesInv'
<1> SUFFICES ASSUME PagesInv, ProbeFree PROVE PagesInv'
  OBVIOUS
<1>1. TypeOK'
  BY ConstantFacts DEF PagesInv, TypeOK, ProbeFree, Goto, useVars, callVars
<1>2. /\ at'[current] = "mark"
      /\ \A t \in Procs \ {current} : at'[t] = at[t]
  BY ConstantFacts DEF PagesInv, TypeOK, ProbeFree, Goto
<1>3. BootPhase'
  BY <1>2, ConstantFacts DEF PagesInv, TypeOK, BootPhase, callVars, ProbeFree
<1>4. Unborn'
  BY <1>2, ConstantFacts DEF PagesInv, TypeOK, Unborn, useVars, ProbeFree
<1>5. Roles'
  BY <1>2, ConstantFacts DEF PagesInv, TypeOK, Roles, callVars, useVars, ProbeFree
<1>6. EarlyMap'
  BY <1>2, ConstantFacts
  DEF PagesInv, TypeOK, EarlyMap, NoProgram, callVars, useVars, ProbeFree
<1>7. CheckedStillFree'
  BY <1>2, ConstantFacts DEF PagesInv, TypeOK, CheckedStillFree, callVars, ProbeFree
<1>8. Exclusive' /\ MapIsUse'
  BY <1>2, QuietStep DEF ProbeFree
<1> QED
  BY <1>1, <1>3, <1>4, <1>5, <1>6, <1>7, <1>8 DEF PagesInv

(* The CPU goes from one task to another.                                  *)
LEMMA SwitchInv == PagesInv /\ Switch => PagesInv'
<1> SUFFICES ASSUME PagesInv, Switch PROVE PagesInv'
  OBVIOUS
<1>1. current' \in Tasks /\ current' < nr_tasks /\ current # Boot /\ current' # Boot
  BY ConstantFacts DEF PagesInv, TypeOK, Switch
<1>2. TypeOK' /\ BootPhase' /\ Unborn' /\ Roles' /\ CheckedStillFree'
  BY <1>1, ConstantFacts
  DEF PagesInv, TypeOK, BootPhase, Unborn, Roles, CheckedStillFree, Switch, callVars, useVars
<1>3. EarlyMap'
  BY <1>1 DEF PagesInv, EarlyMap, NoProgram, Switch, callVars, useVars
<1>4. Exclusive' /\ MapIsUse'
  BY QuietStep DEF Switch
<1> QED
  BY <1>2, <1>3, <1>4 DEF PagesInv

(* kernel_main starts the first task.                                      *)
LEMMA BootSwitchInv == PagesInv /\ BootSwitch => PagesInv'
<1> SUFFICES ASSUME PagesInv, BootSwitch PROVE PagesInv'
  OBVIOUS
<1>1. current = Boot /\ current' = 0 /\ nr_tasks = 2
  BY WhoIsWhere DEF BootSwitch
<1>2. TypeOK' /\ BootPhase' /\ Unborn' /\ Roles' /\ CheckedStillFree'
  BY <1>1, ConstantFacts
  DEF PagesInv, TypeOK, BootPhase, Unborn, Roles, CheckedStillFree, BootSwitch, callVars,
      useVars
<1>3. EarlyMap'
  BY <1>1, ConstantFacts DEF PagesInv, EarlyMap, NoProgram, BootSwitch, callVars, useVars
<1>4. Exclusive' /\ MapIsUse'
  BY QuietStep DEF BootSwitch
<1> QED
  BY <1>2, <1>3, <1>4 DEF PagesInv

----------------------------------------------------------------------------
(* exit_process frees the user stack: whose it was is a zombie now, and    *)
(* Exclusive says that nobody else had it.                                 *)
LEMMA ExitFreeInv == PagesInv /\ ExitFree => PagesInv'
<1> SUFFICES ASSUME PagesInv, ExitFree PROVE PagesInv'
  OBVIOUS
<1> DEFINE p == stack[current]
<1>1. current \in Tasks /\ ~NoProgram /\ p \in Pages \cup {Null, Failed}
  <2>1. at[current] = "exit" /\ current \in Tasks /\ current < nr_tasks
    BY ConstantFacts DEF PagesInv, TypeOK, ExitFree, BootPhase
  <2>2. p \in Pages \cup {Null, Failed}
    BY <2>1, ConstantFacts DEF PagesInv, TypeOK
  <2>3. ~NoProgram
    <3> SUFFICES ASSUME NoProgram PROVE FALSE
      OBVIOUS
    <3>1. current \in 0 .. 1
      BY <2>1, ConstantFacts DEF PagesInv, TypeOK, EarlyMap
    <3>2. current = 0 /\ current # Boot
      BY <2>1, <3>1, ConstantFacts DEF PagesInv, Roles
    <3> QED BY <2>1, <3>2 DEF NoProgram
  <2> QED BY <2>1, <2>2, <2>3
<1>2. /\ at'[current] = "zombie"
      /\ \A t \in Procs \ {current} : at'[t] = at[t]
  BY <1>1, ConstantFacts DEF PagesInv, TypeOK, ExitFree, Goto
<1>3. /\ mem_map' \in [Slots -> BOOLEAN]
      /\ \A k \in Slots : mem_map'[k] <=> mem_map[k] /\ PageAddress(k) # p
  <2>1. \A k \in Slots : PageAddress(k) = p <=> k = PageIndex(p)
    BY <1>1, AddressFacts, ConstantFacts DEF PageIndex, LowMemory, PageSize
  <2>2. CASE p = Null
    BY <2>1, <2>2, <1>1, AddressFacts DEF PagesInv, TypeOK, ExitFree
  <2>3. CASE p # Null
    BY <2>1, <2>3 DEF PagesInv, TypeOK, ExitFree, free_page
  <2> QED
    BY <2>2, <2>3
<1>4. TypeOK'
  BY <1>2, <1>3, ConstantFacts DEF PagesInv, TypeOK, ExitFree, Goto, callVars, useVars
<1>5. BootPhase'
  BY <1>1, <1>2, ConstantFacts DEF PagesInv, TypeOK, BootPhase, callVars, ExitFree
<1>6. Unborn'
  BY <1>1, <1>2, ConstantFacts DEF PagesInv, TypeOK, Unborn, useVars, ExitFree
<1>7. Roles'
  BY <1>1, <1>2, ConstantFacts DEF PagesInv, TypeOK, Roles, callVars, useVars, ExitFree
<1>8. EarlyMap'
  BY <1>1, <1>2, ConstantFacts
  DEF PagesInv, TypeOK, EarlyMap, NoProgram, callVars, ExitFree, BootPhase
<1>9. CheckedStillFree'
  BY <1>2, <1>3, ConstantFacts DEF PagesInv, TypeOK, CheckedStillFree, callVars, ExitFree
<1>10. /\ \A q \in Pages, t \in Procs :
            /\ IsTaskStruct(q, t)' <=> IsTaskStruct(q, t)
            /\ IsMemory(q, t)' <=> IsMemory(q, t)
            /\ IsUserStack(q, t)' <=> IsUserStack(q, t) /\ t # current
       /\ \A q \in Pages : IsUserStack(q, current) <=> q = p
  BY <1>1, <1>2, ConstantFacts
  DEF IsTaskStruct, IsMemory, IsUserStack, ExitFree, useVars
<1>11. Exclusive'
  BY <1>10 DEF PagesInv, Exclusive
<1>12. MapIsUse'
  <2>1. \A q \in Pages : q # p => (GivenOut(q)' <=> GivenOut(q))
    BY <1>10 DEF GivenOut
  <2>2. \A q \in Pages : q = p => ~GivenOut(q)'
    <3>1. current \in Procs
      BY <1>1, ConstantFacts
    <3> QED
      BY <1>10, <3>1 DEF GivenOut, PagesInv, Exclusive
  <2> QED
    BY <1>3, <2>1, <2>2, AddressFacts, MapIsGivenOut DEF PagesInv
<1> QED
  BY <1>4, <1>5, <1>6, <1>7, <1>8, <1>9, <1>11, <1>12 DEF PagesInv

----------------------------------------------------------------------------
(* The page get_free_page is about to return is one nobody uses.           *)
LEMMA FoundFacts ==
  ASSUME PagesInv, at[current] = "mark"
  PROVE  /\ i[current] \in Slots /\ Found \in Pages
         /\ current \in {0, Boot}
         /\ \A k \in Slots : PageAddress(k) = Found <=> k = i[current]
         /\ \A t \in Procs : /\ ~IsTaskStruct(Found, t)
                             /\ ~IsUserStack(Found, t)
                             /\ ~IsMemory(Found, t)
<1>1. current \in Procs
  BY DEF PagesInv, TypeOK
<1>2. i[current] \in Slots /\ ~mem_map[i[current]]
  BY <1>1, ConstantFacts DEF PagesInv, TypeOK, CheckedStillFree
<1>3. Found \in Pages /\ (\A k \in Slots : PageAddress(k) = Found <=> k = i[current])
  BY <1>2, AddressFacts DEF Found
<1>4. ~GivenOut(Found)
  BY <1>2, MapIsGivenOut DEF PagesInv, Found
<1> QED
  BY <1>1, <1>2, <1>3, <1>4, OneInside DEF GivenOut

(* It is put to one use, in one step with its mark: pages other than it    *)
(* have the uses they had, up to memory that becomes a stack.              *)
LEMMA MarkStep ==
  ASSUME PagesInv, at[current] = "mark", Mark,
         at'[current] # "mark",
         \A t \in Procs \ {current} : at'[t] # "mark" \/ at'[t] = at[t],
         UNCHANGED i
  PROVE  /\ mem_map' \in [Slots -> BOOLEAN]
         /\ \A k \in Slots : mem_map'[k] <=> mem_map[k] \/ PageAddress(k) = Found
         /\ CheckedStillFree'
<1>1. /\ mem_map' \in [Slots -> BOOLEAN]
      /\ \A k \in Slots : mem_map'[k] <=> mem_map[k] \/ PageAddress(k) = Found
  BY FoundFacts DEF Mark, PagesInv, TypeOK
<1>2. \A t \in Procs : at'[t] # "mark"
  BY OneInside DEF PagesInv, TypeOK
<1> QED
  BY <1>1, <1>2 DEF CheckedStillFree

(* sys_malloc returns a page.                                              *)
LEMMA GetsMemoryInv == PagesInv /\ GetsMemory => PagesInv'
<1> SUFFICES ASSUME PagesInv, GetsMemory PROVE PagesInv'
  OBVIOUS
<1>1. current = 0 /\ ~NoProgram /\ at[0] = "mark" /\ 0 \in Procs
  BY ConstantFacts, OneInside DEF PagesInv, TypeOK, GetsMemory, NoProgram, BootPhase
<1>2. /\ at'[current] = "user"
      /\ \A t \in Procs \ {current} : at'[t] = at[t]
      /\ heap'[current] = heap[current] \cup {Found}
      /\ \A t \in Procs \ {current} : heap'[t] = heap[t]
  BY ConstantFacts DEF PagesInv, TypeOK, GetsMemory, Goto
<1>3. /\ mem_map' \in [Slots -> BOOLEAN]
      /\ \A k \in Slots : mem_map'[k] <=> mem_map[k] \/ PageAddress(k) = Found
      /\ CheckedStillFree'
  BY <1>1, <1>2, MarkStep DEF GetsMemory, callVars
<1>4. TypeOK'
  BY <1>1, <1>3, FoundFacts, ConstantFacts DEF PagesInv, TypeOK, GetsMemory, Goto, callVars
<1>5. BootPhase'
  BY <1>1, <1>2, ConstantFacts DEF PagesInv, TypeOK, BootPhase, callVars, GetsMemory
<1>6. Unborn'
  BY <1>1, <1>2, ConstantFacts DEF PagesInv, TypeOK, Unborn, GetsMemory
<1>7. Roles'
  BY <1>1, <1>2, ConstantFacts DEF PagesInv, TypeOK, Roles, callVars, GetsMemory
<1>8. EarlyMap'
  BY <1>1, <1>2, ConstantFacts DEF PagesInv, TypeOK, EarlyMap, NoProgram, callVars, GetsMemory
<1>9. \A q \in Pages, t \in Procs :
            /\ IsTaskStruct(q, t)' <=> IsTaskStruct(q, t)
            /\ IsUserStack(q, t)' <=> IsUserStack(q, t)
            /\ IsMemory(q, t)' <=> IsMemory(q, t) \/ (q = Found /\ t = current)
  BY <1>1, <1>2 DEF IsTaskStruct, IsMemory, IsUserStack, GetsMemory
<1>10. Exclusive'
  BY <1>1, <1>9, FoundFacts DEF PagesInv, Exclusive
<1>11. MapIsUse'
  <2>1. \A q \in Pages : GivenOut(q)' <=> GivenOut(q) \/ q = Found
    BY <1>1, <1>9 DEF GivenOut
  <2> QED
    BY <1>3, <2>1, AddressFacts, MapIsGivenOut DEF PagesInv
<1> QED
  BY <1>3, <1>4, <1>5, <1>6, <1>7, <1>8, <1>10, <1>11 DEF PagesInv

(* move_to_user_mode gets the first task its user stack.                   *)
LEMMA GetsUserStackInv == PagesInv /\ GetsUserStack => PagesInv'
<1> SUFFICES ASSUME PagesInv, GetsUserStack PROVE PagesInv'
  OBVIOUS
<1>1. current = 0 /\ at[0] = "mark" /\ 0 \in Procs /\ stack[0] = Null
  BY ConstantFacts, OneInside
  DEF PagesInv, TypeOK, GetsUserStack, NoProgram, BootPhase, EarlyMap
<1>2. /\ at'[current] = "user"
      /\ \A t \in Procs \ {current} : at'[t] = at[t]
      /\ stack'[current] = Found
      /\ \A t \in Procs \ {current} : stack'[t] = stack[t]
  BY ConstantFacts DEF PagesInv, TypeOK, GetsUserStack, Goto
<1>3. /\ mem_map' \in [Slots -> BOOLEAN]
      /\ \A k \in Slots : mem_map'[k] <=> mem_map[k] \/ PageAddress(k) = Found
      /\ CheckedStillFree'
  BY <1>1, <1>2, MarkStep DEF GetsUserStack, callVars
<1>4. TypeOK'
  BY <1>1, <1>3, FoundFacts, ConstantFacts DEF PagesInv, TypeOK, GetsUserStack, Goto, callVars
<1>5. BootPhase'
  BY <1>1, <1>2, ConstantFacts DEF PagesInv, TypeOK, BootPhase, callVars, GetsUserStack
<1>6. Unborn'
  BY <1>1, <1>2, ConstantFacts DEF PagesInv, TypeOK, Unborn, GetsUserStack
<1>7. Roles'
  BY <1>1, <1>2, ConstantFacts DEF PagesInv, TypeOK, Roles, callVars, GetsUserStack
<1>8. EarlyMap'
  BY <1>1, <1>2, ConstantFacts
  DEF PagesInv, TypeOK, EarlyMap, NoProgram, callVars, GetsUserStack
<1>9. \A q \in Pages, t \in Procs :
            /\ IsTaskStruct(q, t)' <=> IsTaskStruct(q, t)
            /\ IsMemory(q, t)' <=> IsMemory(q, t)
            /\ IsUserStack(q, t)' <=> IsUserStack(q, t) \/ (q = Found /\ t = current)
  BY <1>1, <1>2, AddressFacts DEF IsTaskStruct, IsMemory, IsUserStack, GetsUserStack
<1>10. Exclusive'
  BY <1>1, <1>9, FoundFacts DEF PagesInv, Exclusive
<1>11. MapIsUse'
  <2>1. \A q \in Pages : GivenOut(q)' <=> GivenOut(q) \/ q = Found
    BY <1>1, <1>9 DEF GivenOut
  <2> QED
    BY <1>3, <2>1, AddressFacts, MapIsGivenOut DEF PagesInv
<1> QED
  BY <1>3, <1>4, <1>5, <1>6, <1>7, <1>8, <1>10, <1>11 DEF PagesInv

(* do_fork gets the page of the new task, and the task the stack its       *)
(* parent had for it.                                                      *)
LEMMA GetsTaskStructInv == PagesInv /\ GetsTaskStruct => PagesInv'
<1> SUFFICES ASSUME PagesInv, GetsTaskStruct PROVE PagesInv'
  OBVIOUS
<1> DEFINE child == nr_tasks
           s == arg[current]
<1>1. /\ current \in {0, Boot} /\ current \in Procs
      /\ current = 0 => s \in heap[0] /\ nr_tasks < MaxTasks /\ nr_tasks >= 2 /\ ~NoProgram
      /\ current = Boot => s = Null /\ nr_tasks < 2 /\ heap[Boot] = {}
  <2>1. current \in {0, Boot} /\ current \in Procs
    BY OneInside DEF PagesInv, TypeOK, GetsTaskStruct
  <2> QED
    BY <2>1, ConstantFacts
    DEF PagesInv, TypeOK, GetsTaskStruct, BootPhase, Roles, Unborn, NoProgram
<1>2. /\ child \in Tasks /\ child # current /\ at[child] = "none"
      /\ page[child] = Null /\ stack[child] = Null /\ heap[child] = {}
      /\ nr_tasks \in 0 .. MaxTasks - 1
  BY <1>1, ConstantFacts DEF PagesInv, TypeOK, Unborn, GetsTaskStruct
<1>3. /\ at'[current] = IF current = Boot THEN "kernel_main" ELSE "user"
      /\ at'[child] = IF current # Boot THEN "user"
                      ELSE IF nr_tasks = 0 THEN "kernel_thread" ELSE "kernel_process"
      /\ \A t \in Procs \ {current, child} : at'[t] = at[t]
      /\ heap'[current] = heap[current] \ {s}
      /\ \A t \in Procs \ {current} : heap'[t] = heap[t]
      /\ stack'[child] = s /\ page'[child] = Found
      /\ \A t \in Procs \ {child} : stack'[t] = stack[t] /\ page'[t] = page[t]
      /\ UNCHANGED i
  BY <1>1, <1>2, ConstantFacts DEF PagesInv, TypeOK, GetsTaskStruct, callVars
<1>31. /\ at[current] = "mark" /\ Mark /\ child \in Procs
       /\ at'[current] \in {"kernel_main", "user"}
       /\ at'[child] \in {"user", "kernel_thread", "kernel_process"}
  BY <1>2, <1>3, ConstantFacts DEF GetsTaskStruct
<1>4. /\ mem_map' \in [Slots -> BOOLEAN]
      /\ \A k \in Slots : mem_map'[k] <=> mem_map[k] \/ PageAddress(k) = Found
      /\ CheckedStillFree'
  <2>1. at'[current] # "mark" /\ at'[child] # "mark"
    BY <1>31
  <2>2. \A t \in Procs \ {current} : at'[t] # "mark" \/ at'[t] = at[t]
    BY <2>1, <1>3
  <2> QED
    BY <2>1, <2>2, <1>3, <1>31, MarkStep
<1>5. TypeOK'
  BY <1>1, <1>2, <1>4, FoundFacts, ConstantFacts
  DEF PagesInv, TypeOK, GetsTaskStruct, callVars
<1>6. BootPhase'
  BY <1>1, <1>2, <1>3, ConstantFacts DEF PagesInv, TypeOK, BootPhase, callVars, GetsTaskStruct
<1>7. Unborn'
  BY <1>1, <1>2, <1>3, ConstantFacts DEF PagesInv, TypeOK, Unborn, GetsTaskStruct
<1>8. Roles'
  <2>1. CASE current = 0
    <3>1. child > 1 /\ at'[0] = "user" /\ at'[child] = "user"
      BY <2>1, <1>1, <1>2, <1>3, ConstantFacts
    <3>2. \A t \in Tasks : t # 0 /\ t # child => at'[t] = at[t]
      BY <2>1, <1>3, ConstantFacts
    <3> QED
      BY <3>1, <3>2, ConstantFacts DEF PagesInv, Roles
  <2>2. CASE current = Boot
    <3>1. \A t \in Tasks : t # child => at'[t] = at[t]
      BY <2>2, <1>3, ConstantFacts
    <3>2. at'[child] = IF child = 0 THEN "kernel_thread" ELSE "kernel_process"
      BY <2>2, <1>3
    <3>3. child \in {0, 1}
      BY <2>2, <1>1, <1>2
    <3>4. at'[0] \in {"none", "kernel_thread"}
      BY <3>1, <3>2, <3>3, <2>2, ConstantFacts DEF PagesInv, BootPhase, Roles
    <3>5. at'[1] \in {"none", "kernel_process"}
      BY <3>1, <3>2, <3>3, <2>2, ConstantFacts DEF PagesInv, BootPhase, Roles
    <3>6. \A t \in Tasks : t > 1 => at'[t] \in {"none", "user", "exit", "zombie"}
      BY <3>1, <3>3, ConstantFacts DEF PagesInv, Roles
    <3> QED
      BY <3>4, <3>5, <3>6 DEF Roles
  <2> QED
    BY <2>1, <2>2, <1>1
<1>9. EarlyMap'
  <2>1. CASE current = 0
    BY <2>1, <1>1, <1>2, <1>3, ConstantFacts
    DEF PagesInv, TypeOK, EarlyMap, NoProgram, callVars, GetsTaskStruct
  <2>2. CASE current = Boot
    <3>1. /\ nr_tasks <= 1 /\ i[current] = nr_tasks
          /\ \A k \in Slots : mem_map[k] <=> k < nr_tasks
          /\ stack[0] = Null /\ heap[0] = {}
      <4>1. nr_tasks <= 1 /\ (\A k \in Slots : mem_map[k] <=> k < nr_tasks)
            /\ i[current] <= nr_tasks /\ stack[0] = Null /\ heap[0] = {}
        BY <2>2, <1>1, <1>2 DEF PagesInv, EarlyMap, NoProgram, GetsTaskStruct
      <4>2. i[current] \in Slots /\ ~mem_map[i[current]]
        BY FoundFacts, <1>1 DEF PagesInv, CheckedStillFree, GetsTaskStruct
      <4> QED
        BY <4>1, <4>2, <1>2, ConstantFacts
    <3>2. \A k \in Slots : mem_map'[k] <=> k < nr_tasks + 1
      BY <3>1, <1>2, <1>4, FoundFacts, ConstantFacts DEF GetsTaskStruct
    <3>3. stack'[0] = Null /\ heap'[0] = {}
      BY <3>1, <2>2, <1>1, <1>2, <1>3, ConstantFacts
    <3>4. \A t \in {0, Boot} : at'[t] \notin {"probe", "mark"}
      BY <2>2, <1>1, <1>2, <1>3, ConstantFacts DEF PagesInv, BootPhase
    <3>5. nr_tasks' = nr_tasks + 1 /\ nr_tasks' <= 2
      BY <3>1, <1>2, ConstantFacts DEF GetsTaskStruct
    <3> QED
      BY <3>2, <3>3, <3>4, <3>5 DEF EarlyMap
  <2> QED
    BY <2>1, <2>2, <1>1
<1>10. \A q \in Pages, t \in Procs :
            /\ IsTaskStruct(q, t)' <=> IsTaskStruct(q, t) \/ (q = Found /\ t = child)
            /\ IsMemory(q, t)' <=> IsMemory(q, t) /\ ~(q = s /\ t = current)
            /\ IsUserStack(q, t)' <=> IsUserStack(q, t) \/ (q = s /\ t = child)
  <2>1. at'[child] # "zombie"
    BY <1>3
  <2>2. \A t \in Procs : t # child => (at'[t] = "zombie" <=> at[t] = "zombie")
    BY <1>3, <1>31
  <2> QED
    BY <2>1, <2>2, <1>2, <1>3, AddressFacts DEF IsTaskStruct, IsMemory, IsUserStack
<1>11. s \in Pages => IsMemory(s, current)
  BY <1>1, AddressFacts DEF IsMemory
<1>12. Exclusive'
  <2>1. \A q \in Pages : IsTaskStruct(q, child) \/ IsUserStack(q, child) \/ IsMemory(q, child)
                         => FALSE
    BY <1>2, AddressFacts DEF IsTaskStruct, IsMemory, IsUserStack
  <2>2. s # Found \/ s \notin Pages
    BY <1>1, <1>11, FoundFacts DEF GetsTaskStruct
  <2>3. \A t \in Procs : ~IsTaskStruct(Found, t) /\ ~IsUserStack(Found, t) /\ ~IsMemory(Found, t)
    BY FoundFacts DEF GetsTaskStruct
  <2>4. \A q \in Pages, t, u \in Procs : ~(IsTaskStruct(q, t) /\ IsUserStack(q, u))'
    BY <1>1, <1>2, <1>10, <1>11, <2>1, <2>2, <2>3 DEF PagesInv, Exclusive
  <2>5. \A q \in Pages, t, u \in Procs : ~(IsTaskStruct(q, t) /\ IsMemory(q, u))'
    BY <1>1, <1>2, <1>10, <1>11, <2>1, <2>2, <2>3 DEF PagesInv, Exclusive
  <2>6. \A q \in Pages, t, u \in Procs : ~(IsUserStack(q, t) /\ IsMemory(q, u))'
    BY <1>1, <1>2, <1>10, <1>11, <2>1, <2>2, <2>3 DEF PagesInv, Exclusive
  <2>7. \A q \in Pages, t, u \in Procs : t # u =>
          /\ ~(IsTaskStruct(q, t) /\ IsTaskStruct(q, u))'
          /\ ~(IsUserStack(q, t) /\ IsUserStack(q, u))'
          /\ ~(IsMemory(q, t) /\ IsMemory(q, u))'
    BY <1>1, <1>2, <1>10, <1>11, <2>1, <2>2, <2>3 DEF PagesInv, Exclusive
  <2> QED
    BY <2>4, <2>5, <2>6, <2>7 DEF Exclusive
<1>13. MapIsUse'
  <2>1. \A q \in Pages : GivenOut(q)' <=> GivenOut(q) \/ q = Found
    <3>1. child \in Procs
      BY <1>2, ConstantFacts
    <3> QED
      BY <1>1, <1>10, <1>11, <3>1 DEF GivenOut
  <2> QED
    BY <1>4, <2>1, AddressFacts, MapIsGivenOut DEF PagesInv
<1> QED
  BY <1>4, <1>5, <1>6, <1>7, <1>8, <1>9, <1>12, <1>13 DEF PagesInv

----------------------------------------------------------------------------
(* Every step, and every stutter, preserves the inductive invariant.       *)
LEMMA NextInv == OneAllocator /\ PagesInv /\ [Next]_vars => PagesInv'
<1> SUFFICES ASSUME OneAllocator, PagesInv, [Next]_vars PROVE PagesInv'
  OBVIOUS
<1>1. CASE Next
  BY <1>1, KernelMainInv, MoveToUserModeInv, SysMallocInv, SysCloneInv, SysExitInv,
     ExitFreeInv, ProbeTakenInv, ProbeFreeInv, GetsTaskStructInv, GetsUserStackInv,
     GetsMemoryInv, ForkRefusedInv, MallocRefusedInv, SwitchInv, BootSwitchInv
  DEF Next
<1>2. CASE UNCHANGED vars
  <2>1. TypeOK' /\ BootPhase' /\ Unborn' /\ Roles' /\ EarlyMap' /\ CheckedStillFree'
    BY <1>2 DEF PagesInv, TypeOK, BootPhase, Unborn, Roles, EarlyMap, NoProgram,
                CheckedStillFree, vars
  <2>2. Exclusive' /\ MapIsUse'
    BY <1>2, QuietStep DEF vars, useVars
  <2> QED
    BY <2>1, <2>2 DEF PagesInv
<1> QED
  BY <1>1, <1>2

(* This part of the invariant holds as long as the clones do not allocate. *)
LEMMA PagesInvariance == OneAllocator => (Spec => []PagesInv)
<1> SUFFICES ASSUME OneAllocator PROVE Spec => []PagesInv
  OBVIOUS
<1>1. PagesInv /\ [Next]_vars => PagesInv'
  BY NextInv
<1> QED
  BY InitInv, <1>1, PTL DEF Spec

----------------------------------------------------------------------------
(* Whoever is in a stretch of code that cannot be preempted is running.    *)
LEMMA AtomicRunsStep == TypeOK /\ AtomicRuns /\ [Next]_vars => AtomicRuns'
<1> SUFFICES ASSUME TypeOK, AtomicRuns, [Next]_vars PROVE AtomicRuns'
  OBVIOUS
<1>1. CASE Switch
  BY <1>1, ConstantFacts DEF TypeOK, AtomicRuns, Atomic, Switch, callVars, useVars
<1>2. CASE BootSwitch
  BY <1>2, ConstantFacts DEF TypeOK, AtomicRuns, Atomic, BootSwitch, callVars, useVars
<1>3. CASE GetsTaskStruct
  BY <1>3, ConstantFacts DEF TypeOK, AtomicRuns, Atomic, GetsTaskStruct, callVars, useVars
<1>4. CASE KernelMain \/ MoveToUserMode \/ SysMalloc \/ SysClone
  <2>1. current' = current /\ \E c, s : Enter(c, s)
    BY <1>4 DEF KernelMain, MoveToUserMode, SysMalloc, SysClone
  <2> QED BY <2>1 DEF TypeOK, AtomicRuns, Atomic, Enter, Goto
<1>5. CASE SysExit \/ ExitFree \/ ProbeTaken \/ ProbeFree \/ GetsUserStack
             \/ GetsMemory \/ ForkRefused \/ MallocRefused
  <2>1. /\ current' = current /\ caller' = caller
        /\ at' = at \/ \E l : Goto(l)
    BY <1>5 DEF SysExit, ExitFree, ProbeTaken, ProbeFree, GetsUserStack, GetsMemory,
                ForkRefused, MallocRefused, callVars
  <2> QED BY <2>1 DEF TypeOK, AtomicRuns, Atomic, Goto
<1>6. CASE UNCHANGED vars
  BY <1>6 DEF vars, callVars, AtomicRuns, Atomic
<1> QED
  BY <1>1, <1>2, <1>3, <1>4, <1>5, <1>6 DEF Next

(* A process gets a stack with its life and keeps it until it has exited.  *)
LEMMA StackKeptStep == PagesInv /\ StackKept /\ [Next]_vars => StackKept'
<1> SUFFICES ASSUME PagesInv, StackKept, [Next]_vars PROVE StackKept'
  OBVIOUS
<1> USE DEF PagesInv
<1>1. CASE Switch \/ BootSwitch \/ ProbeTaken \/ UNCHANGED vars
  BY <1>1 DEF StackKept, Switch, BootSwitch, ProbeTaken, vars, callVars, useVars
<1>2. CASE KernelMain \/ MoveToUserMode \/ SysMalloc \/ SysClone
  <2>1. /\ stack' = stack
        /\ \E c, s : Enter(c, s) /\ (at[current] = "user"
                                     \/ c = "move_to_user_mode" \/ current = Boot)
    BY <1>2, WhoIsWhere
    DEF KernelMain, MoveToUserMode, SysMalloc, SysClone, useVars
  <2> QED BY <2>1, ConstantFacts DEF TypeOK, StackKept, Enter, Goto
<1>3. CASE SysExit \/ ExitFree \/ ProbeFree \/ GetsMemory \/ ForkRefused \/ MallocRefused
  <2>1. /\ stack' = stack /\ caller' = caller
        /\ \/ Goto("exit") /\ at[current] = "user"
           \/ Goto("zombie")
           \/ Goto("mark") /\ at[current] = "probe"
           \/ /\ Goto("user") /\ at[current] \in {"probe", "mark"}
              /\ caller[current] # "move_to_user_mode"
    BY <1>3 DEF SysExit, ExitFree, ProbeFree, GetsMemory, ForkRefused, MallocRefused,
                Refused, callVars, useVars
  <2> QED BY <2>1, ConstantFacts DEF TypeOK, StackKept, Goto
<1>4. CASE GetsUserStack
  <2>1. Found # Null
    BY <1>4, FoundFacts, AddressFacts DEF GetsUserStack
  <2> QED BY <1>4, <2>1, ConstantFacts DEF TypeOK, StackKept, GetsUserStack, Goto, callVars
<1>5. CASE GetsTaskStruct
  <2>1. current # Boot => current = 0 /\ arg[0] # Null /\ nr_tasks > 1
    BY <1>5, OneInside, ConstantFacts, AddressFacts
    DEF TypeOK, GetsTaskStruct, Roles, BootPhase
  <2> QED BY <1>5, <2>1, ConstantFacts DEF TypeOK, StackKept, GetsTaskStruct, callVars
<1> QED
  BY <1>1, <1>2, <1>3, <1>4, <1>5 DEF Next

(* A page that was given back stays with the zombie it was the stack of.   *)
LEMMA GivenBackStable ==
  ASSUME PagesInv, [Next]_vars, NEW k \in Slots, GivenBack(k)
  PROVE  GivenBack(k)'
<1>1. PICK z \in Procs : at[z] = "zombie" /\ stack[z] = PageAddress(k)
  BY DEF GivenBack
<1>2. nr_tasks # z
  BY <1>1, ConstantFacts DEF PagesInv, Unborn, TypeOK
<1>3. at'[z] = "zombie" /\ stack'[z] = stack[z]
  BY <1>1, <1>2
  DEF PagesInv, TypeOK, Next, vars, callVars, useVars, Goto, Enter, KernelMain,
      MoveToUserMode, SysMalloc, SysClone, SysExit, ExitFree, ProbeTaken, ProbeFree,
      GetsTaskStruct, GetsUserStack, GetsMemory, ForkRefused, MallocRefused, Refused,
      Switch, BootSwitch
<1> QED BY <1>1, <1>3 DEF GivenBack

(* get_free_page passes no free slot: its own steps pass taken ones only,  *)
(* and nobody frees one while it cannot be preempted.                      *)
LEMMA RefusedStep ==
  PagesInv /\ AtomicRuns /\ StackKept /\ RefusedOnlyWhenFull /\ [Next]_vars
    => RefusedOnlyWhenFull'
<1> SUFFICES ASSUME PagesInv, AtomicRuns, StackKept, RefusedOnlyWhenFull, [Next]_vars,
                    NEW t \in Procs, at'[t] = "probe", NEW k \in Slots, k < i'[t]
             PROVE  mem_map'[k] \/ (caller'[t] # "do_fork" /\ GivenBack(k)')
  BY DEF RefusedOnlyWhenFull
<1> USE DEF PagesInv
<1>1. ASSUME at[t] = "probe", k < i[t], caller'[t] = caller[t],
             mem_map[k] => mem_map'[k]
      PROVE  mem_map'[k] \/ (caller'[t] # "do_fork" /\ GivenBack(k)')
  BY <1>1, GivenBackStable DEF RefusedOnlyWhenFull
<1>2. CASE KernelMain \/ MoveToUserMode \/ SysMalloc \/ SysClone
  <2>1. mem_map' = mem_map /\ \E c, s : Enter(c, s)
    BY <1>2 DEF KernelMain, MoveToUserMode, SysMalloc, SysClone
  <2>2. t # current
    BY <2>1, ConstantFacts DEF TypeOK, Enter
  <2> QED BY <1>1, <2>1, <2>2 DEF TypeOK, Enter, Goto
<1>3. CASE ProbeTaken
  <2>1. CASE t = current /\ k = i[t]
    BY <1>3, <2>1 DEF ProbeTaken
  <2>2. CASE ~(t = current /\ k = i[t])
    <3>1. at[t] = "probe" /\ k < i[t] /\ caller'[t] = caller[t] /\ mem_map' = mem_map
      BY <1>3, <2>2, ConstantFacts DEF TypeOK, ProbeTaken
    <3> QED BY <1>1, <3>1
  <2> QED BY <2>1, <2>2
<1>4. CASE ExitFree
  <2>1. /\ t # current /\ at[t] = "probe" /\ caller' = caller /\ i' = i
        /\ at'[current] = "zombie" /\ stack' = stack
    BY <1>4 DEF TypeOK, ExitFree, Goto, callVars, useVars
  <2>2. caller[t] # "do_fork"
    BY <2>1 DEF AtomicRuns, Atomic
  <2>3. CASE mem_map[k] => mem_map'[k]
    BY <1>1, <2>1, <2>3
  <2>4. CASE mem_map[k] /\ ~mem_map'[k]
    <3>1. stack[current] # Null /\ k = PageIndex(stack[current])
      BY <1>4, <2>4 DEF ExitFree, free_page, TypeOK
    <3>2. stack[current] \in Pages
      BY <3>1, AddressFacts DEF TypeOK
    <3>3. GivenBack(k)'
      BY <2>1, <3>1, <3>2, AddressFacts DEF GivenBack, TypeOK
    <3> QED BY <2>1, <2>2, <3>3
  <2> QED BY <2>3, <2>4
<1>5. CASE GetsTaskStruct \/ GetsUserStack \/ GetsMemory
  <2>1. mem_map[k] => mem_map'[k]
    BY <1>5 DEF TypeOK, GetsTaskStruct, GetsUserStack, GetsMemory, Mark
  <2>2. at[t] = "probe" /\ caller' = caller /\ i' = i
    BY <1>5 DEF TypeOK, GetsTaskStruct, GetsUserStack, GetsMemory, Goto, callVars
  <2> QED BY <1>1, <2>1, <2>2
<1>6. CASE SysExit \/ ProbeFree \/ ForkRefused \/ MallocRefused
  <2>1. at[t] = "probe" /\ caller' = caller /\ i' = i /\ mem_map' = mem_map
    BY <1>6 DEF TypeOK, SysExit, ProbeFree, ForkRefused, MallocRefused, Goto, callVars
  <2> QED BY <1>1, <2>1
<1>7. CASE Switch \/ BootSwitch \/ UNCHANGED vars
  BY <1>1, <1>7 DEF Switch, BootSwitch, vars, callVars
<1> QED
  BY <1>2, <1>3, <1>4, <1>5, <1>6, <1>7 DEF Next

(* The inductive invariant holds as long as the clones do not allocate.    *)
THEOREM Invariance == OneAllocator => (Spec => []IInv)
<1> SUFFICES ASSUME OneAllocator PROVE Spec => []IInv
  OBVIOUS
<1>1. Init => IInv
  BY InitInv, ConstantFacts
  DEF Init, IInv, AtomicRuns, Atomic, StackKept, RefusedOnlyWhenFull
<1>2. IInv /\ [Next]_vars => IInv'
  BY NextInv, AtomicRunsStep, StackKeptStep, RefusedStep DEF IInv, PagesInv
<1> QED
  BY <1>1, <1>2, PTL DEF Spec

(* Every variable keeps its type: page numbers stay inside mem_map, stacks *)
(* are pages, nothing, or the -1 of a failed sys_malloc.                   *)
THEOREM TypeCorrect == OneAllocator => (Spec => []TypeOK)
<1>1. PagesInv => TypeOK
  BY DEF PagesInv
<1> QED
  BY <1>1, PagesInvariance, PTL

(* A refusal means that every page is taken, up to one given back during   *)
(* the scan of a sys_malloc.                                               *)
THEOREM RefusalIsJustified == OneAllocator => (Spec => []RefusedOnlyWhenFull)
<1>1. IInv => RefusedOnlyWhenFull
  BY DEF IInv
<1> QED
  BY <1>1, Invariance, PTL

(* exit_process frees a page that is taken, and it is its own user stack.  *)
THEOREM FreesOwnPage == OneAllocator => (Spec => []FreesItsOwn)
<1>1. IInv => FreesItsOwn
  <2> SUFFICES ASSUME IInv, NEW t \in Procs, at[t] = "exit", stack[t] # Failed
               PROVE  stack[t] \in Pages /\ mem_map[PageIndex(stack[t])]
    BY DEF FreesItsOwn
  <2>1. t \in Tasks
    BY ConstantFacts DEF IInv, PagesInv, BootPhase
  <2>2. stack[t] \in Pages
    BY <2>1 DEF IInv, PagesInv, TypeOK, StackKept
  <2>3. GivenOut(stack[t])
    BY DEF GivenOut, IsUserStack
  <2> QED
    BY <2>2, <2>3, AddressFacts, MapIsGivenOut DEF IInv, PagesInv
<1> QED
  BY <1>1, Invariance, PTL

(* Then no page is ever in two uses, for any number of pages, although a   *)
(* task can be preempted between get_free_page's test and its mark.        *)
THEOREM PagesExclusive == OneAllocator => (Spec => []Exclusive)
<1>1. PagesInv => Exclusive
  BY DEF PagesInv
<1> QED
  BY <1>1, PagesInvariance, PTL

(* And mem_map is exact: no page in use is free, and none is lost but those *)
(* that a program has from sys_malloc when it exits.                       *)
THEOREM MapExact == OneAllocator => (Spec => []MapIsUse)
<1>1. PagesInv => MapIsUse
  BY DEF PagesInv
<1> QED
  BY <1>1, PagesInvariance, PTL

(* What get_free_page has seen free is free when it marks it.              *)
THEOREM TestStillTrue == OneAllocator => (Spec => []CheckedStillFree)
<1>1. PagesInv => CheckedStillFree
  BY DEF PagesInv
<1> QED
  BY <1>1, PagesInvariance, PTL

(* kernel_main and kernel_thread, which ignore that they may get no page,  *)
(* get theirs as soon as there are three pages at all.                     *)
THEOREM EarlyPages == OneAllocator => (Spec => []EarlyCallsSucceed)
<1>1. PagesInv => EarlyCallsSucceed
  <2> SUFFICES ASSUME PagesInv, NEW t \in Procs, at[t] = "probe",
                      t = Boot \/ caller[t] = "move_to_user_mode"
               PROVE  i[t] < PageNum
    BY DEF EarlyCallsSucceed
  <2>1. t \in {0, Boot} /\ NoProgram
    BY OneInside DEF NoProgram
  <2>2. i[t] <= nr_tasks /\ nr_tasks <= 2
    BY <2>1 DEF PagesInv, EarlyMap
  <2> QED
    BY <2>2, ConstantFacts DEF PagesInv, TypeOK
<1> QED
  BY <1>1, PagesInvariance, PTL

(* Under the same condition no page is a stack and a task_struct at once.  *)
THEOREM StacksStayApart == OneAllocator => (Spec => []StacksApart)
<1>1. Exclusive => StacksApart
  BY DEF Exclusive, StacksApart
<1> QED
  BY <1>1, PagesExclusive, PTL
=============================================================================
