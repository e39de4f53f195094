------------------------------ MODULE EntryProofs ------------------------------
(***************************************************************************)
(* Proofs about Entry, for any number of tasks and any system call         *)
(* numbers: contexts come back, get_task_pt_regs finds the program's       *)
(* frame, and frames do not pile up.  All of it is for a kernel in which   *)
(* no interrupt comes inside kernel_exit 0.                                *)
(*                                                                         *)
(* A step is the running task's: what holds of the others goes on to hold  *)
(* because nothing of theirs is touched (OthersKept), and what holds of    *)
(* the running task is shown action by action.                             *)
(***************************************************************************)
EXTENDS Entry, SequenceTheorems, TLAPS

(* The constants.                                                          *)
LEMMA ConstantFacts ==
  /\ MaxTasks \in Nat /\ MaxTasks >= 2 /\ SysNos \subseteq Nat
  /\ 0 \in Tasks /\ 1 \in Tasks /\ Tasks \subseteq Nat /\ NoTask \notin Tasks
BY EntryAssumption DEF Tasks, NoTask

(* A frame more and a frame less on a stack.                               *)
LEMMA PushFacts ==
  ASSUME NEW S, NEW s \in Seq(S), NEW f \in S
  PROVE  /\ Append(s, f) \in Seq(S)
         /\ Len(Append(s, f)) = Len(s) + 1
         /\ \A k \in 1 .. Len(s) : Append(s, f)[k] = s[k]
         /\ Append(s, f)[Len(s) + 1] = f
OBVIOUS

LEMMA PopFacts ==
  ASSUME NEW S, NEW s \in Seq(S), Len(s) > 0
  PROVE  /\ Front(s) \in Seq(S)
         /\ Len(Front(s)) = Len(s) - 1
         /\ \A k \in 1 .. Len(s) - 1 : Front(s)[k] = s[k]
         /\ Last(s) = s[Len(s)] /\ Last(s) \in S
<1>1. Len(s) \in Nat /\ \A k \in 1 .. Len(s) - 1 : s[k] \in S
  OBVIOUS
<1>2. SubSeq(s, 1, Len(s) - 1) \in Seq(S)
  BY <1>1, SubSeqProperties
<1>3. Len(SubSeq(s, 1, Len(s) - 1)) = Len(s) - 1
  <2>1. ASSUME NEW m, m = Len(s) - 1
        PROVE  Len(SubSeq(s, 1, m)) = m
    <3>1. m \in Nat /\ \A k \in 1 .. m : s[k] \in S
      BY <1>1, <2>1
    <3> QED BY <3>1, SubSeqProperties
  <2> QED BY <2>1
<1>4. \A k \in 1 .. Len(s) - 1 : SubSeq(s, 1, Len(s) - 1)[k] = s[k]
  BY <1>1
<1>5. s[Len(s)] \in S
  BY <1>1
<1> QED BY <1>2, <1>3, <1>4, <1>5 DEF Front, Last

(* A stack is empty when it has no frames.                                 *)
LEMMA EmptyFacts ==
  ASSUME NEW S, NEW s \in Seq(S)
  PROVE  Len(s) \in Nat /\ (s = <<>> <=> Len(s) = 0)
OBVIOUS

----------------------------------------------------------------------------
(* The registers and frames there are.                                     *)
LEMMA RegFacts ==
  /\ AllJunk \in Regs /\ Zeroed \in PtRegs
  /\ AllJunk.x0 = Junk /\ AllJunk.x8 = Junk /\ AllJunk.xr = Junk
  /\ [AllJunk EXCEPT !.xr = Kernel] \in Regs
  /\ \A v \in RegValues : [AllJunk EXCEPT !.x0 = v] \in Regs
  /\ \A f \in PtRegs : RegsOf(f) \in Regs /\ RegsOf(f).x0 = f.x0
                         /\ RegsOf(f).x8 = f.x8 /\ RegsOf(f).xr = f.xr
  /\ {Junk, Kernel, 0, 1, -1} \subseteq RegValues
BY DEF AllJunk, Zeroed, Regs, PtRegs, RegsOf, RegValues, NoTask, UserPcs, Junk

LEMMA FrameFacts ==
  ASSUME NEW r \in Regs, NEW s \in Tasks \cup {NoTask}, NEW p \in UserPcs \cup KernelPcs,
         NEW m \in {"EL0", "EL1"}
  PROVE  /\ Frame(r, s, p, m) \in PtRegs
         /\ Frame(r, s, p, m).pc = p /\ Frame(r, s, p, m).pstate = m
         /\ Frame(r, s, p, m).sp = s /\ RegsOf(Frame(r, s, p, m)) = r
         /\ Frame(r, s, p, m).x0 = r.x0 /\ Frame(r, s, p, m).x8 = r.x8
         /\ Frame(r, s, p, m).xr = r.xr
BY DEF Frame, PtRegs, Regs, RegsOf

LEMMA ChildFacts ==
  ASSUME NEW f \in PtRegs, NEW c \in Tasks, NEW arg \in {0, 1}
  PROVE  /\ ChildFrame(f, c, arg) \in PtRegs
         /\ ChildFrame(f, c, arg).x8 = arg /\ ChildFrame(f, c, arg).xr = f.xr
         /\ ChildFrame(f, c, arg).sp = c /\ ChildFrame(f, c, arg).pc = "u0"
         /\ ChildFrame(f, c, arg).pstate = f.pstate
BY DEF ChildFrame, PtRegs, RegValues, UserPcs

(* A program's registers.                                                  *)
LEMMA UserRegFacts ==
  ASSUME NEW t \in Tasks, NEW A \in SUBSET {0, 1}, NEW N \in SUBSET ({0, 1} \cup SysNos),
         NEW r \in UserRegs(t, A, N)
  PROVE  r \in Regs
BY DEF UserRegs, Regs, RegValues

----------------------------------------------------------------------------
(* What is not the running task's, before and after.                       *)
Same(t) ==
  /\ stack'[t] = stack[t] /\ resume'[t] = resume[t] /\ inside'[t] = inside[t]
  /\ want'[t] = want[t] /\ from'[t] = from[t]

Kept(t) == FramesAt(t, Where(t), Len(stack[t])) /\ RightTask(t) /\ UserFrameFound(t)

(* A task that does not run and is left alone.                             *)
LEMMA OtherKept ==
  ASSUME NEW t \in Tasks, t # cur, t # cur', Same(t), Kept(t)
  PROVE  Kept(t)'
<1>1. Where(t)' = Where(t) /\ Where(t) = resume[t]
  BY DEF Where, Same
<1>2. FramesAt(t, Where(t), Len(stack[t]))'
  BY <1>1 DEF Same, Kept, FramesAt, Interrupted, Scheduling
<1>3. Hung(t)' <=> Hung(t)
  BY <1>1 DEF Same, Hung
<1>4. RightTask(t)'
  BY <1>1, <1>3 DEF Same, Kept, RightTask, RightAt
<1>5. UserFrameFound(t)'
  BY DEF Same, Kept, UserFrameFound
<1> QED BY <1>2, <1>4, <1>5 DEF Kept

----------------------------------------------------------------------------
(* What the invariant says of the running task.                            *)
LEMMA Here ==
  ASSUME IInv
  PROVE  /\ TypeOK /\ cur \in Tasks /\ Where(cur) = pc
         /\ stack[cur] \in Seq(PtRegs) /\ Len(stack[cur]) \in Nat /\ want[cur] \in PtRegs
         /\ \A k \in 1 .. Len(stack[cur]) : stack[cur][k] \in PtRegs
         /\ FramesAt(cur, pc, Len(stack[cur])) /\ RightTask(cur) /\ RightAt(cur, pc, reg)
         /\ UserFrameFound(cur) /\ (el = "EL0" <=> pc \in UserPcs)
         /\ \A t \in Tasks : Kept(t)
<1>1. TypeOK /\ cur \in Tasks /\ Where(cur) = pc
  BY DEF IInv, TypeOK, Where
<1>2. stack[cur] \in Seq(PtRegs) /\ want[cur] \in PtRegs
  BY <1>1 DEF TypeOK
<1>3. Len(stack[cur]) \in Nat /\ \A k \in 1 .. Len(stack[cur]) : stack[cur][k] \in PtRegs
  BY <1>2
<1>4. \A t \in Tasks : Kept(t)
  BY DEF IInv, Frames, Right, PtRegsIsUserFrame, Kept
<1>5. RightAt(cur, pc, reg)
  BY <1>1, <1>4 DEF Kept, RightTask
<1> QED BY <1>1, <1>2, <1>3, <1>4, <1>5 DEF IInv, Kept

(* In the code an exception from EL0 leads to there is one frame.          *)
LEMMA ThreadHere ==
  ASSUME IInv, pc \in ThreadLocs
  PROVE  /\ Len(stack[cur]) = 1 /\ inside[cur] = "none" /\ el = "EL1"
         /\ stack[cur][1] \in PtRegs /\ Top = stack[cur][1]
         /\ want[cur].pc \in UserPcs
         /\ from[cur] # "none" =>
              SameButX0(stack[cur][1], want[cur]) /\ stack[cur][1].pstate = "EL0"
<1>1. Len(stack[cur]) = 1 /\ inside[cur] = "none"
  BY Here DEF FramesAt
<1>2. stack[cur][1] \in PtRegs /\ Top = stack[cur][1]
  BY <1>1, Here DEF Top, Last
<1>3. el = "EL1"
  BY Here DEF ThreadLocs, UserPcs, TypeOK
<1> QED BY <1>1, <1>2, <1>3, Here DEF RightTask, UserFrameFound

(* Where do_fork is not: elsewhere in that code, in EL0, in the scheduler. *)
LEMMA NotInFork ==
  LET Elsewhere == UserPcs \cup (ThreadLocs \ {"fork_copy"}) \cup SchedLocs \cup {"err_hang"}
  IN /\ TypeOK /\ FramesAt(cur, pc, Len(stack[cur])) /\ pc \in Elsewhere => ~InFork
     /\ TypeOK' /\ FramesAt(cur, pc, Len(stack[cur]))' /\ pc' \in Elsewhere => ~InFork'
<1>1. ASSUME TypeOK, FramesAt(cur, pc, Len(stack[cur])),
             pc \in UserPcs \cup (ThreadLocs \ {"fork_copy"}) \cup SchedLocs \cup {"err_hang"}
      PROVE  ~InFork
  <2>1. PICK n : n = Len(stack[cur]) /\ FramesAt(cur, pc, n)
    BY <1>1
  <2>2. n > 1 => pc \in SchedLocs \cup {"err_hang"}
    <3>1. pc \in UserPcs => n = 0
      BY <2>1 DEF FramesAt
    <3>2. pc \in ThreadLocs => n = 1
      BY <2>1 DEF FramesAt
    <3> QED BY <1>1, <3>1, <3>2
  <2>3. pc \in SchedLocs /\ n > 1 =>
          \/ n = 2 /\ stack[cur][2].pc # "fork_copy"
          \/ n = 3 /\ stack[cur][3].pc = "err_hang"
    <3>1. pc \in SchedLocs => Scheduling(cur, n)
      BY <2>1 DEF FramesAt
    <3> QED BY <3>1, <2>1 DEF Scheduling, Interrupted
  <2> QED BY <1>1, <2>1, <2>2, <2>3 DEF InFork, Hung, Where, ThreadLocs, SchedLocs, UserPcs
<1>2. ASSUME TypeOK', FramesAt(cur, pc, Len(stack[cur]))',
             pc' \in UserPcs \cup (ThreadLocs \ {"fork_copy"}) \cup SchedLocs \cup {"err_hang"}
      PROVE  ~InFork'
  <2>1. PICK n : n = Len(stack'[cur']) /\ FramesAt(cur, pc, n)'
    BY <1>2
  <2>2. n > 1 => pc' \in SchedLocs \cup {"err_hang"}
    <3>1. pc' \in UserPcs => n = 0
      BY <2>1 DEF FramesAt
    <3>2. pc' \in ThreadLocs => n = 1
      BY <2>1 DEF FramesAt
    <3> QED BY <1>2, <3>1, <3>2
  <2>3. pc' \in SchedLocs /\ n > 1 =>
          \/ n = 2 /\ stack'[cur'][2].pc # "fork_copy"
          \/ n = 3 /\ stack'[cur'][3].pc = "err_hang"
    <3>1. pc' \in SchedLocs => Scheduling(cur, n)'
      BY <2>1 DEF FramesAt
    <3> QED BY <3>1, <2>1 DEF Scheduling, Interrupted
  <2> QED BY <1>2, <2>1, <2>2, <2>3 DEF InFork, Hung, Where, ThreadLocs, SchedLocs, UserPcs
<1> QED BY <1>1, <1>2

(* What has been copied is nobody else's: it is left alone.                *)
LEMMA CopyKept ==
  ASSUME IInv, cur' = cur, resume' = resume, want'[cur] = want[cur],
         \A t \in Tasks \ {cur} : stack'[t] = stack[t], InFork' => InFork
  PROVE  CopyUnderWay'
<1>1. SUFFICES ASSUME InFork
               PROVE  \E c \in Tasks : /\ IsNew(c)' /\ Len(stack'[c]) = 1
                                       /\ stack'[c][1].xr = want'[cur'].xr
  BY DEF CopyUnderWay
<1>2. PICK c \in Tasks : IsNew(c) /\ Len(stack[c]) = 1 /\ stack[c][1].xr = want[cur].xr
  BY <1>1 DEF IInv, CopyUnderWay
<1>3. c # cur /\ IsNew(c)'
  BY <1>2 DEF IInv, Born, IsNew
<1> QED BY <1>2, <1>3

(* So it is for the invariant to hold afterwards.                          *)
LEMMA StepKept ==
  ASSUME IInv, TypeOK', cur' = cur, resume' = resume,
         \A t \in Tasks \ {cur} : Same(t), Kept(cur)',
         pc' \in {"fork_copy", "el1_irq", "el1_exit"} => CopyUnderWay',
         (el' = "EL0") <=> (pc' \in UserPcs), Masked', UserContextKept', ReturnStateIntact'
  PROVE  IInv'
<1>1. \A t \in Tasks : Kept(t)'
  BY Here, OtherKept
<1>2. Frames' /\ Right' /\ \A t \in Tasks : UserFrameFound(t)'
  BY <1>1 DEF Frames, Right, Kept
<1>3. Born'
  BY DEF IInv, Born, Same
<1>4. el' = "EL0" => stack'[cur'] = <<>>
  <2>1. stack'[cur'] \in Seq(PtRegs) /\ Where(cur)' = pc'
    BY Here DEF TypeOK, Where
  <2>2. pc' \in UserPcs => Len(stack'[cur']) = 0
    BY <2>1 DEF Kept, FramesAt
  <2> QED BY <2>1, <2>2, EmptyFacts
<1>5. CopyUnderWay'
  <2>1. FramesAt(cur, pc, Len(stack[cur]))'
    BY DEF Kept, Where
  <2>2. pc' \in {"fork_copy", "el1_irq", "el1_exit"} \/ ~InFork'
    BY <2>1, NotInFork DEF TypeOK, KernelPcs, ThreadLocs, SchedLocs
  <2> QED BY <2>2 DEF CopyUnderWay
<1> QED BY <1>2, <1>3, <1>4, <1>5 DEF IInv, PtRegsIsUserFrame

LEMMA KernelStepKept ==
  ASSUME IInv, TypeOK', cur' = cur, resume' = resume,
         \A t \in Tasks \ {cur} : Same(t), Kept(cur)',
         el' = "EL1", pc' \in ThreadLocs \cup SchedLocs, pc' \notin {"eret0", "fork_copy"}
  PROVE  IInv'
<1>1. pc' \notin UserPcs /\ Masked' /\ pc' \notin {"fork_copy", "el1_irq", "el1_exit"}
  BY DEF ThreadLocs, SchedLocs, UserPcs, Masked
<1> QED BY <1>1, StepKept DEF UserContextKept, ReturnStateIntact

(* The same when something of another task is touched.                     *)
LEMMA AllKept ==
  ASSUME TypeOK', \A t \in Tasks : Kept(t)', Born', el' = "EL1",
         pc' \in ThreadLocs \cup SchedLocs, pc' # "eret0",
         pc' = "fork_copy" => CopyUnderWay'
  PROVE  IInv'
<1>1. Frames' /\ Right' /\ \A t \in Tasks : UserFrameFound(t)'
  BY DEF Frames, Right, Kept
<1>2. pc' \notin UserPcs /\ Masked'
  BY DEF ThreadLocs, SchedLocs, UserPcs, Masked
<1>3. CopyUnderWay'
  <2>1. cur' \in Tasks
    BY DEF TypeOK
  <2>2. FramesAt(cur, pc, Len(stack[cur]))'
    BY <2>1 DEF Kept, Where
  <2>3. pc' = "fork_copy" \/ ~InFork'
    BY <2>2, NotInFork
  <2> QED BY <2>3 DEF CopyUnderWay
<1> QED
  BY <1>1, <1>2, <1>3 DEF IInv, PtRegsIsUserFrame, UserContextKept, ReturnStateIntact

(* What there is to show of the running task, for a step to such code, ... *)
LEMMA ThreadKept ==
  ASSUME cur \in Tasks, cur' = cur, pc' \in ThreadLocs, Len(stack'[cur]) = 1,
         inside'[cur] = "none", RightAt(cur, pc, reg)', UserFrameFound(cur)',
         from'[cur] = "start" => want'[cur].x0 = want'[cur].x8, want'[cur].pc \in UserPcs
  PROVE  Kept(cur)'
<1>1. Where(cur)' = pc'
  BY DEF Where
<1>2. FramesAt(cur, Where(cur), Len(stack[cur]))'
  BY <1>1 DEF FramesAt, ThreadLocs, SchedLocs, UserPcs
<1>3. ~Hung(cur)'
  BY <1>1 DEF Hung, ThreadLocs
<1>4. RightTask(cur)'
  BY <1>1, <1>3 DEF RightTask
<1> QED BY <1>2, <1>4 DEF Kept

(* ... and to the scheduler.                                               *)
LEMMA SchedKept ==
  ASSUME IInv, TypeOK', cur' = cur, pc' \in SchedLocs, stack'[cur] = stack[cur],
         want'[cur] = want[cur], from'[cur] = from[cur], el = "EL1",
         inside'[cur] # "none", Scheduling(cur, Len(stack[cur]))', pc # "err_hang",
         inside'[cur] = "work" => from[cur] \in {"start", "irq"}
  PROVE  Kept(cur)'
<1>1. Where(cur)' = pc' /\ Where(cur) = pc
  BY DEF Where
<1>2. FramesAt(cur, Where(cur), Len(stack[cur]))'
  BY <1>1 DEF FramesAt, ThreadLocs, SchedLocs, UserPcs
<1>3. Hung(cur)' <=> Hung(cur)
  BY <1>1 DEF Hung, SchedLocs
<1>4. RightAt(cur, pc, reg)'
  BY DEF RightAt, SchedLocs
<1>5. RightTask(cur)'
  BY <1>1, <1>3, <1>4, Here DEF RightTask, RightAt
<1>6. UserFrameFound(cur)'
  BY Here DEF UserFrameFound
<1> QED BY <1>2, <1>5, <1>6 DEF Kept
----------------------------------------------------------------------------
(* Edits of the one frame there is.                                        *)
LEMMA OneFrame ==
  ASSUME NEW s \in Seq(PtRegs), Len(s) = 1, NEW f \in PtRegs
  PROVE  [s EXCEPT ![1] = f] \in Seq(PtRegs) /\ Len([s EXCEPT ![1] = f]) = 1
         /\ [s EXCEPT ![1] = f][1] = f
OBVIOUS

LEMMA EditFacts ==
  ASSUME NEW s \in Seq(PtRegs), Len(s) = 1, NEW v \in RegValues
  PROVE  LET e == [s EXCEPT ![1].x0 = v] IN
         /\ e \in Seq(PtRegs) /\ Len(e) = 1 /\ e[1].x0 = v
         /\ e[1].x8 = s[1].x8 /\ e[1].xr = s[1].xr /\ e[1].sp = s[1].sp
         /\ e[1].pc = s[1].pc /\ e[1].pstate = s[1].pstate
<1>1. s[1] \in PtRegs
  OBVIOUS
<1>2. [s[1] EXCEPT !.x0 = v] \in PtRegs
  BY <1>1 DEF PtRegs
<1>3. [s EXCEPT ![1].x0 = v] \in Seq(PtRegs) /\ Len([s EXCEPT ![1].x0 = v]) = 1
  BY <1>2
<1> QED BY <1>1, <1>2, <1>3 DEF PtRegs

LEMMA EditHere ==
  ASSUME IInv, pc \in ThreadLocs, NEW v \in RegValues,
         stack' = [stack EXCEPT ![cur][1].x0 = v]
  PROVE  /\ stack' \in [Tasks -> Seq(PtRegs)]
         /\ \A t \in Tasks \ {cur} : stack'[t] = stack[t]
         /\ Len(stack'[cur]) = 1 /\ stack'[cur][1].x0 = v
         /\ SameButX0(stack'[cur][1], stack[cur][1])
         /\ stack'[cur][1].pstate = stack[cur][1].pstate
<1>1. stack \in [Tasks -> Seq(PtRegs)] /\ cur \in Tasks /\ Len(stack[cur]) = 1
  BY Here, ThreadHere DEF TypeOK
<1>2. stack'[cur] = [stack[cur] EXCEPT ![1].x0 = v]
  BY <1>1
<1>3. stack'[cur] \in Seq(PtRegs)
  BY <1>1, <1>2, EditFacts
<1> QED BY <1>1, <1>2, <1>3, EditFacts DEF SameButX0

----------------------------------------------------------------------------
(* Exceptions from EL0.                                                    *)
LEMMA LeaveHere ==
  ASSUME IInv, NEW A \in SUBSET {0, 1}, NEW N \in SUBSET ({0, 1} \cup SysNos),
         NEW r \in UserRegs(cur, A, N),
         NEW p \in UserPcs, NEW how \in {"irq", "svc", "fault"}, LeaveEL0(r, p, how)
  PROVE  /\ stack' \in [Tasks -> Seq(PtRegs)] /\ want' \in [Tasks -> PtRegs]
         /\ from' \in [Tasks -> {"none", "start", "svc", "irq", "fault"}]
         /\ elr' \in UserPcs /\ spsr' = "EL0" /\ r \in Regs
         /\ \A t \in Tasks \ {cur} :
              stack'[t] = stack[t] /\ want'[t] = want[t] /\ from'[t] = from[t]
         /\ Len(stack'[cur]) = 1 /\ stack'[cur] # <<>> /\ inside[cur] = "none"
         /\ stack'[cur][1] = want'[cur] /\ want'[cur].pstate = "EL0"
         /\ want'[cur].pc \in UserPcs /\ RegsOf(want'[cur]) = r /\ from'[cur] = how
<1> DEFINE f == Frame(r, sp_el0, p, "EL0")
<1>1. r \in Regs
  BY Here, UserRegFacts
<1>2. sp_el0 \in Tasks \cup {NoTask} /\ p \in UserPcs \cup KernelPcs
  BY Here DEF TypeOK
<1>3. f \in PtRegs /\ f.pc = p /\ f.pstate = "EL0" /\ RegsOf(f) = r
  BY <1>1, <1>2, FrameFacts
<1> HIDE DEF f
<1>4. stack' = [stack EXCEPT ![cur] = Append(@, f)] /\ want' = [want EXCEPT ![cur] = f]
      /\ from' = [from EXCEPT ![cur] = how] /\ elr' = p /\ spsr' = "EL0"
  BY DEF LeaveEL0, kernel_entry, f
<1>5. el = "EL0"
  BY DEF LeaveEL0
<1>6. stack[cur] = <<>> /\ inside[cur] = "none"
  BY <1>5, Here, EmptyFacts DEF FramesAt
<1>7. Append(stack[cur], f) \in Seq(PtRegs) /\ Len(Append(stack[cur], f)) = 1
      /\ Append(stack[cur], f)[1] = f
  BY <1>3, <1>6
<1>8. stack \in [Tasks -> Seq(PtRegs)] /\ want \in [Tasks -> PtRegs] /\ cur \in Tasks
      /\ from \in [Tasks -> {"none", "start", "svc", "irq", "fault"}]
  BY Here DEF TypeOK
<1>9. stack'[cur] = Append(stack[cur], f) /\ want'[cur] = f /\ from'[cur] = how
  BY <1>4, <1>8
<1>10. stack' \in [Tasks -> Seq(PtRegs)] /\ want' \in [Tasks -> PtRegs]
       /\ from' \in [Tasks -> {"none", "start", "svc", "irq", "fault"}]
  BY <1>3, <1>4, <1>7, <1>8
<1>11. stack'[cur] # <<>>
  <2>1. Len(stack'[cur]) = 1
    BY <1>7, <1>9
  <2> QED BY <2>1
<1> QED BY <1>1, <1>3, <1>4, <1>6, <1>7, <1>8, <1>9, <1>10, <1>11

LEMMA El0Kept ==
  ASSUME IInv, El0Irq \/ El0Svc \/ El0Fault
  PROVE  IInv'
<1>1. PICK A \in SUBSET {0, 1}, N \in SUBSET ({0, 1} \cup SysNos) :
        \E r \in UserRegs(cur, A, N), p \in UserPcs, how \in {"irq", "svc", "fault"} :
          /\ LeaveEL0(r, p, how)
          /\ \/ how = "irq" /\ pc' = "ret_to_user" /\ reg' = AllJunk
             \/ how = "svc" /\ pc' = "el0_svc" /\ reg' = r
             \/ how = "fault" /\ pc' = "sync_error" /\ reg' = r
  BY DEF El0Irq, El0Svc, El0Fault
<1>2. PICK r \in UserRegs(cur, A, N), p \in UserPcs, how \in {"irq", "svc", "fault"} :
          /\ LeaveEL0(r, p, how)
          /\ \/ how = "irq" /\ pc' = "ret_to_user" /\ reg' = AllJunk
             \/ how = "svc" /\ pc' = "el0_svc" /\ reg' = r
             \/ how = "fault" /\ pc' = "sync_error" /\ reg' = r
  BY <1>1
<1>3. /\ cur' = cur /\ resume' = resume /\ inside' = inside /\ gone' = gone
      /\ sp_el0' = sp_el0 /\ irq_on' \in BOOLEAN
  BY DEF El0Irq, El0Svc, El0Fault
<1>4. el' = "EL1"
  BY <1>2 DEF LeaveEL0
<1>5. /\ stack' \in [Tasks -> Seq(PtRegs)] /\ want' \in [Tasks -> PtRegs]
      /\ from' \in [Tasks -> {"none", "start", "svc", "irq", "fault"}]
      /\ elr' \in UserPcs /\ spsr' = "EL0" /\ r \in Regs
      /\ \A t \in Tasks \ {cur} :
           stack'[t] = stack[t] /\ want'[t] = want[t] /\ from'[t] = from[t]
      /\ Len(stack'[cur]) = 1 /\ stack'[cur] # <<>> /\ inside[cur] = "none"
      /\ stack'[cur][1] = want'[cur] /\ want'[cur].pstate = "EL0"
      /\ want'[cur].pc \in UserPcs /\ RegsOf(want'[cur]) = r /\ from'[cur] = how
  BY <1>2, LeaveHere
<1>6. reg' \in Regs
  BY <1>2, <1>5, RegFacts
<1>7. pc' \in ThreadLocs /\ pc' \notin {"eret0", "fork_copy"} /\ pc' \in KernelPcs
      /\ pc' \notin UserPcs
  BY <1>2 DEF ThreadLocs, KernelPcs, UserPcs
<1>8. TypeOK'
  BY <1>3, <1>4, <1>5, <1>6, <1>7, Here DEF TypeOK
<1>9. RightAt(cur, pc, reg)'
  BY <1>2, <1>3, <1>5 DEF RightAt
<1>10. UserFrameFound(cur)'
  BY <1>3, <1>5 DEF UserFrameFound, SameButX0
<1>11. Kept(cur)'
  BY <1>2, <1>3, <1>5, <1>7, <1>9, <1>10, Here, ThreadKept
<1>12. \A t \in Tasks \ {cur} : Same(t)
  BY <1>3, <1>5 DEF Same
<1> QED BY <1>3, <1>4, <1>7, <1>8, <1>11, <1>12, KernelStepKept
----------------------------------------------------------------------------
(* The way out to EL0.                                                     *)
LEMMA RetFromForkKept ==
  ASSUME IInv, RetFromFork
  PROVE  IInv'
<1>1. /\ pc = "ret_from_fork" /\ cur' = cur /\ resume' = resume /\ inside' = inside
      /\ stack' = stack /\ want' = want /\ from' = from /\ el' = el
  BY DEF RetFromFork, histVars
<1>2. pc \in ThreadLocs
  BY <1>1 DEF ThreadLocs
<1>3. reg' \in Regs /\ (cur < 2 => reg'.xr = Kernel)
  BY RegFacts DEF RetFromFork, AllJunk
<1>4. pc' = IF cur < 2 THEN "fn" ELSE "ret_to_user"
  BY DEF RetFromFork
<1>5. pc' \in ThreadLocs /\ pc' \notin {"eret0", "fork_copy"} /\ pc' \in KernelPcs
      /\ pc' \notin UserPcs
  BY <1>4 DEF ThreadLocs, KernelPcs, UserPcs
<1>6. TypeOK'
  BY <1>1, <1>3, <1>5, Here DEF TypeOK, RetFromFork
<1>7. RightAt(cur, pc, reg)'
  BY <1>1, <1>3, <1>4, Here DEF RightAt
<1>8. UserFrameFound(cur)'
  BY <1>1, <1>2, Here, ThreadHere DEF UserFrameFound
<1>9. Kept(cur)'
  <2>1. from[cur] = "start" => want[cur].x0 = want[cur].x8
    BY Here DEF RightTask
  <2> QED BY <1>1, <1>2, <1>5, <1>7, <1>8, <2>1, Here, ThreadHere, ThreadKept
<1>10. \A t \in Tasks \ {cur} : Same(t)
  BY <1>1 DEF Same
<1> QED BY <1>1, <1>2, <1>5, <1>6, <1>9, <1>10, ThreadHere, KernelStepKept

LEMMA MoveToUserModeKept ==
  ASSUME IInv, MoveToUserMode
  PROVE  IInv'
<1> DEFINE f == [Zeroed EXCEPT !.sp = cur]
<1>1. /\ pc = "fn" /\ cur' = cur /\ resume' = resume /\ inside' = inside
      /\ pc' = "ret_to_user" /\ el' = el /\ reg' = AllJunk
      /\ stack' = [stack EXCEPT ![cur][1] = f] /\ want' = [want EXCEPT ![cur] = f]
      /\ from' = [from EXCEPT ![cur] = "start"]
  BY DEF MoveToUserMode
<1>2. pc \in ThreadLocs
  BY <1>1 DEF ThreadLocs
<1>3. f \in PtRegs /\ f.x0 = f.x8 /\ f.pstate = "EL0" /\ f.pc \in UserPcs
  BY Here DEF Zeroed, PtRegs, RegValues, UserPcs
<1> HIDE DEF f
<1>4. /\ stack \in [Tasks -> Seq(PtRegs)] /\ want \in [Tasks -> PtRegs] /\ cur \in Tasks
      /\ from \in [Tasks -> {"none", "start", "svc", "irq", "fault"}]
      /\ Len(stack[cur]) = 1
  BY <1>2, Here, ThreadHere DEF TypeOK
<1>5. [stack[cur] EXCEPT ![1] = f] \in Seq(PtRegs) /\ Len([stack[cur] EXCEPT ![1] = f]) = 1
      /\ [stack[cur] EXCEPT ![1] = f][1] = f
  <2>1. stack[cur] \in Seq(PtRegs)
    BY <1>4
  <2> QED BY <1>3, <1>4, <2>1, OneFrame
<1>6. stack'[cur] = [stack[cur] EXCEPT ![1] = f] /\ want'[cur] = f /\ from'[cur] = "start"
  BY <1>1, <1>4
<1>7. /\ stack' \in [Tasks -> Seq(PtRegs)] /\ want' \in [Tasks -> PtRegs]
      /\ from' \in [Tasks -> {"none", "start", "svc", "irq", "fault"}]
      /\ \A t \in Tasks \ {cur} :
           stack'[t] = stack[t] /\ want'[t] = want[t] /\ from'[t] = from[t]
  BY <1>1, <1>3, <1>4, <1>5
<1>8. pc' \in ThreadLocs /\ pc' \notin {"eret0", "fork_copy"} /\ pc' \in KernelPcs
      /\ pc' \notin UserPcs
  BY <1>1 DEF ThreadLocs, KernelPcs, UserPcs
<1>9. TypeOK'
  BY <1>1, <1>7, <1>8, Here, RegFacts DEF TypeOK, MoveToUserMode
<1>10. RightAt(cur, pc, reg)'
  BY <1>1, <1>6 DEF RightAt
<1>11. UserFrameFound(cur)'
  <2>1. stack'[cur] # <<>>
    BY <1>5, <1>6
  <2> QED BY <1>1, <1>3, <1>5, <1>6, <2>1 DEF UserFrameFound, SameButX0
<1>12. Kept(cur)'
  BY <1>1, <1>2, <1>3, <1>5, <1>6, <1>8, <1>10, <1>11, Here, ThreadHere, ThreadKept
<1>13. \A t \in Tasks \ {cur} : Same(t)
  BY <1>1, <1>7 DEF Same
<1> QED BY <1>1, <1>2, <1>8, <1>9, <1>12, <1>13, ThreadHere, KernelStepKept

LEMMA NoWorkKept ==
  ASSUME IInv, NoWork
  PROVE  IInv'
<1>1. /\ pc = "ret_to_user" /\ cur' = cur /\ resume' = resume /\ inside' = inside
      /\ stack' = stack /\ want' = want /\ from' = from /\ el' = el /\ pc' = "finish"
  BY DEF NoWork, histVars
<1>2. pc \in ThreadLocs
  BY <1>1 DEF ThreadLocs
<1>3. pc' \in ThreadLocs /\ pc' \notin {"eret0", "fork_copy"} /\ pc' \in KernelPcs
      /\ pc' \notin UserPcs
  BY <1>1 DEF ThreadLocs, KernelPcs, UserPcs
<1>4. TypeOK'
  BY <1>1, <1>3, Here DEF TypeOK, NoWork
<1>5. RightAt(cur, pc, reg)'
  BY <1>1, Here DEF RightAt
<1>6. UserFrameFound(cur)'
  BY <1>1, <1>2, Here, ThreadHere DEF UserFrameFound
<1>7. Kept(cur)'
  <2>1. from[cur] = "start" => want[cur].x0 = want[cur].x8
    BY Here DEF RightTask
  <2> QED BY <1>1, <1>2, <1>3, <1>5, <1>6, <2>1, Here, ThreadHere, ThreadKept
<1>8. \A t \in Tasks \ {cur} : Same(t)
  BY <1>1 DEF Same
<1> QED BY <1>1, <1>2, <1>3, <1>4, <1>7, <1>8, ThreadHere, KernelStepKept

(* Both ways out put a value into the frame's x0: x8 of a program that     *)
(* starts, which its frame has as want says; or the result.                *)
LEMMA X0StoreKept ==
  ASSUME IInv, pc \in ThreadLocs, pc' = "exit0", NEW v \in RegValues,
         stack' = [stack EXCEPT ![cur][1].x0 = v], from[cur] # "none",
         from[cur] # "irq" => v = want[cur].x0,
         irq_on' \in BOOLEAN, UNCHANGED <<cur, el, reg, elr, spsr, sp_el0, resume, inside,
                                         gone, histVars>>
  PROVE  IInv'
<1>1. /\ cur' = cur /\ resume' = resume /\ inside' = inside /\ want' = want
      /\ from' = from /\ el' = el
  BY DEF histVars
<1>2. pc' \in ThreadLocs /\ pc' \notin {"eret0", "fork_copy"} /\ pc' \in KernelPcs
      /\ pc' \notin UserPcs
  BY DEF ThreadLocs, KernelPcs, UserPcs
<1>3. TypeOK'
  BY <1>1, <1>2, Here, EditHere DEF TypeOK, histVars
<1>4. RightAt(cur, pc, reg)'
  BY <1>1, EditHere DEF RightAt
<1>5. UserFrameFound(cur)'
  <2>1. stack'[cur] # <<>>
    <3>1. Len(stack'[cur]) = 1
      BY EditHere
    <3> QED BY <3>1
  <2>2. SameButX0(stack'[cur][1], want[cur]) /\ stack'[cur][1].pstate = "EL0"
    BY EditHere, ThreadHere DEF SameButX0
  <2> QED BY <1>1, <2>1, <2>2 DEF UserFrameFound
<1>6. Kept(cur)'
  <2>1. from[cur] = "start" => want[cur].x0 = want[cur].x8
    BY Here DEF RightTask
  <2> QED BY <1>1, <1>2, <1>4, <1>5, <2>1, Here, EditHere, ThreadHere, ThreadKept
<1>7. \A t \in Tasks \ {cur} : Same(t)
  BY <1>1, EditHere DEF Same
<1> QED BY <1>1, <1>2, <1>3, <1>6, <1>7, ThreadHere, KernelStepKept

LEMMA FinishRetToUserKept ==
  ASSUME IInv, FinishRetToUser
  PROVE  IInv'
<1>1. pc = "finish" /\ pc \in ThreadLocs /\ from[cur] \in {"start", "irq"}
  BY Here DEF FinishRetToUser, ThreadLocs, RightAt
<1>2. Top.x8 \in RegValues /\ Len(stack[cur]) = 1 /\ Top = stack[cur][1]
  BY <1>1, ThreadHere DEF PtRegs
<1>3. stack' = [stack EXCEPT ![cur][1].x0 = Top.x8]
  BY <1>2 DEF FinishRetToUser
<1>4. from[cur] # "irq" => Top.x8 = want[cur].x0
  BY <1>1, <1>2, Here, ThreadHere DEF RightTask, SameButX0
<1>5. irq_on' \in BOOLEAN
  BY Here DEF TypeOK, FinishRetToUser
<1> QED BY <1>1, <1>2, <1>3, <1>4, <1>5, X0StoreKept DEF FinishRetToUser

LEMMA RetFromSyscallKept ==
  ASSUME IInv, RetFromSyscall
  PROVE  IInv'
<1>1. pc = "ret_from_syscall" /\ pc \in ThreadLocs /\ from[cur] = "svc"
      /\ reg.x0 = want[cur].x0
  BY Here DEF RetFromSyscall, ThreadLocs, RightAt
<1>2. reg.x0 \in RegValues /\ Len(stack[cur]) = 1
  BY <1>1, Here, ThreadHere DEF TypeOK, Regs
<1>3. stack' = [stack EXCEPT ![cur][1].x0 = reg.x0] /\ irq_on' \in BOOLEAN
  BY <1>2 DEF RetFromSyscall
<1> QED BY <1>1, <1>2, <1>3, X0StoreKept DEF RetFromSyscall

LEMMA KernelExitLoadKept ==
  ASSUME IInv, KernelExitLoad
  PROVE  IInv'
<1>1. /\ pc = "exit0" /\ cur' = cur /\ resume' = resume /\ inside' = inside
      /\ stack' = stack /\ want' = want /\ from' = from /\ el' = el /\ pc' = "eret0"
      /\ elr' = Top.pc /\ spsr' = Top.pstate /\ sp_el0' = Top.sp
  BY DEF KernelExitLoad, LoadState, histVars
<1>2. pc \in ThreadLocs
  BY <1>1 DEF ThreadLocs
<1>3. pc' \in ThreadLocs /\ pc' \in KernelPcs /\ pc' \notin UserPcs
  BY <1>1 DEF ThreadLocs, KernelPcs, UserPcs
<1>4. /\ Top.pc \in UserPcs \cup KernelPcs /\ Top.pstate \in {"EL0", "EL1"}
      /\ Top.sp \in Tasks \cup {NoTask}
  BY <1>2, ThreadHere DEF PtRegs
<1>5. TypeOK'
  BY <1>1, <1>3, <1>4, Here DEF TypeOK, KernelExitLoad
<1>6. RightAt(cur, pc, reg)'
  BY <1>1, Here DEF RightAt
<1>7. UserFrameFound(cur)'
  BY <1>1, <1>2, Here, ThreadHere DEF UserFrameFound
<1>8. Kept(cur)'
  <2>1. from[cur] = "start" => want[cur].x0 = want[cur].x8
    BY Here DEF RightTask
  <2> QED BY <1>1, <1>2, <1>3, <1>6, <1>7, <2>1, Here, ThreadHere, ThreadKept
<1>9. \A t \in Tasks \ {cur} : Same(t)
  BY <1>1 DEF Same
<1>10. ReturnStateIntact' /\ UserContextKept' /\ Masked'
  BY <1>1, <1>2, ThreadHere DEF ReturnStateIntact, UserContextKept, Masked, Top
<1> QED BY <1>1, <1>2, <1>3, <1>5, <1>8, <1>9, <1>10, ThreadHere, StepKept
----------------------------------------------------------------------------
(* System calls.  What they do to pt_regs is no more than a change of x0.  *)
LEMMA ReturnsKept ==
  ASSUME IInv, pc = "el0_svc", NEW r \in RegValues, Returns(r),
         stack' \in [Tasks -> Seq(PtRegs)], \A t \in Tasks \ {cur} : stack'[t] = stack[t],
         Len(stack'[cur]) = 1, SameButX0(stack'[cur][1], stack[cur][1]),
         stack'[cur][1].pstate = stack[cur][1].pstate,
         UNCHANGED <<cur, el, irq_on, elr, spsr, sp_el0, resume, inside, gone, from>>
  PROVE  IInv'
<1>1. pc \in ThreadLocs /\ pc' = "ret_from_syscall" /\ from[cur] = "svc"
  BY Here DEF Returns, ThreadLocs, RightAt
<1>2. pc' \in ThreadLocs /\ pc' \notin {"eret0", "fork_copy"} /\ pc' \in KernelPcs
  BY <1>1 DEF ThreadLocs, KernelPcs
<1>3. reg' \in Regs /\ reg'.x0 = r
  BY RegFacts DEF Returns, AllJunk
<1>4. /\ want \in [Tasks -> PtRegs] /\ cur \in Tasks /\ want' = [want EXCEPT ![cur].x0 = r]
  BY Here DEF TypeOK, Returns
<1>5. /\ want'[cur] = [want[cur] EXCEPT !.x0 = r] /\ want[cur] \in PtRegs
      /\ \A t \in Tasks \ {cur} : want'[t] = want[t]
  BY <1>4
<1>6. /\ want'[cur] \in PtRegs /\ want'[cur].x0 = r /\ SameButX0(want'[cur], want[cur])
      /\ want'[cur].pc = want[cur].pc
  BY <1>5 DEF PtRegs, SameButX0
<1>7. want' \in [Tasks -> PtRegs]
  BY <1>4, <1>5, <1>6
<1>8. TypeOK'
  BY <1>2, <1>3, <1>7, Here DEF TypeOK
<1>9. RightAt(cur, pc, reg)'
  BY <1>1, <1>3, <1>6 DEF RightAt
<1>10. UserFrameFound(cur)'
  <2>1. stack'[cur] # <<>>
    OBVIOUS
  <2> QED BY <1>1, <1>6, <2>1, ThreadHere DEF UserFrameFound, SameButX0
<1>11. Kept(cur)'
  BY <1>1, <1>2, <1>6, <1>9, <1>10, Here, ThreadHere, ThreadKept
<1>12. \A t \in Tasks \ {cur} : Same(t)
  BY <1>5 DEF Same
<1> QED BY <1>1, <1>2, <1>8, <1>11, <1>12, ThreadHere, KernelStepKept

LEMMA SysWriteKept ==
  ASSUME IInv, SysWrite
  PROVE  IInv'
<1>1. pc = "el0_svc" /\ pc \in ThreadLocs
  BY DEF SysWrite, ThreadLocs
<1>2. PICK printed \in {0, 1}, r \in {0, 1} :
        stack' = [stack EXCEPT ![cur][1].x0 = printed] /\ Returns(r)
  BY DEF SysWrite
<1>3. printed \in RegValues /\ r \in RegValues
  BY RegFacts
<1> QED BY <1>1, <1>2, <1>3, EditHere, ReturnsKept DEF SysWrite

LEMMA SysMallocKept ==
  ASSUME IInv, SysMalloc \/ SysCloneFails
  PROVE  IInv'
<1>1. pc = "el0_svc" /\ pc \in ThreadLocs /\ stack' = stack
  BY DEF SysMalloc, SysCloneFails, ThreadLocs
<1>2. PICK r \in RegValues : Returns(r)
  BY RegFacts DEF SysMalloc, SysCloneFails
<1>3. Len(stack[cur]) = 1 /\ SameButX0(stack[cur][1], stack[cur][1])
  BY <1>1, ThreadHere DEF SameButX0
<1> QED BY <1>1, <1>2, <1>3, Here, ReturnsKept DEF SysMalloc, SysCloneFails, TypeOK

(* do_fork writes half a frame on the stack of a task that is not one yet. *)
LEMMA SysCloneKept ==
  ASSUME IInv, SysClone
  PROVE  IInv'
<1>1. pc = "el0_svc" /\ pc \in ThreadLocs /\ from[cur] = "svc"
  BY Here DEF SysClone, ThreadLocs, RightAt
<1>2. PICK c \in Tasks :
        IsNew(c) /\ stack' = [stack EXCEPT ![c] = <<HalfCopied(stack[cur][1])>>]
  BY DEF SysClone
<1>3. /\ cur' = cur /\ el' = el /\ inside' = inside /\ gone' = gone /\ resume' = resume
      /\ want' = want /\ from' = from /\ pc' = "fork_copy" /\ reg' = AllJunk
      /\ irq_on' = irq_on /\ elr' = elr /\ spsr' = spsr /\ sp_el0' = sp_el0
  BY DEF SysClone, histVars
<1>4. resume[c] = "none" /\ c # cur /\ from[c] = "none" /\ IsNew(c)'
  BY <1>2, <1>3 DEF IInv, Born, IsNew
<1>5. /\ TypeOK /\ cur \in Tasks /\ stack[cur][1] \in PtRegs /\ Len(stack[cur]) = 1
      /\ SameButX0(stack[cur][1], want[cur]) /\ inside[cur] = "none"
  BY <1>1, Here, ThreadHere
<1>6. PICK f : f = HalfCopied(stack[cur][1])
  OBVIOUS
<1>7. f \in PtRegs /\ f.xr = want[cur].xr
  <2>1. /\ Zeroed.sp \in Tasks \cup {NoTask} /\ Zeroed.pc \in UserPcs
        /\ Zeroed.pstate = "EL0"
    BY DEF Zeroed, UserPcs
  <2> QED BY <1>5, <1>6, <2>1, RegFacts DEF HalfCopied, PtRegs, SameButX0
<1>8. <<f>> \in Seq(PtRegs) /\ Len(<<f>>) = 1 /\ <<f>>[1] = f
  BY <1>7
<1>9. /\ stack' \in [Tasks -> Seq(PtRegs)] /\ stack'[c] = <<f>>
      /\ \A t \in Tasks \ {c} : stack'[t] = stack[t]
  BY <1>2, <1>5, <1>6, <1>8 DEF TypeOK
<1>10. pc' \in ThreadLocs /\ pc' # "eret0" /\ pc' \in KernelPcs
  BY <1>3 DEF ThreadLocs, KernelPcs
<1>11. TypeOK'
  BY <1>3, <1>5, <1>9, <1>10, RegFacts DEF TypeOK
<1>12. Kept(cur)'
  <2>1. RightAt(cur, pc, reg)'
    BY <1>1, <1>3 DEF RightAt
  <2>2. UserFrameFound(cur)'
    <3>1. stack[cur] # <<>>
      BY <1>5
    <3> QED BY <1>1, <1>3, <1>4, <1>5, <1>9, <3>1, ThreadHere DEF UserFrameFound
  <2>3. /\ from[cur] = "start" => want[cur].x0 = want[cur].x8
        /\ want[cur].pc \in UserPcs
    BY Here DEF RightTask
  <2> QED BY <1>3, <1>4, <1>5, <1>9, <1>10, <2>1, <2>2, <2>3, ThreadKept
<1>13. Kept(c)'
  <2>1. Where(c) = "none" /\ Where(c)' = "none"
    BY <1>3, <1>4 DEF Where
  <2>2. inside[c] = "none" /\ RightTask(c)
    BY <2>1, Here DEF Kept, FramesAt
  <2>3. FramesAt(c, Where(c), Len(stack[c]))'
    BY <1>3, <1>8, <1>9, <2>1, <2>2 DEF FramesAt, ThreadLocs, SchedLocs, UserPcs
  <2>4. ~Hung(c)' /\ ~(Len(stack'[c]) > 1)
    BY <1>8, <1>9, <2>1 DEF Hung
  <2>5. RightTask(c)'
    BY <1>3, <1>4, <2>1, <2>2, <2>4 DEF RightTask, RightAt
  <2> QED BY <1>3, <1>4, <2>3, <2>5 DEF Kept, UserFrameFound
<1>14. \A t \in Tasks : Kept(t)'
  <2>1. \A t \in Tasks \ {c, cur} : Same(t)
    BY <1>3, <1>9 DEF Same
  <2> QED BY <1>3, <1>12, <1>13, <2>1, Here, OtherKept
<1>15. Born'
  BY <1>3 DEF IInv, Born
<1>16. CopyUnderWay'
  BY <1>3, <1>4, <1>7, <1>8, <1>9 DEF CopyUnderWay
<1> QED BY <1>1, <1>3, <1>10, <1>11, <1>14, <1>15, <1>16, ThreadHere, AllKept

(* The child's frame is its parent's but for what it is given; and want    *)
(* is changed in the same way.                                             *)
LEMMA ForkCopyKept ==
  ASSUME IInv, ForkCopy
  PROVE  IInv'
<1>1. pc = "fork_copy" /\ pc \in ThreadLocs /\ from[cur] = "svc"
  BY Here DEF ForkCopy, ThreadLocs, RightAt
<1> DEFINE copy(c) == Frame(RegsOf(stack[c][1]), stack[cur][1].sp, stack[cur][1].pc,
                            stack[cur][1].pstate)
<1>2. PICK c \in Tasks, arg \in {0, 1} :
       /\ IsNew(c) /\ resume[c] = "none"
       /\ stack' = [stack EXCEPT ![c] = <<ChildFrame(copy(c), c, arg)>>]
       /\ resume' = [resume EXCEPT ![c] = "ret_from_fork"]
       /\ want' = [want EXCEPT
            ![c] = [want[cur] EXCEPT !.x0 = arg, !.x8 = arg, !.sp = c, !.pc = "u0"],
            ![cur].x0 = 0]
       /\ from' = [from EXCEPT ![c] = "start"]
  BY DEF ForkCopy, IsNew
<1>3. /\ cur' = cur /\ el' = el /\ inside' = inside /\ gone' = gone
      /\ pc' = "ret_from_syscall" /\ reg' = [AllJunk EXCEPT !.x0 = 0]
  BY DEF ForkCopy
<1>4. c # cur /\ c # 0 /\ c # 1
  BY <1>2 DEF IInv, Born
<1>5. ~(c < 2)
  BY <1>4 DEF Tasks
<1> DEFINE f == ChildFrame(copy(c), c, arg)
           w == [want[cur] EXCEPT !.x0 = arg, !.x8 = arg, !.sp = c, !.pc = "u0"]
           v == [want[cur] EXCEPT !.x0 = 0]
<1>6. /\ TypeOK /\ cur \in Tasks /\ want[cur] \in PtRegs /\ stack[cur][1] \in PtRegs
      /\ arg \in RegValues /\ 0 \in RegValues
  BY <1>1, Here, ThreadHere, RegFacts
<1>7. /\ SameButX0(stack[cur][1], want[cur]) /\ stack[cur][1].pstate = "EL0"
      /\ want[cur].pc \in UserPcs /\ Len(stack[cur]) = 1 /\ inside[cur] = "none"
  BY <1>1, ThreadHere
<1>8. f \in PtRegs /\ w \in PtRegs /\ SameButX0(f, w) /\ f.pstate = "EL0"
      /\ w.x0 = w.x8 /\ w.pc \in UserPcs
  <2>1. PICK d \in Tasks :
          IsNew(d) /\ Len(stack[d]) = 1 /\ stack[d][1].xr = want[cur].xr
    BY <1>1 DEF IInv, CopyUnderWay, InFork
  <2>2. d = c
    BY <1>2, <2>1, ConstantFacts DEF IsNew
  <2>3. stack[c][1] \in PtRegs /\ stack[c][1].xr = want[cur].xr
    <3>1. stack[c] \in Seq(PtRegs) /\ Len(stack[c]) = 1
      BY <1>6, <2>1, <2>2 DEF TypeOK
    <3> QED BY <2>1, <2>2, <3>1
  <2>4. copy(c) = [x0 |-> stack[c][1].x0, x8 |-> stack[c][1].x8, xr |-> want[cur].xr,
                   sp |-> stack[cur][1].sp, pc |-> stack[cur][1].pc, pstate |-> "EL0"]
    BY <1>7, <2>3 DEF Frame, RegsOf
  <2>5. copy(c) \in PtRegs
    BY <1>6, <1>7, <2>3, <2>4 DEF PtRegs
  <2>6. f = ChildFrame(copy(c), c, arg)
    OBVIOUS
  <2>7. copy(c).xr = want[cur].xr /\ copy(c).pstate = "EL0"
    BY <2>4
  <2>8. want[cur].xr \in RegValues /\ "u0" \in UserPcs
    BY <1>6 DEF PtRegs, UserPcs
  <2>9. f \in PtRegs /\ f.x8 = arg /\ f.xr = want[cur].xr /\ f.sp = c /\ f.pc = "u0"
        /\ f.pstate = "EL0"
    <3>1. PICK b : b = copy(c)
      OBVIOUS
    <3>2. PICK g : g = ChildFrame(b, c, arg)
      OBVIOUS
    <3>3. b \in PtRegs /\ b.xr = want[cur].xr /\ b.pstate = "EL0"
      BY <2>5, <2>7, <3>1
    <3>4. g \in PtRegs /\ g.x8 = arg /\ g.xr = b.xr /\ g.sp = c /\ g.pc = "u0"
          /\ g.pstate = b.pstate
      BY <3>2, <3>3, ChildFacts
    <3>5. f = g
      BY <2>6, <3>1, <3>2
    <3> HIDE DEF copy, f
    <3> QED BY <3>3, <3>4, <3>5
  <2>10. /\ w \in PtRegs /\ w.x0 = arg /\ w.x8 = arg /\ w.xr = want[cur].xr /\ w.sp = c
         /\ w.pc = "u0"
    BY <1>6, <2>8 DEF PtRegs
  <2> HIDE DEF f, w
  <2> QED BY <2>8, <2>9, <2>10 DEF SameButX0
<1>9. v \in PtRegs /\ v.x0 = 0 /\ SameButX0(v, want[cur]) /\ v.pc = want[cur].pc
  BY <1>6 DEF PtRegs, SameButX0
<1>10. <<f>> \in Seq(PtRegs) /\ Len(<<f>>) = 1 /\ <<f>>[1] = f /\ <<f>> # <<>>
  BY <1>8
<1>11. /\ stack'[c] = <<f>> /\ resume'[c] = "ret_from_fork" /\ from'[c] = "start"
       /\ want'[c] = w /\ want'[cur] = v
       /\ \A t \in Tasks \ {c} : stack'[t] = stack[t] /\ resume'[t] = resume[t]
                                  /\ from'[t] = from[t]
       /\ \A t \in Tasks \ {c, cur} : want'[t] = want[t]
  BY <1>2, <1>4, <1>6 DEF TypeOK
<1> HIDE DEF copy, f, w, v
<1>12. stack' \in [Tasks -> Seq(PtRegs)] /\ want' \in [Tasks -> PtRegs]
  <2>1. stack' = [stack EXCEPT ![c] = <<f>>]
    BY <1>2 DEF f
  <2>2. want' \in [Tasks -> PtRegs]
    <3>1. want' = [[want EXCEPT ![c] = w] EXCEPT ![cur].x0 = 0]
      BY <1>2 DEF w
    <3>2. [want EXCEPT ![c] = w] \in [Tasks -> PtRegs]
      BY <1>6, <1>8 DEF TypeOK
    <3>3. [want EXCEPT ![c] = w][cur] = want[cur]
      BY <1>4, <1>6 DEF TypeOK
    <3>4. want' = [[want EXCEPT ![c] = w] EXCEPT ![cur] = v]
      BY <3>1, <3>2, <3>3, <1>6 DEF v
    <3> QED BY <3>2, <3>4, <1>9
  <2> QED BY <2>1, <2>2, <1>6, <1>10 DEF TypeOK
<1>13. pc' \in ThreadLocs /\ pc' \notin {"eret0", "fork_copy"} /\ pc' \in KernelPcs
  BY <1>3 DEF ThreadLocs, KernelPcs
<1>14. reg' \in Regs /\ reg'.x0 = 0
  BY <1>3, <1>6, RegFacts DEF AllJunk
<1>15. TypeOK'
  <2>1. resume' \in [Tasks -> {"none", "ret_from_fork", "tail"}]
        /\ from' \in [Tasks -> {"none", "start", "svc", "irq", "fault"}]
    BY <1>2, <1>6 DEF TypeOK
  <2>2. irq_on' = irq_on /\ elr' = elr /\ spsr' = spsr /\ sp_el0' = sp_el0
    BY DEF ForkCopy
  <2> QED BY <1>3, <1>6, <1>12, <1>13, <1>14, <2>1, <2>2 DEF TypeOK
<1>16. Kept(cur)'
  <2>1. RightAt(cur, pc, reg)'
    BY <1>1, <1>3, <1>4, <1>6, <1>9, <1>11, <1>14 DEF RightAt
  <2>2. UserFrameFound(cur)'
    <3>1. stack[cur] # <<>>
      BY <1>7
    <3> QED BY <1>3, <1>4, <1>6, <1>7, <1>9, <1>11, <3>1 DEF UserFrameFound, SameButX0
  <2> QED
    BY <1>1, <1>3, <1>4, <1>6, <1>7, <1>9, <1>11, <1>13, <2>1, <2>2, ThreadKept
<1>17. Kept(c)'
  <2>1. Where(c) = "none" /\ Where(c)' = "ret_from_fork"
    BY <1>2, <1>3, <1>4, <1>11 DEF Where
  <2>2. inside'[c] = "none"
    BY <1>3, <2>1, Here DEF Kept, FramesAt
  <2>3. FramesAt(c, Where(c), Len(stack[c]))'
    BY <1>10, <1>11, <2>1, <2>2 DEF FramesAt, ThreadLocs, SchedLocs, UserPcs
  <2>4. RightAt(c, "ret_from_fork", AllJunk)'
    BY <1>5, <1>11 DEF RightAt
  <2>5. ~Hung(c)'
    BY <1>10, <1>11, <2>1 DEF Hung
  <2>6. RightTask(c)'
    BY <1>3, <1>4, <1>8, <1>10, <1>11, <2>1, <2>2, <2>4, <2>5 DEF RightTask
  <2>7. UserFrameFound(c)'
    BY <1>8, <1>10, <1>11 DEF UserFrameFound
  <2> QED BY <2>3, <2>6, <2>7 DEF Kept
<1>18. \A t \in Tasks : Kept(t)'
  <2>1. \A t \in Tasks \ {c, cur} : Same(t)
    BY <1>3, <1>11 DEF Same
  <2> QED BY <1>3, <1>16, <1>17, <2>1, Here, OtherKept
<1>19. Born'
  BY <1>2, <1>3, <1>4, <1>6, <1>11, ConstantFacts DEF IInv, Born
<1> QED BY <1>1, <1>3, <1>13, <1>15, <1>18, <1>19, ThreadHere, AllKept
----------------------------------------------------------------------------
(* Into the scheduler, through it, and out of it.                          *)
LEMMA IntoSchedKept ==
  ASSUME IInv, El1Preempt \/ WorkPending \/ SysExit \/ ScheduleTail
  PROVE  IInv'
<1>1. /\ cur' = cur /\ resume' = resume /\ stack' = stack /\ want' = want /\ from' = from
      /\ el' = el /\ \A t \in Tasks \ {cur} : inside'[t] = inside[t]
  <2>1. inside \in [Tasks -> {"none", "preempt", "work", "exit"}]
    BY Here DEF TypeOK
  <2>2. CASE El1Preempt
    BY <2>1, <2>2 DEF El1Preempt, histVars
  <2>3. CASE WorkPending
    BY <2>1, <2>3 DEF WorkPending, histVars
  <2>4. CASE SysExit
    BY <2>1, <2>4 DEF SysExit, histVars
  <2>5. CASE ScheduleTail
    BY <2>1, <2>5 DEF ScheduleTail, histVars
  <2> QED BY <2>2, <2>3, <2>4, <2>5
<1>2. pc \in {"el1_irq", "ret_to_user", "el0_svc", "tail"} /\ pc' \in {"pick", "sched_ret"}
  BY DEF El1Preempt, WorkPending, SysExit, ScheduleTail
<1>3. pc' \in SchedLocs /\ pc' \notin {"eret0", "fork_copy"} /\ pc' \in KernelPcs /\ pc # "err_hang"
  BY <1>2 DEF SchedLocs, KernelPcs
<1>4. el = "EL1"
  BY <1>2, Here DEF UserPcs, TypeOK
<1>5. TypeOK'
  <2>1. reg' \in Regs
    BY Here, RegFacts DEF El1Preempt, WorkPending, SysExit, ScheduleTail, TypeOK
  <2>2. irq_on' \in BOOLEAN
    BY Here DEF El1Preempt, WorkPending, SysExit, ScheduleTail, TypeOK
  <2>3. inside' \in [Tasks -> {"none", "preempt", "work", "exit"}] /\ gone' \subseteq Tasks
    BY Here DEF El1Preempt, WorkPending, SysExit, ScheduleTail, TypeOK
  <2>4. elr' = elr /\ spsr' = spsr /\ sp_el0' = sp_el0
    BY DEF El1Preempt, WorkPending, SysExit, ScheduleTail
  <2> QED BY <1>1, <1>3, <2>1, <2>2, <2>3, <2>4, Here DEF TypeOK
<1>6. /\ inside'[cur] # "none" /\ Scheduling(cur, Len(stack[cur]))'
      /\ inside'[cur] = "work" => from[cur] \in {"start", "irq"}
  <2>1. CASE El1Preempt
    <3>1. pc = "el1_irq" /\ inside[cur] = "none" /\ inside'[cur] = "preempt"
      BY <2>1, Here DEF El1Preempt, MayPreempt, TypeOK
    <3>2. Interrupted(cur, Len(stack[cur]))
      BY <3>1, Here DEF FramesAt
    <3>3. stack[cur][Len(stack[cur])].pc # "fork_copy"
      BY <2>1 DEF El1Preempt, MayPreempt, Top, Last
    <3> QED BY <1>1, <3>1, <3>2, <3>3 DEF Scheduling, Interrupted
  <2>2. CASE WorkPending
    <3>1. pc = "ret_to_user" /\ inside'[cur] = "work" /\ pc \in ThreadLocs
      BY <2>2, Here DEF WorkPending, TypeOK, ThreadLocs
    <3>2. Len(stack[cur]) = 1 /\ from[cur] \in {"start", "irq"}
      BY <3>1, Here, ThreadHere DEF RightAt
    <3> QED BY <1>1, <3>1, <3>2 DEF Scheduling
  <2>3. CASE SysExit
    <3>1. pc = "el0_svc" /\ inside'[cur] = "exit" /\ pc \in ThreadLocs
      BY <2>3, Here DEF SysExit, TypeOK, ThreadLocs
    <3>2. Len(stack[cur]) = 1
      BY <3>1, ThreadHere
    <3> QED BY <1>1, <3>1, <3>2 DEF Scheduling
  <2>4. CASE ScheduleTail
    <3>1. pc = "tail" /\ inside' = inside
      BY <2>4 DEF ScheduleTail
    <3>2. Scheduling(cur, Len(stack[cur])) /\ inside[cur] # "none"
      BY <3>1, Here DEF FramesAt, SchedLocs
    <3>3. inside[cur] = "work" => from[cur] \in {"start", "irq"}
      BY Here DEF RightTask
    <3> QED BY <1>1, <3>1, <3>2, <3>3 DEF Scheduling, Interrupted
  <2> QED BY <2>1, <2>2, <2>3, <2>4
<1>7. Kept(cur)'
  BY <1>1, <1>3, <1>4, <1>5, <1>6, SchedKept
<1>8. \A t \in Tasks \ {cur} : Same(t)
  BY <1>1 DEF Same
<1> QED BY <1>1, <1>3, <1>4, <1>5, <1>7, <1>8, KernelStepKept

(* A switch leaves both tasks where they stand.                            *)
LEMMA PickKept ==
  ASSUME IInv, Pick
  PROVE  IInv'
<1>1. PICK n \in Tasks \ gone :
       /\ resume[n] # "none" /\ cur' = n
       /\ pc' = IF n = cur THEN "tail" ELSE resume[n]
       /\ resume' = IF n = cur THEN resume ELSE [resume EXCEPT ![cur] = "tail"]
  BY DEF Pick
<1>2. /\ pc = "pick" /\ reg' = AllJunk /\ stack' = stack /\ inside' = inside
      /\ want' = want /\ from' = from /\ el' = el
  BY DEF Pick, histVars
<1>3. TypeOK /\ cur \in Tasks /\ el = "EL1" /\ resume[n] \in {"ret_from_fork", "tail"}
  BY <1>1, <1>2, Here DEF TypeOK, UserPcs
<1>4. pc' \in {"ret_from_fork", "tail"}
  BY <1>1, <1>3
<1>5. pc' \in ThreadLocs \cup SchedLocs /\ pc' \notin {"eret0", "fork_copy"} /\ pc' \in KernelPcs
  BY <1>4 DEF ThreadLocs, SchedLocs, KernelPcs
<1>6. TypeOK'
  <2>1. resume' \in [Tasks -> {"none", "ret_from_fork", "tail"}]
    BY <1>1, <1>3 DEF TypeOK
  <2> QED BY <1>1, <1>2, <1>3, <1>5, <2>1, RegFacts DEF TypeOK, Pick
<1>7. /\ Scheduling(cur, Len(stack[cur])) /\ inside[cur] # "none"
      /\ inside[cur] = "work" => from[cur] \in {"start", "irq"}
  BY <1>2, Here DEF FramesAt, SchedLocs, RightTask
<1>8. ASSUME n = cur
      PROVE  IInv'
  <2>1. cur' = cur /\ resume' = resume /\ pc' = "tail" /\ pc' \in SchedLocs
    BY <1>1, <1>8 DEF SchedLocs
  <2>2. Scheduling(cur, Len(stack[cur]))'
    BY <1>2, <1>7, <2>1 DEF Scheduling, Interrupted
  <2>3. Kept(cur)'
    BY <1>2, <1>3, <1>6, <1>7, <2>1, <2>2, SchedKept
  <2>4. \A t \in Tasks \ {cur} : Same(t)
    BY <1>2, <2>1 DEF Same
  <2> QED BY <1>2, <1>3, <1>5, <1>6, <2>1, <2>3, <2>4, KernelStepKept
<1>9. ASSUME n # cur
      PROVE  IInv'
  <2>1. /\ pc' = resume[n] /\ resume'[cur] = "tail"
        /\ \A t \in Tasks \ {cur} : resume'[t] = resume[t]
    BY <1>1, <1>3, <1>9 DEF TypeOK
  <2>2. ASSUME NEW c, c = cur
        PROVE  Kept(c)'
    <3>1. Where(c)' = "tail" /\ Where(c) = "pick"
      BY <1>1, <1>2, <1>9, <2>1, <2>2 DEF Where
    <3>2. FramesAt(c, Where(c), Len(stack[c]))'
      BY <1>2, <1>7, <2>2, <3>1
      DEF FramesAt, Scheduling, Interrupted, ThreadLocs, SchedLocs, UserPcs
    <3>3. Hung(c)' <=> Hung(c)
      BY <1>2, <3>1 DEF Hung
    <3>4. RightTask(c)'
      BY <1>1, <1>2, <1>9, <2>2, <3>1, <3>3, Here DEF RightTask, RightAt
    <3>5. UserFrameFound(c)'
      BY <1>2, <1>3, <2>2, Here DEF UserFrameFound
    <3> QED BY <3>2, <3>4, <3>5 DEF Kept
  <2>3. Kept(n)'
    <3>1. Where(n)' = Where(n) /\ Where(n) = resume[n] /\ Where(n)' = pc'
      BY <1>1, <1>9, <2>1 DEF Where
    <3>2. FramesAt(n, Where(n), Len(stack[n]))'
      BY <1>1, <1>2, <3>1, Here DEF Kept, FramesAt, Interrupted, Scheduling
    <3>3. Hung(n)' <=> Hung(n)
      BY <1>2, <3>1 DEF Hung
    <3>4. RightTask(n)'
      BY <1>1, <1>2, <1>9, <3>1, <3>3, Here DEF Kept, RightTask, RightAt
    <3>5. UserFrameFound(n)'
      BY <1>1, <1>2, <1>9, Here DEF Kept, UserFrameFound
    <3> QED BY <3>2, <3>4, <3>5 DEF Kept
  <2>4. \A t \in Tasks : Kept(t)'
    <3>1. \A t \in Tasks \ {cur} : Same(t)
      BY <1>2, <2>1 DEF Same
    <3>2. \A t \in Tasks \ {cur, n} : Kept(t)'
      BY <1>1, <3>1, Here, OtherKept
    <3> QED BY <1>1, <1>3, <2>2, <2>3, <3>2
  <2>5. Born'
    BY <1>1, <1>2, <1>3, <1>9, <2>1, ConstantFacts DEF IInv, Born
  <2> QED BY <1>2, <1>3, <1>5, <1>6, <2>4, <2>5, AllKept
<1> QED BY <1>8, <1>9

LEMMA SchedRetKept ==
  ASSUME IInv, SchedRet
  PROVE  IInv'
<1>1. /\ pc = "sched_ret" /\ cur' = cur /\ resume' = resume /\ stack' = stack
      /\ want' = want /\ from' = from /\ el' = el /\ gone' = gone
      /\ inside' = [inside EXCEPT ![cur] = "none"]
      /\ \/ inside[cur] = "preempt" /\ irq_on' = FALSE /\ pc' = "el1_exit"
         \/ inside[cur] = "work" /\ irq_on' = irq_on /\ pc' = "finish"
  BY DEF SchedRet, histVars
<1>2. TypeOK /\ cur \in Tasks /\ el = "EL1"
  BY <1>1, Here DEF TypeOK, UserPcs
<1>3. TypeOK'
  BY <1>1, <1>2 DEF TypeOK, SchedRet, KernelPcs
<1>4. inside'[cur] = "none" /\ \A t \in Tasks \ {cur} : Same(t)
  BY <1>1, <1>2 DEF TypeOK, Same
<1>5. Scheduling(cur, Len(stack[cur])) /\ Where(cur) = pc /\ Where(cur)' = pc'
  BY <1>1, Here DEF FramesAt, SchedLocs, Where
<1>6. UserFrameFound(cur)'
  BY <1>1, <1>2, Here DEF UserFrameFound
<1>7. ASSUME inside[cur] = "preempt"
      PROVE  IInv'
  <2>1. pc' = "el1_exit" /\ irq_on' = FALSE /\ Interrupted(cur, Len(stack[cur]))
    BY <1>1, <1>5, <1>7 DEF Scheduling
  <2>2. FramesAt(cur, Where(cur), Len(stack[cur]))'
    BY <1>1, <1>4, <1>5, <2>1
    DEF FramesAt, Interrupted, ThreadLocs, SchedLocs, UserPcs
  <2>3. Hung(cur)' <=> Hung(cur)
    BY <1>1, <1>5, <2>1 DEF Hung
  <2>4. RightTask(cur)'
    BY <1>1, <1>4, <1>5, <2>1, <2>3, Here DEF RightTask, RightAt
  <2>5. Kept(cur)'
    BY <1>1, <1>5, <1>6, <2>2, <2>4 DEF Kept
  <2>6. (el' = "EL0" <=> pc' \in UserPcs) /\ Masked' /\ UserContextKept' /\ ReturnStateIntact'
    BY <1>1, <1>2, <2>1 DEF UserPcs, Masked, UserContextKept, ReturnStateIntact
  <2>7. CopyUnderWay'
    <3>1. ~InFork
      BY <1>1, Here, NotInFork DEF SchedLocs
    <3>2. ~InFork'
      BY <1>1, <2>1, <2>3, <3>1 DEF InFork
    <3> QED BY <3>2 DEF CopyUnderWay
  <2> QED BY <1>1, <1>3, <1>4, <2>5, <2>6, <2>7, StepKept
<1>8. ASSUME inside[cur] = "work"
      PROVE  IInv'
  <2>1. pc' = "finish" /\ Len(stack[cur]) = 1 /\ from[cur] \in {"start", "irq"}
    BY <1>1, <1>5, <1>8, Here DEF Scheduling, RightTask
  <2>2. pc' \in ThreadLocs /\ pc' \notin {"eret0", "fork_copy"}
    BY <2>1 DEF ThreadLocs
  <2>3. RightAt(cur, pc, reg)'
    BY <1>1, <2>1 DEF RightAt
  <2>4. /\ from[cur] = "start" => want[cur].x0 = want[cur].x8
        /\ want[cur].pc \in UserPcs
    BY Here DEF RightTask
  <2>5. Kept(cur)'
    BY <1>1, <1>2, <1>4, <1>6, <2>1, <2>2, <2>3, <2>4, ThreadKept
  <2> QED BY <1>1, <1>2, <1>3, <1>4, <2>2, <2>5, KernelStepKept
<1> QED BY <1>1, <1>7, <1>8
----------------------------------------------------------------------------
(* Exceptions in the kernel.                                               *)
LEMMA PushHere ==
  ASSUME IInv, NEW f \in PtRegs, stack' = [stack EXCEPT ![cur] = Append(@, f)]
  PROVE  /\ stack' \in [Tasks -> Seq(PtRegs)]
         /\ \A t \in Tasks \ {cur} : stack'[t] = stack[t]
         /\ Len(stack'[cur]) = Len(stack[cur]) + 1
         /\ \A k \in 1 .. Len(stack[cur]) : stack'[cur][k] = stack[cur][k]
         /\ stack'[cur][Len(stack[cur]) + 1] = f
<1>1. stack \in [Tasks -> Seq(PtRegs)] /\ cur \in Tasks /\ stack[cur] \in Seq(PtRegs)
  BY Here DEF TypeOK
<1>2. stack'[cur] = Append(stack[cur], f)
  BY <1>1
<1>3. Append(stack[cur], f) \in Seq(PtRegs)
  BY <1>1
<1> QED BY <1>1, <1>2, <1>3, PushFacts

LEMMA PopHere ==
  ASSUME IInv, Len(stack[cur]) > 0, Pop
  PROVE  /\ stack' \in [Tasks -> Seq(PtRegs)]
         /\ \A t \in Tasks \ {cur} : stack'[t] = stack[t]
         /\ Len(stack'[cur]) = Len(stack[cur]) - 1
         /\ \A k \in 1 .. Len(stack[cur]) - 1 : stack'[cur][k] = stack[cur][k]
         /\ Top = stack[cur][Len(stack[cur])] /\ Top \in PtRegs
<1>1. stack \in [Tasks -> Seq(PtRegs)] /\ cur \in Tasks /\ stack[cur] \in Seq(PtRegs)
  BY Here DEF TypeOK
<1>2. stack'[cur] = Front(stack[cur]) /\ \A t \in Tasks \ {cur} : stack'[t] = stack[t]
  BY <1>1 DEF Pop
<1>3. /\ Front(stack[cur]) \in Seq(PtRegs) /\ Len(Front(stack[cur])) = Len(stack[cur]) - 1
      /\ \A k \in 1 .. Len(stack[cur]) - 1 : Front(stack[cur])[k] = stack[cur][k]
      /\ Last(stack[cur]) = stack[cur][Len(stack[cur])] /\ Last(stack[cur]) \in PtRegs
  BY <1>1, PopFacts
<1>4. stack' \in [Tasks -> Seq(PtRegs)]
  BY <1>1, <1>3 DEF Pop
<1> QED BY <1>2, <1>3, <1>4 DEF Top

(* An interrupt stops a task in one of the three places Interrupted and    *)
(* Scheduling tell apart: at eret0 it cannot, and where the stack is to be *)
(* left it is masked.                                                      *)
LEMMA El1IrqKept ==
  ASSUME ~TicksInExit, IInv, El1Irq
  PROVE  IInv'
<1>0. PICK n, f : n = Len(stack[cur]) /\ f = Frame(reg, NoTask, pc, "EL1")
  OBVIOUS
<1>1. /\ cur' = cur /\ resume' = resume /\ want' = want /\ from' = from /\ el' = el
      /\ inside' = inside /\ pc' = "el1_irq" /\ irq_on' = FALSE /\ reg' = AllJunk
      /\ el = "EL1" /\ irq_on /\ pc # "eret0" /\ gone' = gone /\ sp_el0' = sp_el0
      /\ stack' = [stack EXCEPT ![cur] = Append(@, f)] /\ elr' = pc /\ spsr' = "EL1"
  BY <1>0 DEF El1Irq, kernel_entry, histVars
<1>2. TypeOK /\ cur \in Tasks /\ reg \in Regs /\ pc \in UserPcs \cup KernelPcs /\ n \in Nat
  BY <1>0, Here DEF TypeOK
<1>3. f \in PtRegs /\ f.pc = pc /\ RegsOf(f) = reg
  <2>1. NoTask \in Tasks \cup {NoTask} /\ "EL1" \in {"EL0", "EL1"}
    OBVIOUS
  <2>2. /\ Frame(reg, NoTask, pc, "EL1") \in PtRegs /\ Frame(reg, NoTask, pc, "EL1").pc = pc
        /\ RegsOf(Frame(reg, NoTask, pc, "EL1")) = reg
    BY <1>2, <2>1, FrameFacts
  <2> QED BY <1>0, <2>2
<1>4. /\ stack' \in [Tasks -> Seq(PtRegs)]
      /\ \A t \in Tasks \ {cur} : stack'[t] = stack[t]
      /\ Len(stack'[cur]) = n + 1
      /\ \A k \in 1 .. n : stack'[cur][k] = stack[cur][k]
      /\ stack'[cur][n + 1] = f
  BY <1>0, <1>1, <1>3, PushHere
<1>5. pc \notin {"el1_irq", "el1_exit"} /\ pc \notin UserPcs
  BY <1>1, Here DEF IInv, Masked
<1>6. pc \in ThreadLocs \cup SchedLocs \cup {"err_hang"}
  BY <1>2, <1>5 DEF KernelPcs, ThreadLocs, SchedLocs
<1>7. Where(cur)' = "el1_irq" /\ Where(cur) = pc
  BY <1>1 DEF Where
<1>8. FramesAt(cur, pc, n) /\ RightTask(cur) /\ RightAt(cur, pc, reg) /\ UserFrameFound(cur)
  BY <1>0, Here
<1>9. TypeOK'
  <2>1. elr' \in UserPcs \cup KernelPcs /\ spsr' \in {"EL0", "EL1"}
    BY <1>1, <1>2
  <2> QED BY <1>1, <1>2, <1>4, <2>1, RegFacts DEF TypeOK, KernelPcs
<1>10. n >= 1 /\ stack'[cur][1] = stack[cur][1]
  <2>1. n >= 1
    BY <1>2, <1>6, <1>8 DEF FramesAt, Scheduling, Interrupted
  <2> QED BY <1>2, <1>4, <2>1
<1>11. UserFrameFound(cur)'
  <2>1. stack'[cur] # <<>>
    <3>1. Len(stack'[cur]) # 0
      BY <1>2, <1>4
    <3> QED BY <3>1
  <2> QED BY <1>1, <1>8, <1>10, <2>1 DEF UserFrameFound
<1>12. ASSUME pc \in ThreadLocs
       PROVE  Kept(cur)'
  <2>1. n = 1 /\ inside[cur] = "none"
    BY <1>8, <1>12 DEF FramesAt
  <2>2. Len(stack'[cur]) = 2 /\ stack'[cur][2] = f /\ pc # "err_hang"
    BY <1>4, <1>12, <2>1 DEF ThreadLocs
  <2>3. FramesAt(cur, Where(cur), Len(stack[cur]))'
    BY <1>1, <1>3, <1>7, <1>12, <2>1, <2>2
    DEF FramesAt, Interrupted, ThreadLocs, SchedLocs, UserPcs
  <2>4. ~Hung(cur)'
    BY <1>1, <1>7, <2>2 DEF Hung
  <2>5. RightAt(cur, f.pc, RegsOf(f))'
    BY <1>1, <1>3, <1>8, <1>10 DEF RightAt
  <2>6. RightTask(cur)'
    BY <1>1, <1>7, <1>8, <2>1, <2>2, <2>4, <2>5 DEF RightTask, RightAt
  <2> QED BY <1>11, <2>3, <2>6 DEF Kept
<1>13. ASSUME pc = "err_hang"
       PROVE  Kept(cur)'
  <2>1. n = 2 /\ inside[cur] = "none" /\ from[cur] # "none"
    BY <1>8, <1>13 DEF FramesAt, RightAt
  <2>2. Len(stack'[cur]) = 3 /\ stack'[cur][3] = f
    BY <1>4, <2>1
  <2>3. FramesAt(cur, Where(cur), Len(stack[cur]))'
    BY <1>1, <1>3, <1>7, <1>13, <2>1, <2>2
    DEF FramesAt, Interrupted, ThreadLocs, SchedLocs, UserPcs
  <2>4. Hung(cur)'
    BY <1>1, <1>3, <1>13, <2>2 DEF Hung
  <2>5. RightTask(cur)'
    BY <1>1, <1>7, <1>8, <2>1, <2>4 DEF RightTask, RightAt
  <2> QED BY <1>11, <2>3, <2>5 DEF Kept
<1>14. ASSUME pc \in SchedLocs
       PROVE  Kept(cur)'
  <2>1. Scheduling(cur, n) /\ inside[cur] # "none"
    BY <1>8, <1>14 DEF FramesAt
  <2>2. n \in 1 .. 3 /\ pc \notin ThreadLocs /\ pc # "err_hang"
    BY <1>14, <2>1 DEF Scheduling, Interrupted, ThreadLocs, SchedLocs
  <2>3. Scheduling(cur, n)'
    BY <1>1, <1>4, <2>1, <2>2 DEF Scheduling, Interrupted
  <2>4. FramesAt(cur, Where(cur), Len(stack[cur]))'
    BY <1>1, <1>3, <1>4, <1>7, <1>14, <2>1, <2>2, <2>3
    DEF FramesAt, ThreadLocs, SchedLocs, UserPcs
  <2>5. Hung(cur)' <=> Hung(cur)
    <3>1. n = 2 => stack'[cur][3] = f
      BY <1>4
    <3>2. n = 3 => stack'[cur][3] = stack[cur][3]
      BY <1>4
    <3> QED BY <1>0, <1>1, <1>3, <1>4, <1>7, <2>2, <3>1, <3>2 DEF Hung
  <2>6. RightAt(cur, f.pc, RegsOf(f))'
    BY <1>3, <1>14 DEF RightAt, SchedLocs
  <2>7. n > 1 => stack'[cur][2] = stack[cur][2]
    BY <1>4, <2>2
  <2>8. n = 1 => stack'[cur][2] = f
    BY <1>4
  <2>9. ~Hung(cur)' => RightAt(cur, stack[cur][2].pc, RegsOf(stack[cur][2]))'
    <3>1. PICK g : g = stack[cur][2]
      OBVIOUS
    <3>2. n > 1 /\ ~Hung(cur) => RightAt(cur, g.pc, RegsOf(g))
      BY <1>0, <1>8, <3>1 DEF RightTask
    <3>3. RightAt(cur, g.pc, RegsOf(g)) => RightAt(cur, g.pc, RegsOf(g))'
      BY <1>1, <1>10 DEF RightAt
    <3>4. CASE n = 1
      BY <1>1, <2>6, <2>8, <3>4
    <3>5. CASE n > 1
      BY <1>1, <2>5, <2>7, <3>1, <3>2, <3>3, <3>5
    <3> QED BY <2>2, <3>4, <3>5
  <2>10. RightAt(cur, Where(cur), reg)'
    BY <1>7 DEF RightAt
  <2>11. RightTask(cur)'
    BY <1>1, <1>8, <2>5, <2>9, <2>10 DEF RightTask
  <2> QED BY <1>11, <2>4, <2>11 DEF Kept
<1>15. \A t \in Tasks \ {cur} : Same(t)
  BY <1>1, <1>4 DEF Same
<1>16. /\ el' = "EL0" <=> pc' \in UserPcs
       /\ Masked' /\ UserContextKept' /\ ReturnStateIntact'
  BY <1>1 DEF UserPcs, Masked, UserContextKept, ReturnStateIntact
<1>17. InFork' => InFork
  <2>1. InFork' => n + 1 > 1 /\ stack'[cur][2].pc = "fork_copy" /\ ~Hung(cur)'
    BY <1>1, <1>4 DEF InFork
  <2>2. CASE pc \in ThreadLocs
    <3>1. n = 1
      BY <1>8, <2>2 DEF FramesAt
    <3> QED BY <1>3, <1>4, <2>1, <3>1 DEF InFork
  <2>3. CASE pc = "err_hang"
    <3>1. n = 2 /\ stack'[cur][3].pc = "err_hang"
      <4>1. n = 2
        BY <1>8, <2>3 DEF FramesAt
      <4> QED BY <1>3, <1>4, <2>3, <4>1
    <3> QED BY <1>1, <1>4, <2>1, <3>1 DEF Hung
  <2>4. CASE pc \in SchedLocs
    <3>1. Scheduling(cur, n)
      BY <1>8, <2>4 DEF FramesAt
    <3>2. n \in 1 .. 3 /\ (n = 2 => stack[cur][2].pc # "fork_copy")
          /\ (n = 3 => stack[cur][3].pc = "err_hang")
      BY <3>1 DEF Scheduling, Interrupted
    <3>3. CASE n = 1
      BY <1>3, <1>4, <2>1, <2>4, <3>3 DEF SchedLocs
    <3>4. CASE n = 2
      BY <1>4, <2>1, <3>2, <3>4
    <3>5. CASE n = 3
      BY <1>1, <1>4, <2>1, <3>2, <3>5 DEF Hung
    <3> QED BY <3>2, <3>3, <3>4, <3>5
  <2> QED BY <1>6, <2>2, <2>3, <2>4
<1>18. CopyUnderWay'
  BY <1>1, <1>4, <1>17, CopyKept
<1> QED BY <1>1, <1>9, <1>12, <1>13, <1>14, <1>15, <1>16, <1>18, <1>6, StepKept

(* Leaving the handler goes back to that place.                            *)
LEMMA El1ExitKept ==
  ASSUME IInv, El1Exit
  PROVE  IInv'
<1>1. PICK n, f : n = Len(stack[cur]) /\ f = Top
  OBVIOUS
<1>2. /\ cur' = cur /\ resume' = resume /\ want' = want /\ from' = from /\ el' = el
      /\ inside' = inside /\ gone' = gone /\ sp_el0' = sp_el0
      /\ pc \in {"el1_irq", "el1_exit"} /\ Pop
      /\ reg' = RegsOf(f) /\ elr' = f.pc /\ spsr' = f.pstate /\ pc' = f.pc /\ irq_on' = TRUE
  BY <1>1 DEF El1Exit, Restore, histVars
<1>3. TypeOK /\ cur \in Tasks /\ el = "EL1" /\ n \in Nat
  BY <1>1, <1>2, Here DEF TypeOK, UserPcs
<1>4. FramesAt(cur, pc, n) /\ RightTask(cur) /\ UserFrameFound(cur)
  BY <1>1, Here
<1>5. /\ n \in 2 .. 4
      /\ \/ (inside[cur] = "none" /\ Interrupted(cur, n))
         \/ /\ inside[cur] # "none" /\ n > 1
            /\ stack[cur][n].pc \in SchedLocs /\ Scheduling(cur, n - 1)
  <2>1. \/ (inside[cur] = "none" /\ Interrupted(cur, n))
        \/ /\ inside[cur] # "none" /\ n > 1
           /\ stack[cur][n].pc \in SchedLocs /\ Scheduling(cur, n - 1)
    BY <1>2, <1>4 DEF FramesAt
  <2>2. Scheduling(cur, n - 1) => n - 1 \in 1 .. 3
    BY <1>3 DEF Scheduling, Interrupted
  <2>3. Interrupted(cur, n) => n \in 2 .. 3
    BY DEF Interrupted
  <2> QED BY <1>3, <2>1, <2>2, <2>3
<1>6. /\ stack' \in [Tasks -> Seq(PtRegs)]
      /\ \A t \in Tasks \ {cur} : stack'[t] = stack[t]
      /\ Len(stack'[cur]) = n - 1
      /\ \A k \in 1 .. n - 1 : stack'[cur][k] = stack[cur][k]
      /\ f = stack[cur][n] /\ f \in PtRegs
  <2>1. n > 0
    BY <1>5
  <2>2. Len(stack[cur]) > 0
    BY <1>1, <2>1
  <2> QED BY <1>1, <1>2, <2>2, PopHere
<1>7. stack'[cur][1] = stack[cur][1] /\ Where(cur)' = pc' /\ Where(cur) = pc
  BY <1>2, <1>5, <1>6 DEF Where
<1>8. pc' \in ThreadLocs \cup SchedLocs \cup {"err_hang"} /\ pc' # "eret0"
  BY <1>2, <1>5, <1>6 DEF Interrupted, SchedLocs
<1>9. TypeOK'
  <2>1. /\ f.pc \in UserPcs \cup KernelPcs /\ f.pstate \in {"EL0", "EL1"}
        /\ RegsOf(f) \in Regs
    BY <1>6, RegFacts DEF PtRegs
  <2> QED BY <1>2, <1>3, <1>6, <2>1 DEF TypeOK
<1>10. UserFrameFound(cur)'
  <2>1. stack'[cur] # <<>>
    <3>1. Len(stack'[cur]) # 0
      BY <1>5, <1>6
    <3> QED BY <3>1
  <2> QED BY <1>2, <1>3, <1>4, <1>7, <2>1 DEF UserFrameFound
<1>11. ASSUME inside[cur] = "none", n = 2, f.pc \in ThreadLocs
       PROVE  Kept(cur)'
  <2>1. ~Hung(cur)
    BY <1>1, <1>2, <1>7, <1>11 DEF Hung
  <2>2. RightAt(cur, f.pc, RegsOf(f))
    BY <1>1, <1>4, <1>6, <1>11, <2>1 DEF RightTask
  <2>3. RightAt(cur, pc, reg)'
    BY <1>2, <1>7, <2>2 DEF RightAt
  <2>4. /\ from[cur] = "start" => want[cur].x0 = want[cur].x8
        /\ want[cur].pc \in UserPcs
    BY <1>4 DEF RightTask
  <2> QED BY <1>2, <1>3, <1>6, <1>10, <1>11, <2>3, <2>4, ThreadKept
<1>12. ASSUME inside[cur] = "none", n = 3, f.pc = "err_hang"
       PROVE  Kept(cur)'
  <2>1. Hung(cur) /\ from[cur] # "none"
    BY <1>1, <1>4, <1>6, <1>12 DEF Hung, RightTask
  <2>2. Hung(cur)' /\ RightAt(cur, pc, reg)'
    BY <1>2, <1>7, <1>12, <2>1 DEF Hung, RightAt
  <2>3. RightTask(cur)'
    BY <1>2, <1>4, <1>7, <1>12, <2>1, <2>2 DEF RightTask
  <2>4. FramesAt(cur, Where(cur), Len(stack[cur]))'
    BY <1>2, <1>6, <1>7, <1>12 DEF FramesAt, ThreadLocs, SchedLocs, UserPcs
  <2> QED BY <1>10, <2>3, <2>4 DEF Kept
<1>13. ASSUME inside[cur] # "none", f.pc \in SchedLocs, Scheduling(cur, n - 1)
       PROVE  Kept(cur)'
  <2>1. Scheduling(cur, n - 1)'
    BY <1>2, <1>3, <1>5, <1>6, <1>13 DEF Scheduling, Interrupted
  <2>2. FramesAt(cur, Where(cur), Len(stack[cur]))'
    BY <1>1, <1>2, <1>6, <1>7, <1>13, <2>1 DEF FramesAt, ThreadLocs, SchedLocs, UserPcs
  <2>3. Hung(cur)' <=> Hung(cur)
    <3>1. n = 3 => stack[cur][3].pc # "err_hang"
      BY <1>6, <1>13 DEF SchedLocs
    <3>2. n = 4 => stack'[cur][3] = stack[cur][3]
      BY <1>6
    <3>3. Where(cur)' # "err_hang" /\ Where(cur) # "err_hang"
      BY <1>2, <1>7, <1>13 DEF SchedLocs
    <3>4. Hung(cur) <=> n > 2 /\ stack[cur][3].pc = "err_hang"
      BY <1>1, <3>3 DEF Hung
    <3>5. Hung(cur)' <=> n - 1 > 2 /\ stack'[cur][3].pc = "err_hang"
      BY <1>2, <1>6, <3>3 DEF Hung
    <3>6. n = 2 \/ n = 3 \/ n = 4
      BY <1>5
    <3> QED BY <3>1, <3>2, <3>4, <3>5, <3>6
  <2>4. RightAt(cur, pc, reg)'
    BY <1>2, <1>13 DEF RightAt, SchedLocs
  <2>5. n > 2 => stack'[cur][2] = stack[cur][2]
    BY <1>3, <1>6
  <2>6. Len(stack'[cur]) > 1 /\ ~Hung(cur)' =>
          RightAt(cur, stack[cur][2].pc, RegsOf(stack[cur][2]))'
    <3>1. PICK g : g = stack[cur][2]
      OBVIOUS
    <3>2. n > 2 /\ ~Hung(cur) => RightAt(cur, g.pc, RegsOf(g))
      BY <1>1, <1>3, <1>4, <3>1 DEF RightTask
    <3>3. RightAt(cur, g.pc, RegsOf(g)) => RightAt(cur, g.pc, RegsOf(g))'
      BY <1>2, <1>7 DEF RightAt
    <3>4. n > 2 => stack'[cur'][2] = g
      BY <1>2, <2>5, <3>1
    <3>5. Len(stack'[cur]) > 1 => n > 2
      BY <1>3, <1>6
    <3> QED BY <2>3, <3>2, <3>3, <3>4, <3>5
  <2>7. RightTask(cur)'
    BY <1>2, <1>4, <1>7, <2>3, <2>4, <2>6 DEF RightTask
  <2> QED BY <1>10, <2>2, <2>7 DEF Kept
<1>14. Kept(cur)'
  <2>1. Interrupted(cur, n) => (n = 2 /\ f.pc \in ThreadLocs) \/ (n = 3 /\ f.pc = "err_hang")
    BY <1>6 DEF Interrupted
  <2> QED BY <1>5, <1>6, <1>11, <1>12, <1>13, <2>1
<1>15. \A t \in Tasks \ {cur} : Same(t)
  BY <1>2, <1>6 DEF Same
<1>16. /\ el' = "EL0" <=> pc' \in UserPcs
       /\ Masked' /\ UserContextKept' /\ ReturnStateIntact'
  BY <1>2, <1>3, <1>8
  DEF ThreadLocs, SchedLocs, UserPcs, Masked, UserContextKept, ReturnStateIntact
<1>17. ASSUME pc' = "fork_copy"
       PROVE  CopyUnderWay'
  <2>1. n = 2 /\ stack[cur][2].pc = "fork_copy"
    BY <1>2, <1>5, <1>6, <1>17 DEF Interrupted, SchedLocs
  <2>2. InFork
    BY <1>1, <1>2, <1>7, <2>1 DEF InFork, Hung
  <2> QED BY <1>2, <1>6, <2>2, CopyKept
<1>18. pc' \notin {"el1_irq", "el1_exit"}
  BY <1>8 DEF ThreadLocs, SchedLocs
<1> QED BY <1>2, <1>9, <1>14, <1>15, <1>16, <1>17, <1>18, StepKept
(* A second frame, and the end.                                            *)
LEMMA InvalidKept ==
  ASSUME IInv, handle_invalid_entry
  PROVE  IInv'
<1>1. PICK f : f = Frame(reg, sp_el0, elr, spsr)
  OBVIOUS
<1>2. /\ cur' = cur /\ resume' = resume /\ want' = want /\ from' = from /\ el' = el
      /\ inside' = inside /\ gone' = gone /\ pc' = "err_hang" /\ reg' = AllJunk
      /\ stack' = [stack EXCEPT ![cur] = Append(@, f)] /\ pc \in {"el0_svc", "sync_error"}
  BY <1>1 DEF handle_invalid_entry, histVars
<1>3. f \in PtRegs
  BY <1>1, Here, FrameFacts DEF TypeOK
<1>4. pc \in ThreadLocs
  BY <1>2 DEF ThreadLocs
<1>5. /\ stack' \in [Tasks -> Seq(PtRegs)]
      /\ \A t \in Tasks \ {cur} : stack'[t] = stack[t]
      /\ Len(stack'[cur]) = 2 /\ stack'[cur][1] = stack[cur][1]
  <2>1. Len(stack[cur]) = 1
    BY <1>4, ThreadHere
  <2>2. /\ stack' \in [Tasks -> Seq(PtRegs)]
        /\ \A t \in Tasks \ {cur} : stack'[t] = stack[t]
        /\ Len(stack'[cur]) = Len(stack[cur]) + 1
        /\ \A k \in 1 .. Len(stack[cur]) : stack'[cur][k] = stack[cur][k]
    BY <1>2, <1>3, PushHere
  <2> QED BY <2>1, <2>2
<1>6. TypeOK'
  BY <1>2, <1>5, Here, RegFacts DEF TypeOK, KernelPcs, handle_invalid_entry
<1>7. Where(cur)' = "err_hang" /\ from[cur] # "none"
  BY <1>2, Here DEF Where, RightAt
<1>8. FramesAt(cur, Where(cur), Len(stack[cur]))'
  BY <1>2, <1>4, <1>5, <1>7, ThreadHere DEF FramesAt, ThreadLocs, SchedLocs, UserPcs
<1>9. Hung(cur)'
  BY <1>2, <1>7 DEF Hung
<1>10. RightTask(cur)'
  BY <1>2, <1>4, <1>5, <1>7, <1>9, Here, ThreadHere DEF RightTask, RightAt
<1>11. UserFrameFound(cur)'
  <2>1. stack'[cur] # <<>>
    BY <1>5
  <2> QED BY <1>2, <1>4, <1>5, <2>1, Here, ThreadHere DEF UserFrameFound
<1>12. Kept(cur)'
  BY <1>8, <1>10, <1>11 DEF Kept
<1>13. \A t \in Tasks \ {cur} : Same(t)
  BY <1>2, <1>5 DEF Same
<1>14. /\ el' = "EL0" <=> pc' \in UserPcs
       /\ Masked' /\ UserContextKept' /\ ReturnStateIntact'
  BY <1>2, <1>4, ThreadHere DEF UserPcs, Masked, UserContextKept, ReturnStateIntact
<1>15. pc' \notin {"fork_copy", "el1_irq", "el1_exit"}
  BY <1>2
<1> QED BY <1>2, <1>6, <1>12, <1>13, <1>14, <1>15, StepKept

(* What the frame holds is what the program gets.                          *)
LEMMA KernelExitEretKept ==
  ASSUME IInv, KernelExitEret
  PROVE  IInv'
<1>1. /\ cur' = cur /\ resume' = resume /\ want' = want /\ from' = from
      /\ inside' = inside /\ gone' = gone /\ pc = "eret0" /\ Pop /\ reg' = RegsOf(Top)
      /\ el' = spsr /\ pc' = elr /\ irq_on' = TRUE /\ elr' = elr /\ spsr' = spsr
      /\ sp_el0' = sp_el0
  BY DEF KernelExitEret, histVars
<1>2. PICK f : f = Top
  OBVIOUS
<1>3. pc \in ThreadLocs /\ pc \notin {"el1_irq", "el1_exit"}
  BY <1>1 DEF ThreadLocs
<1>4. /\ Len(stack[cur]) = 1 /\ inside[cur] = "none" /\ f = stack[cur][1] /\ f \in PtRegs
      /\ want[cur].pc \in UserPcs
  BY <1>2, <1>3, ThreadHere
<1>5. from[cur] # "none" /\ (from[cur] # "irq" => f.x0 = want[cur].x0)
  BY <1>1, <1>4, Here DEF RightAt
<1>6. SameButX0(f, want[cur]) /\ f.pstate = "EL0"
  BY <1>3, <1>4, <1>5, ThreadHere
<1>7. elr = f.pc /\ spsr = "EL0" /\ sp_el0 = f.sp
  BY <1>1, <1>2, <1>6 DEF IInv, ReturnStateIntact
<1>8. el' = "EL0" /\ pc' = f.pc /\ pc' \in UserPcs
  BY <1>1, <1>4, <1>6, <1>7 DEF SameButX0
<1>9. /\ stack' \in [Tasks -> Seq(PtRegs)]
      /\ \A t \in Tasks \ {cur} : stack'[t] = stack[t]
      /\ Len(stack'[cur]) = 0
  BY <1>1, <1>4, PopHere
<1>10. RegsOf(f) \in Regs /\ reg' = RegsOf(f)
  BY <1>1, <1>2, <1>4, RegFacts
<1>11. TypeOK'
  BY <1>1, <1>8, <1>9, <1>10, Here DEF TypeOK
<1>12. Where(cur)' = pc' /\ pc' \notin ThreadLocs \cup SchedLocs
       /\ pc' \notin {"err_hang", "el1_irq", "el1_exit", "eret0"}
  BY <1>1, <1>8 DEF Where, UserPcs, ThreadLocs, SchedLocs
<1>13. FramesAt(cur, Where(cur), Len(stack[cur]))'
  BY <1>1, <1>4, <1>9, <1>12 DEF FramesAt
<1>14. ~Hung(cur)'
  BY <1>1, <1>9, <1>12 DEF Hung
<1>15. RightAt(cur, pc, reg)'
  BY <1>12 DEF RightAt, ThreadLocs
<1>16. RightTask(cur)'
  BY <1>1, <1>9, <1>12, <1>14, <1>15, Here DEF RightTask
<1>17. Kept(cur)'
  BY <1>1, <1>8, <1>13, <1>16 DEF Kept, UserFrameFound
<1>18. \A t \in Tasks \ {cur} : Same(t)
  BY <1>1, <1>9 DEF Same
<1>19. UserContextKept'
  BY <1>1, <1>5, <1>6, <1>7, <1>8, <1>10
  DEF UserContextKept, UserContext, Frame, RegsOf, SameButX0
<1>20. Masked' /\ ReturnStateIntact'
  BY <1>12 DEF Masked, ReturnStateIntact
<1>21. pc' \notin {"fork_copy", "el1_irq", "el1_exit"}
  BY <1>12 DEF ThreadLocs
<1> QED BY <1>1, <1>8, <1>11, <1>17, <1>18, <1>19, <1>20, <1>21, StepKept

----------------------------------------------------------------------------
(* The invariant is inductive.                                             *)
LEMMA InitHolds ==
  ASSUME Init
  PROVE  IInv
<1>1. /\ cur = 0 /\ el = "EL1" /\ pc = "ret_from_fork" /\ irq_on = FALSE
      /\ stack = [t \in Tasks |-> IF t < 2 THEN <<Zeroed>> ELSE <<>>]
      /\ resume = [t \in Tasks |-> IF t < 2 THEN "ret_from_fork" ELSE "none"]
      /\ inside = [t \in Tasks |-> "none"] /\ want = [t \in Tasks |-> Zeroed]
      /\ from = [t \in Tasks |-> "none"]
  BY DEF Init
<1>2. <<Zeroed>> \in Seq(PtRegs) /\ Len(<<Zeroed>>) = 1 /\ Zeroed \in PtRegs
      /\ Zeroed.pc \in UserPcs
  <2>1. Zeroed \in PtRegs
    BY RegFacts
  <2>2. Zeroed.pc \in UserPcs
    BY DEF Zeroed, UserPcs
  <2> QED BY <2>1, <2>2
<1>3. stack \in [Tasks -> Seq(PtRegs)]
  <2>1. <<>> \in Seq(PtRegs)
    OBVIOUS
  <2> QED BY <1>1, <1>2, <2>1
<1>4. TypeOK
  <2>1. /\ resume \in [Tasks -> {"none", "ret_from_fork", "tail"}]
        /\ inside \in [Tasks -> {"none", "preempt", "work", "exit"}]
        /\ want \in [Tasks -> PtRegs]
        /\ from \in [Tasks -> {"none", "start", "svc", "irq", "fault"}]
    BY <1>1, <1>2
  <2>2. reg \in Regs /\ elr = "fn" /\ spsr = "EL1" /\ sp_el0 = NoTask /\ gone = {}
    BY RegFacts DEF Init
  <2>3. pc \in KernelPcs /\ elr \in KernelPcs
    BY <1>1, <2>2 DEF KernelPcs
  <2> QED BY <1>1, <1>3, <2>1, <2>2, <2>3, ConstantFacts DEF TypeOK
<1>5. ASSUME NEW t \in Tasks
      PROVE  Kept(t)
  <2>1. Where(t) = IF t < 2 THEN "ret_from_fork" ELSE "none"
    BY <1>1, ConstantFacts DEF Where
  <2>2. Len(stack[t]) = IF t < 2 THEN 1 ELSE 0
    BY <1>1, <1>2
  <2>3. FramesAt(t, Where(t), Len(stack[t]))
    BY <1>1, <2>1, <2>2 DEF FramesAt, ThreadLocs, SchedLocs, UserPcs
  <2>4. ~Hung(t)
    BY <2>1, <2>2 DEF Hung
  <2>5. RightTask(t)
    BY <1>1, <1>2, <2>1, <2>2, <2>4 DEF RightTask, RightAt
  <2> QED BY <1>1, <2>3, <2>5 DEF Kept, UserFrameFound
<1>6. Frames /\ Right /\ \A t \in Tasks : UserFrameFound(t)
  BY <1>5 DEF Frames, Right, Kept
<1>7. Born
  BY <1>1, ConstantFacts DEF Born
<1>8. CopyUnderWay
  <2>1. Len(stack[cur]) = 1
    BY <1>1, <1>2, ConstantFacts
  <2> QED BY <1>1, <2>1 DEF CopyUnderWay, InFork
<1> QED
  BY <1>1, <1>4, <1>6, <1>7, <1>8
  DEF IInv, Masked, PtRegsIsUserFrame, UserContextKept, ReturnStateIntact, UserPcs

LEMMA NothingKept ==
  ASSUME IInv, UNCHANGED vars
  PROVE  IInv'
<1>1. UNCHANGED <<cur, el, irq_on, pc, reg, elr, spsr, sp_el0, stack, resume, inside, gone,
                  want, from>>
  BY DEF vars, cpuVars, histVars
<1> USE <1>1
<1>2. TypeOK' /\ Masked' /\ Born' /\ (el' = "EL0" <=> pc' \in UserPcs)
  BY DEF IInv, TypeOK, Masked, Born
<1>3. UserContextKept' /\ ReturnStateIntact' /\ PtRegsIsUserFrame'
  BY DEF IInv, UserContextKept, UserContext, ReturnStateIntact, Top, PtRegsIsUserFrame,
         UserFrameFound
<1>4. Frames'
  BY DEF IInv, Frames, FramesAt, Interrupted, Scheduling, Where
<1>5. Right'
  BY DEF IInv, Right, RightTask, RightAt, Hung, Where
<1>6. CopyUnderWay'
  BY DEF IInv, CopyUnderWay, InFork, IsNew, Hung, Where
<1> QED BY <1>2, <1>3, <1>4, <1>5, <1>6 DEF IInv

LEMMA NextKept ==
  ASSUME ~TicksInExit, IInv, [Next]_vars
  PROVE  IInv'
<1>1. ASSUME Next
      PROVE  IInv'
  <2>1. CASE El0Irq \/ El0Svc \/ El0Fault
    BY <2>1, El0Kept
  <2>2. CASE El1Irq \/ El1Exit
    BY <2>2, El1IrqKept, El1ExitKept
  <2>3. CASE El1Preempt \/ WorkPending \/ SysExit \/ ScheduleTail
    BY <2>3, IntoSchedKept
  <2>4. CASE Pick \/ SchedRet
    BY <2>4, PickKept, SchedRetKept
  <2>5. CASE RetFromFork \/ MoveToUserMode \/ NoWork
    BY <2>5, RetFromForkKept, MoveToUserModeKept, NoWorkKept
  <2>6. CASE FinishRetToUser \/ RetFromSyscall \/ KernelExitLoad \/ KernelExitEret
    BY <2>6, FinishRetToUserKept, RetFromSyscallKept, KernelExitLoadKept, KernelExitEretKept
  <2>7. CASE SysWrite \/ SysMalloc \/ SysCloneFails \/ SysClone \/ ForkCopy
    BY <2>7, SysWriteKept, SysMallocKept, SysCloneKept, ForkCopyKept
  <2>8. CASE handle_invalid_entry \/ err_hang
    BY <2>8, InvalidKept, NothingKept DEF err_hang
  <2> QED BY <1>1, <2>1, <2>2, <2>3, <2>4, <2>5, <2>6, <2>7, <2>8 DEF Next
<1> QED BY <1>1, NothingKept

----------------------------------------------------------------------------
(* The strengthened invariant of exception entry and exit.                 *)
THEOREM EntryInvariance == ~TicksInExit => (Spec => []IInv)
<1> SUFFICES ASSUME ~TicksInExit
             PROVE  Spec => []IInv
  OBVIOUS
<1>1. Init => IInv
  BY InitHolds
<1>2. IInv /\ [Next]_vars => IInv'
  BY NextKept
<1> QED BY <1>1, <1>2, PTL DEF Spec

(* kernel_entry to kernel_exit: a program has its registers, stack pointer *)
(* and place back whenever it runs, whatever came in between.              *)
THEOREM ContextKept == ~TicksInExit => (Spec => []UserContextKept)
<1>1. IInv => UserContextKept
  BY DEF IInv
<1> QED BY <1>1, EntryInvariance, PTL

(* kernel_exit 1: code of the kernel that el1_irq interrupted, and perhaps *)
(* preempted, goes on with the registers it had.                           *)
THEOREM CodeResumes == ~TicksInExit => (Spec => []InterruptedCodeResumes)
<1>1. IInv => InterruptedCodeResumes
  BY Here DEF RightAt, InterruptedCodeResumes
<1> QED BY <1>1, EntryInvariance, PTL

(* get_task_pt_regs: the first frame on a kernel stack is a program's, and *)
(* the stack is empty while it runs.                                       *)
THEOREM UserFrameIsFound == ~TicksInExit => (Spec => []PtRegsIsUserFrame)
<1>1. IInv => PtRegsIsUserFrame
  BY DEF IInv
<1> QED BY <1>1, EntryInvariance, PTL

(* preempt_count keeps interrupts from nesting: three frames are the most, *)
(* and four in err_hang.                                                   *)
THEOREM FewFrames == ~TicksInExit => (Spec => []FramesBounded)
<1>1. IInv => FramesBounded
  <2> SUFFICES ASSUME IInv, NEW t \in Tasks, Len(stack[t]) > 3
               PROVE  /\ \E f \in ToSet(stack[t]) : f.pc = "err_hang"
                      /\ Len(stack[t]) <= 4
    <3>1. \A t \in Tasks : Len(stack[t]) \in Nat
      BY Here DEF TypeOK
    <3> QED BY <3>1 DEF FramesBounded
  <2>0. PICK n \in Nat : n = Len(stack[t])
    BY Here DEF TypeOK
  <2>1. n > 3 /\ FramesAt(t, Where(t), n)
    BY <2>0, Here DEF Kept
  <2>2. Where(t) \in UserPcs \cup KernelPcs \cup {"none"}
    BY Here DEF TypeOK, Where, KernelPcs
  <2>3. n = 4 /\ stack[t][3].pc = "err_hang"
    <3>1. ASSUME NEW k \in Nat, Interrupted(t, k) \/ Scheduling(t, k)
          PROVE  k <= 3 /\ (k = 3 => stack[t][3].pc = "err_hang")
      BY <3>1 DEF Interrupted, Scheduling
    <3>2. ~Interrupted(t, n) /\ ~Scheduling(t, n)
      BY <2>1, <3>1
    <3>3. /\ Where(t) \notin UserPcs \cup {"none", "el1_exit", "err_hang"}
          /\ Where(t) \notin ThreadLocs \cup SchedLocs
      <4>1. n # 0 /\ n # 1 /\ n # 2
        BY <2>1
      <4> QED BY <2>1, <3>2, <4>1 DEF FramesAt
    <3>4. Where(t) = "el1_irq"
      BY <2>2, <3>3 DEF KernelPcs, ThreadLocs, SchedLocs
    <3>5. Scheduling(t, n - 1) /\ n - 1 \in Nat
      BY <2>1, <3>2, <3>4 DEF FramesAt
    <3>6. n - 1 <= 3 /\ (n - 1 = 3 => stack[t][3].pc = "err_hang")
      BY <3>1, <3>5
    <3> QED BY <2>1, <3>6
  <2>4. stack[t][3] \in ToSet(stack[t])
    <3>1. 3 \in DOMAIN stack[t]
      <4>1. stack[t] \in Seq(PtRegs) /\ Len(stack[t]) = 4
        BY <2>0, <2>3, Here DEF TypeOK
      <4> QED BY <4>1
    <3> QED BY <3>1 DEF ToSet
  <2> QED BY <2>0, <2>3, <2>4
<1> QED BY <1>1, EntryInvariance, PTL
=============================================================================
