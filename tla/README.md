# A TLA+ model of the learn_kernel kernel

This directory models, checks and partly proves the kernel in `src/src` and
`src/include`: a teaching kernel for one core of a Raspberry Pi 3B, with
preemptive kernel threads and user processes, four system calls, a page
allocator and a serial console. About 1000 lines of it are its own (C and
AArch64 assembly); `printf.c` is a vendored library.

    tlc -workers 2 -config MCSched.cfg MCSched      model-check one run
    tlapm SchedProofs.tla                           check a module's proofs

## 1. Inventory

| Part | Code | State | Operations | Talks to |
|---|---|---|---|---|
| scheduler | `sched.c`, `fork.c`, `signal.c`, `entry.S` (`cpu_switch_to`, `el1_preempt`, `work_pending`) | `task[]`, `nr_tasks`; per task `state`, `counter`, `preempt_count`, `flag`, `next`, `cpu_context` | `task_tick`, `schedule`, `preempt_schedule_irq`, `__schedule`, `pick_next_task`, `schedule_tail`, `switch_to`, `do_fork`, `exit_process` | timer interrupt (sets `flag`), page allocator, exception paths |
| page allocator | `mm.c` | `mem_map[]` | `get_free_page`, `free_page` | called by `do_fork`, `move_to_user_mode`, `sys_malloc`, `exit_process` |
| exception entry and exit | `entry.S`, `irq.S` | registers, `elr_el1`, `spsr_el1`, `sp_el0`, the `pt_regs` on kernel stacks | the vectors, `kernel_entry`, `kernel_exit`, `el0_svc`, `ret_to_user`, `ret_from_syscall`, `ret_from_fork` | everything: it is how control gets from one part to another |
| system calls | `sys.c`, `sys.S` | the caller's `pt_regs` | `sys_write`, `sys_malloc`, `sys_clone`, `sys_exit` | all of the above |
| console | `pl_uart.c` under `printf.c` | the UART's transmit FIFO | `uart_send` | called by `printf` from tasks and from `handle_irq` |
| formatted output | `printf.c` | none between calls; the caller's buffer | `printf_`, `sprintf_`, `snprintf_` | console (`_putchar`), programs |
| timer and dispatch | `timer.c`, `irq.c` | the generic timer, the pending register | `timer_init`, `handle_irq`, `handle_timer_irq` | scheduler, console |
| programs | `main.c` | their variables | `kernel_main`, `kernel_thread`, `kernel_process`, `user_process`, `user_process1` | system calls |
| boot, helpers, headers | `head.S`, `mm.S`, `utils.c`, `linker.ld`, headers | none that lasts | | |

What is hard here is that almost nothing takes a lock. One CPU runs all of it;
a timer interrupt may come wherever PSTATE.I is clear, which includes system
calls, `__schedule` and the spin in `uart_send`; and at its end the interrupt
may switch to another task if `preempt_count` is 0. So correctness rests on
three disciplines, each spread over many places: `preempt_disable` and
`preempt_enable` pair up, the interrupt mask (which `cpu_switch_to` does not
save) is right whenever it matters, and each kernel stack's frames are pushed
and popped in pairs. `PROJECT.json` lists the hazards at their lines, with the
properties that watch them.

What makes each part correct:

- scheduler: critical sections are not preempted, `preempt_count` is balanced,
  the ring of `next` pointers is whole when it is walked, the walk ends, a
  zombie never runs again, every live task runs again and again, round robin;
- page allocator: no page has two uses, refusal means full, and no page is lost
  but what a program still has from `sys_malloc` when it exits;
- exception paths: interrupted code, in either level, gets its context back;
  `get_task_pt_regs` finds the right frame; kernel stacks do not overflow;
- console: no character lost, duplicated or reordered, the handler's wait ends;
- timer: a tick takes its whole period, the first one too, the ticks go on, and
  the handler of one is over before the next is there;
- the whole: the allocator is preempted only where it can bear it, a program that
  does not look at what `sys_malloc` returned gets away with it, and the system
  comes up;
- formatted output: a number can be read back from its text, fields are as wide
  as asked, a buffer is never overrun and always ends with a NUL.

## 2. Modules

**`Sched.tla`** is the scheduler with its interleavings. A step is a stretch of
the running task's code that touches shared state where no interrupt can split
it, or a timer interrupt. A kernel stack is a list of *activations*:
`frame[t][d]` says where activation `d` of task `t` stands (1 is the thread, 2
an interrupt in it that entered `preempt_schedule_irq`), `depth[t]` how many
there are. `current` is the task whose page holds `sp`, as in `current.h`.
`last` is `x0` on return from `cpu_switch_to`, that is the argument of
`schedule_tail`. `do_fork` is five steps (disable preemption, allocate, publish
in `task[]`, link, end), `exit_process` three, `pick_next_task` one per iteration. Interrupts from
EL0 and EL1 are `El0Irq`, `El1Irq`, `El1IrqPreempt`, each with `task_tick`.

**`RoundRobin.tla`** is what the scheduler promises, with no stack, interrupt or
ring in it: tasks are created in order, the CPU passes to the cyclically next
live one, and the dead stay dead. `Sched` implements it under the mapping
`n <- nr_tasks`, `dead <-` the zombies, `cur <- current`.

**`Mm.tla`** is the allocator and its callers. `get_free_page` is one step per
slot of `mem_map`, with the test (`ProbeFree`) and the mark (`Gets...`) apart,
because `sys_malloc` and `move_to_user_mode` call it with preemption on.
`Atomic` says where preemption is off; everywhere else `Switch` may give the CPU
to any live task. `Kernel` shows that the scheduler is like that. A page's uses are `page` (the
task_struct and kernel stack), `stack` (`task_struct.stack`) and `heap` (what a
program has from `sys_malloc` and not passed on). `exit_process` gives back the
stack and nothing else: what a program still has in `heap` then is `Lost`, marked
for ever with nobody to free it, and `MapIsUse` says that these pages are the only
ones that are marked and not in use. (A zombie's `task_struct` is not given back
either, but stays in use: the ring leads through it.) Addresses are real numbers,
so the arithmetic in `free_page` is the code's.

**`Kernel.tla`** composes the two and puts the programs of `main.c` on top. It
extends `Sched`, adds the memory's variables, and instantiates `Mm` as `M` with
`nr_tasks <- forked` (a task_struct counts from the moment it has its page, one
step before `task[nr_tasks++]`) and `at <- place` (what a task is doing, read off
its kernel stack). A step of `get_free_page` is one of the running task, which
stands in `do_fork`, in a system call or in `kernel_thread`, and an interrupt may
leave it between any two; what `Sched` leaves open, when `do_fork` fails and what
a program calls, is decided by `mem_map` and by `user_process`: `upc` is where it
is between its calls, `After` and `IfCloneFails` its control flow, `pstack` what
`sys_malloc` returned last. Every step is one of `Sched`'s or a stutter
(`KernelIsSched`), and one of `Mm`'s or a stutter (`MmSpec`).

**`Entry.tla`** is `entry.S` at the level of registers: `x0`, `x8` and one for
all the rest, `elr_el1`, `spsr_el1`, `sp_el0`, and each kernel stack as the
sequence of `pt_regs` on it, the first at the top of the page where
`get_task_pt_regs` looks. `kernel_entry` pushes, `kernel_exit` pops;
`kernel_exit 0` is two steps, because what it loads into `elr_el1` and
`spsr_el1` can be overwritten before the `eret`. `sys_clone` is two steps too, and
the first ends in the middle of the `memcpy` in `do_fork`: interrupts come there,
and push their frames below the one that is copied (`HalfCopied`, `ForkCopy`).
`want` and `from` record how a task left EL0. Which task runs next is left open, as
is when a slice is over. A system call of no valid number and an exception that is no system call
(`El0Fault`) lead to `handle_invalid_entry` and `err_hang`: the first with
interrupts on, so that other tasks go on; the second with interrupts masked, so
that the kernel stops there.

**`Uart.tla`** is `uart_send` under every `printf`: the poll and the write of a
character are two steps, `handle_irq` prints in between with interrupts masked,
and may return into another task. `fifo`, its depth and `Drain` are the PL011,
which is hardware and is modelled from how `pl_uart.c` uses it.

**`Timer.tla`** extends `Uart` with what decides when its interrupts come: the
timer's count `tval`, the static `val` of `timer.c`, what `kernel_main` has done so
far (`boot` counts the entries of `BootOrder`), and whether `handle_irq` has come
to its `switch` (`served`). The interrupt is level triggered: it is `Pending`
while `tval` is 0. Time is counted in characters of the UART, since printing is
what the handler spends it on: `Pass` sends a character and counts the timer down,
and in the handler it is taken only where `uart_send` waits (`Waiting`), the
instructions between two characters taking, here, no time. At 115200 baud 10 ms
are 115 characters; after re-arming the timer the kernel prints at most 96 before
interrupts are on again: `task_tick` 35 and `handle_irq` 17, then, from EL0,
`__schedule`'s two lines of 17 and 27 (with an address of eight digits), since
`work_pending` calls `schedule` with interrupts masked and only `schedule_tail`
unmasks them; from EL1 `preempt_schedule_irq` prints 27 and unmasks them first.
That is the assumption `Period > HandlerLen - EnterLen`. `since` is a history of
the time since the timer was armed.

**`Printf.tla`** is `_vsnprintf` over a format already split into directives:
an iteration of its loop is a step, and `out`, the sink of a call, is the
console, the caller's buffer `dest` (with what lies behind it) or nothing. The
conversion of an integer is a chain of operators named after the functions
(`Ntoa`, `NtoaFormat`, `OutRev`). A call keeps everything in locals, so calls by
several tasks meet only in `uart_send`, which is `Uart`'s subject. `sent` is a
history of what `out` was called with. `RendersInteger` and `RendersText` are
written from what C says of printf, as relations, not from the code.

`SchedProofs`, `MmProofs`, `KernelProofs`, `EntryProofs`, `UartProofs`,
`TimerProofs`, `ConversionProofs` and `PrintfProofs` hold the proofs. `MCSched`, `MCMm`, `MCKernel`, `MCEntry`, `MCTimer`, `MCUart` and `MCPrintf`
are the modules TLC is run on. A definition `Broken...` is a plausible mistake in
the one after it; no specification uses it, and `PROJECT.json` says which property
must reject it.

## 3. Runs

| Run | Instance | Question | States |
|---|---|---|---|
| `sched` | 4 tasks, slice 2, one failed fork per task | safety of the scheduler, that it implements `RoundRobin`, and that every live task runs again and again | 122 274 |
| `sched_tail` | | *violated*: `schedule_tail` is given a task | |
| `sched_leak` | | *violated*: `schedule` leaves preemption enabled | |
| `mm` | 4 tasks, 7 pages, clones that exit | pages exclusive, `mem_map` exact but for what exits lose, the test still true at the mark, refusals justified, what is freed and what callers do not check | 10 520 |
| `mm_race` | 4 tasks, 8 pages, clones allocate | *violated*: user stacks and kernel stacks are apart | |
| `kernel` | 4 tasks, slice 2, 5 pages | that the scheduler is as `Mm` assumes, that no clone gets -1 for a stack, that no task_struct in use is given back, and that the system comes up | 9 352 |
| `entry` | 3 tasks, all system call numbers and an invalid one, faults | contexts kept, interrupted code resumed, frames bounded, and the inductive invariant | 1.1 million |
| `entry_x0` | | *violated*: an interrupt keeps `x0` | |
| `entry_window` | | *violated*: `elr_el1`, `spsr_el1` survive until the `eret` | |
| `timer` | 2 tasks of 3 characters, 3 ticks of 3, FIFO of 2, period 3 | ticks whole and unending, time left for tasks, and the console: order, wholeness, bounded loss, the handler returns | 38 384 |
| `uart_lost` | | *violated*: the slot that was waited for is there | |
| `printf` | 21 237 calls, `int` of 4 bits, `long` of 8, a conversion buffer of 6 | conversions as in C, buffers filled and not overrun, and that the calls meet the hypotheses of the theorems (`RoomForTexts`) | 63 712 |

Bounds, and why they are enough:

- `MaxTasks` 4 is the number of tasks the system really has (`kernel_thread`,
  `kernel_process`, two clones). The ring then has a first, a last and inner
  members, zombies side by side, and forks by two different tasks. Three tasks
  in `entry` are two programs and `kernel_process`, the fewest for two EL0
  contexts and a kernel one to be mixed up.
- `TaskSlice` is 20 in the code; with 2 there is a tick that expires a slice
  and one that does not. `counter` stops at `TaskSlice`, since it is only
  compared with it.
- `MaxFailedForks` bounds how often a `do_fork` of one task finds no page, as
  each leaves one more in `preempt_count`.
- `PageNum`: 7 pages are what `user_process` and its clones use in all, and a
  program that allocates more runs out of them (`mm`); 5 (`kernel`) are enough for
  the first clone and its stack, so the second `sys_malloc` fails and
  `user_process` goes on to clone with -1;
  `mem_map` has 257 024 slots in the code (`HIGH_MEMORY` is 1 GiB less 16 MiB,
  `LOW_MEMORY` 4 MiB, where the comment in `mm.h:11` says 8).
- `TaskLen`, `HandlerLen`, `Depth`, `MaxTicks`: an interrupt's text fills the
  FIFO, and there are enough interrupts to hit a task twice.
- `Period`, `EnterLen`: the shortest period the assumption allows, one character
  more than the handler's second text of two, so that a handler that served the
  timer earlier would meet its next tick.
- The widths of integers in `printf` are scaled down with the conversion buffer
  (`NtoaSize`, 32 in the code): an `int` always fits, a `long` in binary does
  not, and every field (digits, zeros, prefix, sign, spaces) can hit the end of
  the buffer and the width of the field. Arguments include the most negative
  number, -1 and 0. `Cells` is the 30 bytes of `user_process1` and four more,
  `SizeMax` is above every length.

Assumptions on the environment, each a named definition or constant:

- `BootTickBound` (`Sched`): `kernel_main`'s two forks take less than a slice of
  20 ticks of 10 ms. Otherwise it would be preempted with a `next` pointer
  nobody has set.
- `ZeroedRam` (`Sched`): `counter`, `preempt_count` and `flag` of the boot context's
  `task_struct` are 0. It is the page below the first stack pointer
  (`head.S:52`), which is not in `bss`, and no code sets it; every other
  task's fields are cleared by `do_fork`.
- `CloneCalls` (`Mm`): the calls that cloned programs make. The programs in
  `main.c` make none that allocates; with more, `mm_race` shows the race.
- `TimerAssumption` (`Timer`): the period is longer than what is printed after the
  timer is re-armed takes, by the numbers above; and the handler never does
  nothing while the UART could take a character.
- `TicksInExit` (`Entry`): whether an interrupt may come inside
  `kernel_exit 0`. It may, after `work_pending`; `entry_window` shows what
  then happens, and the other properties are checked with that one window shut,
  for otherwise they would all fail by it.

`CHECK_DEADLOCK FALSE` is set for `mm`, `mm_race` and `uart_lost` only, where a
bounded environment (no more pages to ask for, no more interrupts) leaves nothing
to do.

Fairness, in `sched`: weak for the kernel's own steps, since a CPU goes on
executing; strong for the timer interrupt, since the timer is re-armed by
`handle_timer_irq` and a tick that comes with interrupts masked stays pending
until they are on. Nothing for programs: they may stay in EL0, or in a system
call, for ever. `LiveTaskRuns` makes one exception: a live task that a failed
`do_fork` has left with preemption disabled (finding 2).

In `kernel` (`KernelFairSpec`) the code of whichever task runs is weakly fair and
the tick strongly, as above. Over that, the first task, if it has the CPU again
and again in a place where it may get on, does get on: a tick is 10 ms, and a task
that is resumed executes instructions before the next (`TimeLeftForTasks` is what
`Timer` says of that). `user_process` is then a program that makes its calls, as
`main.c` has it, and `ComesUp` needs that; nothing is assumed of how far
`kernel_process` or a clone gets in its slice.

In `timer`: weak for time itself (`Pass`), for `kernel_main`'s steps, for taking an
interrupt that stays pending with interrupts on, and for the handler's steps.
Nothing for the tasks, which may never print.

## 4. Findings

1. `sched.c:95`: when `pick_next_task` returns the running task, `__schedule`
   passes an uninitialized `last` to `schedule_tail`, which writes through it.
   The model lets it point to any task or nowhere. (`sched_tail`)
2. `fork.c:14`: `do_fork` returns without `preempt_enable` when there is no
   page. The task is never again preempted in the kernel. (`sched_leak`)
3. `mm.c:11`: the test and the mark of a page can be separated by a preemption
   in `sys_malloc`. (`mm_race`)
4. `entry.S:262`: `finish_ret_to_user` puts `x8` into `x0` after every
   interrupt from EL0, not only for a new process. (`entry_x0`)
5. `entry.S:264`: `kernel_exit 0` runs with interrupts on after
   `work_pending`. (`entry_window`)
6. `pl_uart.c:12`: the FIFO may be full again when `uart_send` writes.
   (`uart_lost`)

Besides, `exit_process` (`sched.c:140`) frees only `current->stack`. A page that a
program got from `sys_malloc` and gave to no clone, as when `sys_clone` fails, is
lost when it exits. Nothing in the repository says otherwise, so there is no run
for it; `MapIsUse` names the pages lost and says that no others are.

Where `printf.c` departs from C without a word in its docs, so that
`IntegerRendered` is stated without these cases (`Regular`); the kernel uses none
of them:

- `#` when the digits alone fill the width: the prefix replaces digits
  (`"%#2x"` of `0xab` prints `0x`); `#`, `0` and a width one or two above the
  digits, and `%#0b`, for the same reason (`HashFits`);
- a number that with its zeros, prefix and sign does not fit into 32 characters
  loses digits or its sign (`FitsBuffer`);
- `-` with a precision above the number of digits: the leading zeros are left out,
  and with them the 0 that `"%-.1d"` of 0 would be;
- `%#o` with a precision: the 0 of the prefix is written besides the zeros of the
  precision instead of being one of them, and `"%#.0o"` of 0 writes nothing;
- `%hhd`: `char` has no sign on this machine, so -1 prints as 255;
- a negative precision given by `*` counts as 0, not as none.

## 5. Proofs

Every theorem is for all values of the constants under the module's named
assumption.

`SchedProofs` proves that `IInv` of `Sched` is an inductive invariant
(`Invariance`), and from it each of the safety properties of run `sched`, the
action property `ZombieNeverRunsAgain`, and the refinement
`Spec => RoundRobinSpec` (`Refinement`). None of the properties is inductive on
its own. `IInv` adds the shape of the stacks (`StackShape`: a second activation
is always in the scheduler, above code that may be interrupted; `OthersWait`:
whoever does not run stands in `cpu_switch_to` or has not started), the state
of the table while a fork is in progress (`PagesTaken`, `BootPhase`), what the
walk has passed (`WalkedPastZombies`, which gives the refinement its
"first live one after"), `KernelProcessLives` (the second task never leaves the
kernel, hence never exits, hence the walk ends), and where `last` may be set
(`LastPending`). There is one lemma per group of actions and conjunct. From the
simulation of `RoundRobin` (`RoundRobinSimulated`) follows the part of `LiveTaskRuns`
that is about steps: at each switch a live task that waits comes nearer to the CPU in
the cyclic order, which forks and exits leave as it is (`NobodyOvertaken`), so it
waits for less than `MaxTasks` switches. That switches go on is left to TLC.

`MmProofs` proves, for a system in which only the first program allocates
(`OneAllocator`, which is what `main.c` does), that `IInv` of `Mm` is inductive:
`Exclusive`, `MapIsUse` and `CheckedStillFree` strengthen each other (the proof takes
the pages in use and the lost ones together, `GivenOut`), and
`EarlyMap` says which pages are taken before there is a program, which is why
the calls whose failure nobody looks at cannot fail (`EarlyPages`).
`RefusedOnlyWhenFull` is about every slot the scan has passed, not only about its
end, and is inductive with `AtomicRuns` (whoever cannot be preempted runs: hence
nobody frees a page behind a `do_fork`'s scan); `StackKept` gives `FreesItsOwn`.
The arithmetic of addresses is `AddressFacts`.

`KernelProofs` proves that every step of `Kernel` is one of `Sched`
(`KernelIsSched`), so that `Invariance` of `SchedProofs` holds of it, and then, under
that invariant, that `MInv` is inductive. `MInv` says where a task in
`get_free_page` stands on its kernel stack (`CallPlaces`), who may ever fork or exit
(`TaskKinds`), what `user_process` has in its hands before each clone
(`CloneHasStack`), and that a scan has passed taken slots only (`ScanExact`): nobody
but `user_process` frees anything, and that is its last call. So once `sys_malloc`
has found nothing, every slot is taken until then (`FullAfterFailure`), the
`do_fork` that follows finds nothing either, and `ClonesHaveStacks` follows. With
both invariants each step of `Kernel` maps to one of `Mm` or a stutter
(`KernelImplementsMm`, one lemma per action): that a task in a critical section is
the one that runs (`CriticalRuns`, from `Sched`'s invariant) is what `Mm` assumes as
`Atomic`. `Mm`'s invariant then holds of the kernel's memory (`SameMemory`,
`MemoryPages`), and with `PointersToTasks` gives `TaskStructsKept`.

`EntryProofs` proves, for a kernel in which no interrupt comes inside
`kernel_exit 0` (`~TicksInExit`), that `IInv` of `Entry` is inductive, for any number
of tasks and any system call numbers. It says for each task what its place in the
code tells of its kernel stack and of the registers: how many frames there are
(`FramesAt`: none in EL0, one in the code an exception from EL0 leads to, two in
`err_hang`, one more if that code was interrupted and another for an interrupt in
the scheduler), what the registers hold or will hold again (`RightAt`, of the
running task's registers and of those saved in the second frame), that
interrupts are masked where an interrupt's frame is about to be popped (`Masked`), and
that a half-copied frame is left alone until its copy goes on (`CopyUnderWay`:
preemption is off, so nobody else runs). A
step is the running task's, so what holds of the others is kept (`OtherKept`), and
there is one lemma per action, or group of alike ones, for the running task; only
`Pick`, `SysClone` and `ForkCopy` concern two. All four safety properties of run `entry` follow.

`UartProofs` proves `UartInv` inductive and from it `InOrder`, `HandlerWhole` and
`LostBounded`. The bound on losses counts what may yet be lost: a task that has
polled and not written while the FIFO may have been filled (`AtRisk`) is charged to
an interrupt that has come (`RiskBounded`). The handler's wholeness needs that an
unfinished text is the last thing accepted (`UnfinishedIsLast`).
`TimerProofs` shows that `Timer` implements `Uart`'s `Safety` (`TimerIsUart`), so
those theorems hold with the interrupts where the timer has them, and proves
`TimerInv`: until the timer is served it has run out (`ServedOnTime`), afterwards
each character of the second text takes at most the time of one (`OneForEach`), and
`tval + since = Period`. `NoTickEarly` and `TimeIsLeft` are steps from it.

`ConversionProofs` is about the operators of `Printf`, for any argument, flags,
width and precision, any buffer of `_ntoa_format` and any widths of the integers.
The functions it is about are recursive on numbers (`Powers`, `Quotients`,
`NumberOf`, `Visible`, `MostWritten`), and the library's induction theorems take an
operator, so an induction here shows that a set of numbers holds 0 and every
successor (`Induction`, from the least element of a set of numbers), and that a
recursive function exists is itself proved (`Iteration`, `Recursion`). The digits are
`Numeral(v, base, flags, n)`, the first `n` remainders: zeros put before the number,
a prefix put over them and the reversal at the end are then facts about `n`
(`ZerosAreNumeral`, `HashNumeral`, `OutRevFacts`), and what they stand for is
`NumeralIsNumber`: `n` digits give back `v` once nothing is left of it after `n`
divisions. `NumberInBuffer` puts the chain from `NtoaDigits` to `OutRev` together;
`Shown` is how many digits there are in the end, and the conditions of `Regular` are
what its arithmetic needs; those about `-` and about `%#o` were made exact by it.
`LongestFacts` bounds what a directive writes.

`PrintfProofs` is about the steps. `TextInv` says only that positions and texts
are ones, and from it each iteration is a conversion of `ConversionProofs`:
`IntegersRendered` and `TextsRendered`. `CountInv` says that the count of
characters `idx` is at most what the directives passed can write
(`MostWritten`). It needs `CountsFit`: no format of the calls writes as many
characters as the largest `size_t`, for then the count would wrap, which
`TypeOK` says it does not. `BufferInv` adds `InsideBuffer`, and is inductive
because `out` compares with `maxlen` before it writes or, for `sprintf`, which
is told no size, because `idx` is below `MostWritten`. For that it needs
`ArraysFit`: whoever calls `sprintf` has room for what the format can write, as
`user_process1` has, to the byte. `DeliveredInv` adds that the buffer holds a
prefix of `sent` and the NUL behind it, and the console all of `sent` but its
NULs (`VisibleConcat`). Both hypotheses are about the calls, which are the
callers', and TLC evaluates them for the run's, among them `user_process1`'s
(`RoomForTexts`); `snprintf` and `printf` are not restricted by `ArraysFit`.

Every invariant and action property that a run checks is thus proved. Only
model-checked are the liveness properties, `LiveTaskRuns`, `ComesUp`,
`HandlerReturns` and `Ticking`: they need fairness and `ENABLED`.

## 6. Not modelled

- In `printf.c`: reading a format's text (`_is_digit`, `_atoi`), floating point
  (not in the build), `vprintf_`, `vsnprintf_`, `fctprintf` (never called), and a
  string without a NUL.
- `uart_init`, `head.S`, `linker.ld`: straight-line setup before anything runs
  concurrently. `uart_recv`, `uart_send_string`, `list.h`: never used.
- The vectors nothing here raises (FIQ, SError, AArch32, synchronous exceptions in
  EL1); like the modelled ones they print and hang.
- The test of the pending register in `handle_irq` for any other value than the
  timer's: no other source is enabled. The time the CPU takes for anything but
  waiting for the UART.
- What `sys_write` returns: it stores `printf`'s result in `regs[0]`, and being void
  leaves something else in `x0`, which `ret_from_syscall` stores over it
  (`entry.S:232`). `want` in `Entry` takes that `x0` for the result, so the loss shows
  in no property; no program looks at the result.
- Contents of memory other than `pt_regs`; the overlap of a kernel stack that
  grows too deep with the `task_struct` at the bottom of its page is covered
  only by the bound on frames (`FramesBounded`).
- The bound of 64 on `task[]`: the programs there are fork four tasks, and the
  models stop at `MaxTasks`.

## 7. Plan

Done, in order of importance: `Sched` with `RoundRobin`, `Mm`, their composition
`Kernel` with the programs, `Uart` and `Timer`, `Entry`, and `Printf`, each with its
proofs.

Left: `Kernel` with the registers of `Entry` in the place of `Sched`'s abstract frames.
