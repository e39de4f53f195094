-------------------------------- MODULE Timer --------------------------------
(***************************************************************************)
(* The system tick: timer_init (src/src/timer.c) sets the generic timer up *)
(* while interrupts are masked, handle_irq (src/src/irq.c) prints, finds   *)
(* the timer pending, re-arms it and prints again.  The interrupt is level *)
(* triggered: it is there for as long as the timer has run out.            *)
(*                                                                         *)
(* The handler waits for the UART with interrupts masked, so how long it   *)
(* takes is a matter of how much it prints.  Time is counted in characters *)
(* of the UART, 87 us at 115200 baud; the code between two characters      *)
(* takes little of that, and here nothing.  This is Uart with its          *)
(* interrupts where the timer has them and its FIFO sending when time      *)
(* passes.                                                                 *)
(***************************************************************************)
EXTENDS Uart

CONSTANTS
  EnterLen,     \* how many characters handle_irq prints before it looks who is pending
  Period        \* the time of clk / HZ counts of the timer

(* 10 ms are 115 characters.  After it has re-armed the timer the kernel   *)
(* prints at most 96 before interrupts are on again: task_tick's 35,       *)
(* handle_irq's 17 and, from EL0, __schedule's 17 and 27 on the way to     *)
(* schedule_tail; from EL1 preempt_schedule_irq's 27 come in their place.  *)
ASSUME TimerAssumption ==
  /\ EnterLen \in 0 .. HandlerLen
  /\ Period \in Nat /\ Period > HandlerLen - EnterLen

VARIABLES
  boot,         \* how far kernel_main has come in BootOrder
  val,          \* timer.c: what the timer is armed with
  tval,         \* cntp_tval_el0: the time until the timer has run out
  served,       \* handle_timer_irq has been called in this handle_irq
  since         \* history: the time since the timer was armed, up to Period

timerVars == <<boot, val, tval, served, since>>

----------------------------------------------------------------------------
(* What kernel_main does about the timer, interrupts masked until the end. *)
(* (A definition named Broken... is a mistake in the one after it.)        *)
BrokenBootOrder ==
  <<"generic_timer_init", "generic_timer_reset", "read_clock",
    "enable_timer_interrupt", "enable_irq">>

BrokenNotRouted ==
  <<"generic_timer_init", "read_clock", "generic_timer_reset", "enable_irq">>

BootOrder ==
  <<"generic_timer_init", "read_clock", "generic_timer_reset",
    "enable_timer_interrupt", "enable_irq">>

Done(s) == \E k \in 1 .. boot : BootOrder[k] = s
Booted  == boot = Len(BootOrder)

(* cntp_tval_el0 holds anything at reset.                                  *)
TimerInit ==
  /\ Init
  /\ boot = 0 /\ val = 0 /\ tval \in 0 .. Period
  /\ served = FALSE /\ since = 0

generic_timer_reset == tval' = val /\ since' = 0

BootStep ==
  /\ ~Booted /\ ~in_irq
  /\ boot' = boot + 1
  /\ val' = IF BootOrder[boot'] = "read_clock" THEN Period ELSE val
  /\ IF BootOrder[boot'] = "generic_timer_reset"
     THEN generic_timer_reset
     ELSE UNCHANGED <<tval, since>>
  /\ UNCHANGED <<vars, served>>

----------------------------------------------------------------------------
(* The interrupt line, CORE0's pending register, and the CPU's mask.       *)
Fired   == Done("generic_timer_init") /\ tval = 0
Pending == Fired /\ Done("enable_timer_interrupt")

TimerIrq ==
  /\ Pending /\ Done("enable_irq")
  /\ Irq
  /\ UNCHANGED timerVars

(* Between its two texts handle_irq serves the timer, if that is pending.  *)
BrokenServeAt == 0

ServeAt == EnterLen

ServePoint == (ticks - 1) * HandlerLen + ServeAt

Serving ==
  /\ in_irq /\ ~served /\ Handler \notin polled
  /\ written[Handler] = ServePoint

HandleTimerIrq ==
  /\ Serving
  /\ IF Pending THEN generic_timer_reset ELSE UNCHANGED <<tval, since>>
  /\ served' = TRUE
  /\ UNCHANGED <<vars, boot, val>>

UartSend ==
  /\ Booted \/ in_irq
  /\ ~Serving
  /\ Poll \/ Write
  /\ UNCHANGED timerVars

TimerIrqReturn ==
  /\ IrqReturn /\ ~Serving
  /\ served' = FALSE
  /\ UNCHANGED <<boot, val, tval, since>>

(* The time of a character: the UART sends one, the timer counts down.  In *)
(* the handler it passes only while the handler waits for the UART.        *)
BrokenCountDown == tval - 1

CountDown == IF tval = 0 THEN 0 ELSE tval - 1

Waiting == ToPrint(writer) /\ writer \notin polled /\ ~HasRoom

Pass ==
  /\ in_irq => Waiting /\ ~Serving
  /\ tval' = IF Done("generic_timer_init") THEN CountDown ELSE tval
  /\ since' = IF since < Period THEN since + 1 ELSE since
  /\ IF fifo = <<>> THEN UNCHANGED vars ELSE Drain
  /\ UNCHANGED <<boot, val, served>>

HandlerStep == in_irq /\ (UartSend \/ HandleTimerIrq \/ TimerIrqReturn)

TimerNext ==
  BootStep \/ TimerIrq \/ HandleTimerIrq \/ UartSend \/ TimerIrqReturn \/ Pass

(* Time passes, and the CPU goes on: through kernel_main's start, into the *)
(* handler when an interrupt is there, and through the handler.            *)
TimerFairness ==
  /\ WF_<<vars, timerVars>>(Pass)
  /\ WF_<<vars, timerVars>>(BootStep)
  /\ WF_<<vars, timerVars>>(TimerIrq)
  /\ WF_<<vars, timerVars>>(HandlerStep)

TimerSafety == TimerInit /\ [][TimerNext]_<<vars, timerVars>>
TimerSpec   == TimerSafety /\ TimerFairness

----------------------------------------------------------------------------
TimerTypeOK ==
  /\ TypeOK
  /\ boot \in 0 .. Len(BootOrder) /\ val \in {0, Period} /\ tval \in 0 .. Period
  /\ served \in BOOLEAN /\ since \in 0 .. Period

(* A tick takes the time it should, the first one too: no interrupt comes  *)
(* before a whole period has passed since the timer was armed.  timer_init *)
(* arms it with a val that is already set, before the interrupt can come.  *)
TicksApart == [][~in_irq /\ in_irq' => since = Period]_<<vars, timerVars>>

(* When handle_irq returns the next interrupt is not there yet, whatever   *)
(* was in the FIFO before it: the interrupted code gets on.                *)
TimeLeftForTasks == [][in_irq /\ ~in_irq' => tval > 0]_<<vars, timerVars>>

(* The ticks go on coming, and every one is over at some time.             *)
Ticking == <>(ticks = MaxTicks /\ ~in_irq)
----------------------------------------------------------------------------
(* The inductive invariant: the timer is right once it has been armed, ... *)
Armed ==
  /\ in_irq => Booted
  /\ Done("read_clock") => val = Period
  /\ Done("generic_timer_reset") => tval + since = Period

(* ... the timer has run out until it is served, which is after the first  *)
(* text and before the end, ...                                            *)
ServedOnTime ==
  /\ served => in_irq /\ ServePoint <= written[Handler]
  /\ in_irq => ticks > 0
  /\ in_irq /\ ~served =>
       /\ tval = 0 /\ written[Handler] <= ServePoint
       /\ Handler \in polled => written[Handler] < ServePoint

(* ... and then every character of the second text takes the time of one.  *)
OneForEach ==
  served =>
    \/ since <= written[Handler] - ServePoint
    \/ /\ since = written[Handler] - ServePoint + 1
       /\ ToPrint(Handler) /\ HasRoom

TimerInv == TimerTypeOK /\ UartInv /\ Armed /\ ServedOnTime /\ OneForEach
=============================================================================
