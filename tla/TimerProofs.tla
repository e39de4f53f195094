------------------------------ MODULE TimerProofs ------------------------------
(***************************************************************************)
(* Proofs about Timer: it is Uart, whose invariants it inherits, and no    *)
(* tick comes early or leaves the interrupted code no time, for every      *)
(* period longer than what handle_irq prints after it has re-armed the     *)
(* timer.                                                                  *)
(***************************************************************************)
EXTENDS Timer, UartProofs

(* What has been done when the first b steps of BootOrder have.            *)
LEMMA OrderFacts ==
  ASSUME NEW b \in 0 .. Len(BootOrder)
  PROVE  /\ b \in 0 .. 5 /\ Len(BootOrder) = 5
         /\ (\E k \in 1 .. b : BootOrder[k] = "generic_timer_init") <=> b >= 1
         /\ (\E k \in 1 .. b : BootOrder[k] = "read_clock") <=> b >= 2
         /\ (\E k \in 1 .. b : BootOrder[k] = "generic_timer_reset") <=> b >= 3
         /\ (\E k \in 1 .. b : BootOrder[k] = "enable_timer_interrupt") <=> b >= 4
         /\ (\E k \in 1 .. b : BootOrder[k] = "enable_irq") <=> b >= 5
<1>1. /\ Len(BootOrder) = 5
      /\ BootOrder[1] = "generic_timer_init" /\ BootOrder[2] = "read_clock"
      /\ BootOrder[3] = "generic_timer_reset" /\ BootOrder[4] = "enable_timer_interrupt"
      /\ BootOrder[5] = "enable_irq"
  BY DEF BootOrder
<1>2. \A k \in 1 .. b : k = 1 \/ k = 2 \/ k = 3 \/ k = 4 \/ k = 5
  BY <1>1
<1> QED BY <1>1, <1>2

(* BootOrder, spelled out.                                                 *)
LEMMA BootFacts ==
  ASSUME boot \in 0 .. Len(BootOrder)
  PROVE  /\ boot \in 0 .. 5 /\ (Booted <=> boot = 5)
         /\ Done("generic_timer_init") <=> boot >= 1
         /\ Done("read_clock") <=> boot >= 2
         /\ Done("generic_timer_reset") <=> boot >= 3
         /\ Done("enable_timer_interrupt") <=> boot >= 4
         /\ Done("enable_irq") <=> boot >= 5
BY OrderFacts DEF Done, Booted

(* The constants.                                                          *)
LEMMA TimerFacts ==
  /\ EnterLen \in 0 .. HandlerLen
  /\ Period \in Nat /\ Period > HandlerLen - EnterLen
  /\ HandlerLen \in Nat \ {0}
BY TimerAssumption, UartAssumption

(* Every step is one of Uart, or none of it.                               *)
LEMMA TimerStepIsUartStep == [TimerNext]_<<vars, timerVars>> => [Next]_vars
BY DEF TimerNext, BootStep, TimerIrq, HandleTimerIrq, UartSend, TimerIrqReturn, Pass,
       Next, timerVars

(* What the counts of characters are.                                      *)
LEMMA Counts ==
  ASSUME TypeOK
  PROVE  /\ written[Handler] \in Int /\ ticks \in Nat
         /\ ServePoint \in Int /\ ticks * HandlerLen \in Int
         /\ ticks * HandlerLen = ServePoint + (HandlerLen - EnterLen)
<1>1. written[Handler] \in Int /\ ticks \in Nat /\ HandlerLen \in Nat /\ EnterLen \in Nat
  BY TimerFacts, ConstantFacts DEF TypeOK
<1>2. ticks * HandlerLen = (ticks - 1) * HandlerLen + HandlerLen
  BY <1>1
<1>3. (ticks - 1) * HandlerLen \in Int /\ ticks * HandlerLen \in Int
  BY <1>1
<1> QED BY <1>1, <1>2, <1>3 DEF ServePoint, ServeAt

----------------------------------------------------------------------------
(* One lemma for each action; that each keeps UartInv is UartProofs'.      *)
LEMMA TimerInitInv == TimerInit => TimerInv
<1> SUFFICES ASSUME TimerInit PROVE TimerInv
  OBVIOUS
<1>1. UartInv
  BY InitInv DEF TimerInit
<1>2. TimerTypeOK
  <2>1. 0 \in 0 .. Len(BootOrder)
    BY DEF BootOrder
  <2>2. boot = 0 /\ val = 0 /\ tval \in 0 .. Period /\ served = FALSE /\ since = 0
    BY DEF TimerInit
  <2>3. since \in 0 .. Period
    BY <2>2, TimerFacts
  <2>4. TypeOK
    BY <1>1 DEF UartInv
  <2> QED BY <2>1, <2>2, <2>3, <2>4 DEF TimerTypeOK
<1>3. Armed /\ ServedOnTime /\ OneForEach
  BY <1>2, BootFacts DEF TimerInit, Init, TimerTypeOK, Armed, ServedOnTime, OneForEach
<1> QED BY <1>1, <1>2, <1>3 DEF TimerInv

(* A step of kernel_main's start.                                          *)
LEMMA BootStepInv == TimerInv /\ UartInv' /\ BootStep => TimerInv'
<1> SUFFICES ASSUME TimerInv, UartInv', BootStep PROVE TimerInv'
  OBVIOUS
<1>1. /\ boot \in 0 .. 4 /\ boot' = boot + 1 /\ boot \in 0 .. Len(BootOrder)
      /\ boot' \in 0 .. Len(BootOrder)
  BY BootFacts DEF TimerInv, TimerTypeOK, BootStep, Booted
<1>2. /\ BootOrder[boot'] = "read_clock" <=> boot' = 2
      /\ BootOrder[boot'] = "generic_timer_reset" <=> boot' = 3
  BY <1>1 DEF BootOrder
<1>3. /\ val' = IF boot' = 2 THEN Period ELSE val
      /\ tval' = IF boot' = 3 THEN val ELSE tval
      /\ since' = IF boot' = 3 THEN 0 ELSE since
      /\ UNCHANGED vars /\ served' = served /\ ~in_irq
  BY <1>1, <1>2 DEF BootStep, generic_timer_reset
<1>4. TimerTypeOK'
  BY <1>1, <1>3, TimerFacts DEF TimerInv, TimerTypeOK, UartInv
<1>5. (boot >= 2 => val = Period) /\ (boot >= 3 => tval + since = Period)
  BY <1>1, BootFacts DEF TimerInv, Armed
<1>6. Armed'
  <2>1. /\ Done("read_clock")' <=> boot' >= 2
        /\ Done("generic_timer_reset")' <=> boot' >= 3
    BY <1>1, OrderFacts DEF Done
  <2> QED BY <1>1, <1>3, <1>5, <2>1, TimerFacts DEF Armed, vars
<1>7. ServedOnTime' /\ OneForEach'
  BY <1>3 DEF TimerInv, vars, ServedOnTime, OneForEach
<1> QED BY <1>4, <1>6, <1>7 DEF TimerInv

(* Steps that leave the timer, and what has been done about it, alone.     *)
LEMMA SameArmed ==
  ASSUME TimerInv, UNCHANGED timerVars, in_irq' => in_irq
  PROVE  Armed'
BY DEF TimerInv, Armed, timerVars, Done, Booted

(* The types of what a step leaves alone.                                  *)
LEMMA SameTimerTypes ==
  ASSUME TimerInv, TypeOK', UNCHANGED timerVars
  PROVE  TimerTypeOK'
BY DEF TimerInv, TimerTypeOK, timerVars

(* The interrupt comes when the timer has run out.                         *)
LEMMA TimerIrqInv == TimerInv /\ UartInv' /\ TimerIrq => TimerInv'
<1> SUFFICES ASSUME TimerInv, UartInv', TimerIrq PROVE TimerInv'
  OBVIOUS
<1>1. TypeOK /\ boot \in 0 .. Len(BootOrder)
  BY DEF TimerInv, TimerTypeOK
<1>2. /\ ~in_irq /\ in_irq' = TRUE /\ ticks' = ticks + 1 /\ written' = written
      /\ polled' = polled /\ tval = 0 /\ UNCHANGED timerVars /\ Booted
  BY <1>1, BootFacts DEF TimerIrq, Irq, Pending, Fired
<1>3. TimerTypeOK'
  BY <1>2, SameTimerTypes DEF UartInv
<1>4. Armed'
  BY <1>2 DEF TimerInv, Armed, timerVars, Done, Booted
<1>5. written[Handler] = ticks * HandlerLen /\ Handler \notin polled /\ ~served
  BY <1>2 DEF TimerInv, UartInv, InTheMiddle, ServedOnTime
<1>6. ServePoint' = ticks * HandlerLen + EnterLen /\ ticks' > 0
  BY <1>1, <1>2, Counts DEF ServePoint, ServeAt
<1>7. ServedOnTime' /\ OneForEach'
  BY <1>1, <1>2, <1>5, <1>6, Counts, TimerFacts DEF ServedOnTime, OneForEach, timerVars
<1> QED BY <1>3, <1>4, <1>7 DEF TimerInv

(* It is re-armed, after the first text.                                   *)
LEMMA HandleTimerIrqInv == TimerInv /\ UartInv' /\ HandleTimerIrq => TimerInv'
<1> SUFFICES ASSUME TimerInv, UartInv', HandleTimerIrq PROVE TimerInv'
  OBVIOUS
<1>1. TypeOK /\ boot \in 0 .. Len(BootOrder) /\ boot' = boot /\ UNCHANGED vars
  BY DEF TimerInv, TimerTypeOK, HandleTimerIrq
<1>2. in_irq /\ ~served /\ written[Handler] = ServePoint /\ served' = TRUE /\ val' = val
  BY DEF HandleTimerIrq, Serving
<1>3. Pending
  BY <1>1, <1>2, BootFacts DEF TimerInv, Armed, ServedOnTime, Pending, Fired
<1>4. tval' = Period /\ since' = 0 /\ val = Period
  BY <1>1, <1>2, <1>3, BootFacts
  DEF HandleTimerIrq, generic_timer_reset, TimerInv, Armed
<1>5. TimerTypeOK'
  BY <1>1, <1>2, <1>4, TimerFacts DEF TimerInv, TimerTypeOK, UartInv
<1>6. Armed'
  BY <1>1, <1>2, <1>4, TimerFacts DEF TimerInv, Armed, vars, Done, Booted
<1>7. ServePoint' = ServePoint /\ written' = written /\ in_irq' = in_irq /\ ticks' = ticks
  BY <1>1 DEF vars, ServePoint
<1>8. ServedOnTime' /\ OneForEach'
  BY <1>1, <1>2, <1>4, <1>7, Counts DEF TimerInv, ServedOnTime, OneForEach
<1> QED BY <1>5, <1>6, <1>8 DEF TimerInv

(* The handler returns.                                                    *)
LEMMA TimerIrqReturnInv == TimerInv /\ UartInv' /\ TimerIrqReturn => TimerInv'
<1> SUFFICES ASSUME TimerInv, UartInv', TimerIrqReturn PROVE TimerInv'
  OBVIOUS
<1>1. ~in_irq' /\ ~served' /\ UNCHANGED <<boot, val, tval, since>> /\ served' = FALSE
  BY DEF TimerIrqReturn, IrqReturn
<1>2. TimerTypeOK'
  BY <1>1 DEF TimerInv, TimerTypeOK, UartInv
<1>3. Armed'
  BY <1>1 DEF TimerInv, Armed, Done, Booted
<1>4. ServedOnTime' /\ OneForEach'
  BY <1>1 DEF ServedOnTime, OneForEach
<1> QED BY <1>2, <1>3, <1>4 DEF TimerInv

(* A character is polled for or written, by a task or by the handler.      *)
LEMMA UartSendInv == TimerInv /\ UartInv' /\ UartSend => TimerInv'
<1> SUFFICES ASSUME TimerInv, UartInv', UartSend PROVE TimerInv'
  OBVIOUS
<1>1. TypeOK /\ TypeOK' /\ UartInv
  BY DEF TimerInv, TimerTypeOK, UartInv
<1>2. /\ UNCHANGED timerVars /\ in_irq' = in_irq /\ ticks' = ticks
      /\ Poll \/ Write
  BY DEF UartSend, Poll, Write
<1>3. TimerTypeOK' /\ Armed'
  BY <1>1, <1>2, SameTimerTypes, SameArmed
<1>4. ServePoint' = ServePoint /\ ServePoint \in Int /\ written[Handler] \in Int
  BY <1>1, <1>2, Counts DEF ServePoint
<1>5. writer = Handler <=> in_irq
  BY <1>1, WriterFacts
<1>6. ASSUME ~in_irq PROVE ServedOnTime' /\ OneForEach'
  BY <1>2, <1>6 DEF TimerInv, ServedOnTime, OneForEach, timerVars
<1>7. ASSUME in_irq, Poll PROVE ServedOnTime' /\ OneForEach'
  <2>1. /\ written' = written /\ Handler \in polled' /\ Handler \notin polled
        /\ fifo' = fifo
    BY <1>5, <1>7 DEF Poll
  <2>2. ~served => written[Handler] # ServePoint
    BY <1>7, <2>1 DEF UartSend, Serving
  <2> QED
    BY <1>2, <1>4, <1>7, <2>1, <2>2
    DEF TimerInv, ServedOnTime, OneForEach, timerVars, ToPrint, HasRoom
<1>8. ASSUME in_irq, Write PROVE ServedOnTime' /\ OneForEach'
  <2>1. written'[Handler] = written[Handler] + 1 /\ Handler \in polled /\ Handler \notin polled'
    BY <1>1, <1>5, <1>8, ConstantFacts DEF Write, NextChar, TypeOK
  <2> QED
    BY <1>2, <1>4, <1>8, <2>1 DEF TimerInv, TimerTypeOK, ServedOnTime, OneForEach, timerVars
<1>9. ServedOnTime' /\ OneForEach'
  BY <1>2, <1>6, <1>7, <1>8
<1> QED BY <1>3, <1>9 DEF TimerInv

(* The time of a character passes.                                         *)
LEMMA PassInv == TimerInv /\ UartInv' /\ Pass => TimerInv'
<1> SUFFICES ASSUME TimerInv, UartInv', Pass PROVE TimerInv'
  OBVIOUS
<1>1. /\ TypeOK /\ TypeOK' /\ boot \in 0 .. Len(BootOrder) /\ boot' = boot
      /\ val' = val /\ served' = served /\ tval \in 0 .. Period /\ since \in 0 .. Period
  BY DEF TimerInv, TimerTypeOK, UartInv, Pass
<1>2. /\ UNCHANGED <<cur, in_irq, ticks, polled, written, lost>>
      /\ fifo # <<>> => fifo' = Tail(fifo)
  BY DEF Pass, Drain, vars
<1>3. /\ tval' = IF Done("generic_timer_init") THEN (IF tval = 0 THEN 0 ELSE tval - 1) ELSE tval
      /\ since' = IF since < Period THEN since + 1 ELSE since
  BY DEF Pass, CountDown
<1>4. TimerTypeOK'
  BY <1>1, <1>3, TimerFacts DEF TimerInv, TimerTypeOK
<1>5. Armed'
  <2>1. tval + since = Period => tval = 0 <=> ~(since < Period)
    BY <1>1, TimerFacts
  <2>2. Done("generic_timer_reset") => tval' + since' = Period
    BY <1>1, <1>3, <2>1, BootFacts, TimerFacts DEF TimerInv, Armed
  <2> QED BY <1>1, <1>2, <2>2 DEF TimerInv, Armed, Done, Booted
<1>6. ServePoint' = ServePoint /\ ServePoint \in Int /\ written[Handler] \in Int
  BY <1>1, <1>2, Counts DEF ServePoint
<1>7. ServedOnTime'
  BY <1>1, <1>2, <1>3, <1>6 DEF TimerInv, ServedOnTime
<1>8. OneForEach'
  <2> SUFFICES ASSUME served PROVE OneForEach'
    BY <1>1 DEF OneForEach
  <2>1. in_irq /\ writer = Handler
    BY <1>1, WriterFacts DEF TimerInv, ServedOnTime
  <2>2. ToPrint(Handler) /\ ~HasRoom
    BY <2>1 DEF Pass, Waiting
  <2>3. since <= written[Handler] - ServePoint
    BY <2>2 DEF TimerInv, OneForEach
  <2>4. HasRoom' /\ ToPrint(Handler)'
    <3>0. fifo \in Seq(Chars) /\ Len(fifo) <= Depth /\ ~(Len(fifo) < Depth) /\ Depth \in Nat \ {0}
      BY <1>1, <2>2, ConstantFacts DEF TypeOK, HasRoom
    <3>1. fifo # <<>> /\ Len(fifo) \in Nat /\ Len(fifo) <= Depth /\ fifo \in Seq(Chars)
      <4> HIDE DEF Pass, TypeOK
      <4> QED BY <3>0
    <3>2. Len(Tail(fifo)) = Len(fifo) - 1
      BY <3>1
    <3> QED BY <1>2, <2>2, <3>1, <3>2, ConstantFacts DEF HasRoom, ToPrint
  <2> QED BY <1>1, <1>2, <1>3, <1>6, <2>3, <2>4 DEF OneForEach
<1> QED BY <1>4, <1>5, <1>7, <1>8 DEF TimerInv

----------------------------------------------------------------------------
(* Every step keeps the invariant.                                         *)
LEMMA TimerNextInv == TimerInv /\ [TimerNext]_<<vars, timerVars>> => TimerInv'
<1> SUFFICES ASSUME TimerInv, [TimerNext]_<<vars, timerVars>> PROVE TimerInv'
  OBVIOUS
<1>1. UartInv'
  BY TimerStepIsUartStep, NextInv DEF TimerInv
<1>2. CASE TimerNext
  BY <1>1, <1>2, BootStepInv, TimerIrqInv, HandleTimerIrqInv, UartSendInv,
     TimerIrqReturnInv, PassInv DEF TimerNext
<1>3. CASE UNCHANGED <<vars, timerVars>>
  <2>1. TimerTypeOK' /\ Armed'
    BY <1>1, <1>3, SameTimerTypes, SameArmed DEF UartInv, vars
  <2>2. ServedOnTime' /\ OneForEach'
    BY <1>3 DEF vars, timerVars, TimerInv, ServedOnTime, OneForEach, ServePoint, ToPrint, HasRoom
  <2> QED BY <1>1, <2>1, <2>2 DEF TimerInv
<1> QED BY <1>2, <1>3

(* The timer and its interrupts are a Uart with interrupts: what is proved *)
(* of its output holds here.                                               *)
THEOREM TimerIsUart == TimerSafety => Safety
<1>1. TimerInit => Init
  BY DEF TimerInit
<1> QED BY <1>1, TimerStepIsUartStep, PTL DEF TimerSafety, Safety

(* The inductive invariant holds in every state.                           *)
THEOREM TimerInvariance == TimerSafety => []TimerInv
<1> QED BY TimerInitInv, TimerNextInv, PTL DEF TimerSafety

(* No tick comes before its time.                                          *)
THEOREM NoTickEarly == TimerSafety => TicksApart
<1>1. TimerInv /\ [TimerNext]_<<vars, timerVars>>
        => [~in_irq /\ in_irq' => since = Period]_<<vars, timerVars>>
  <2> SUFFICES ASSUME TimerInv, TimerNext, ~in_irq, in_irq'
               PROVE  since = Period
    OBVIOUS
  <2>1. TimerIrq
    BY DEF TimerNext, BootStep, HandleTimerIrq, Serving, UartSend, Poll, Write,
           TimerIrqReturn, IrqReturn, Pass, Drain, vars
  <2>2. boot \in 0 .. Len(BootOrder) /\ since \in Nat
    BY TimerFacts DEF TimerInv, TimerTypeOK
  <2>3. tval = 0 /\ Done("generic_timer_reset")
    BY <2>1, <2>2, BootFacts DEF TimerIrq, Pending, Fired
  <2> QED BY <2>2, <2>3 DEF TimerInv, Armed
<1> QED BY <1>1, TimerInvariance, PTL DEF TimerSafety, TicksApart

(* The interrupted code gets on before the next tick.                      *)
THEOREM TimeIsLeft == TimerSafety => TimeLeftForTasks
<1>1. TimerInv /\ [TimerNext]_<<vars, timerVars>>
        => [in_irq /\ ~in_irq' => tval > 0]_<<vars, timerVars>>
  <2> SUFFICES ASSUME TimerInv, TimerNext, in_irq, ~in_irq'
               PROVE  tval > 0
    OBVIOUS
  <2>1. TimerIrqReturn
    BY DEF TimerNext, BootStep, TimerIrq, Irq, HandleTimerIrq, Serving, UartSend, Poll, Write,
           Pass, Drain, vars
  <2>2. TypeOK /\ boot \in 0 .. Len(BootOrder) /\ since \in Nat /\ tval \in Nat
    BY TimerFacts DEF TimerInv, TimerTypeOK
  <2>3. ~ToPrint(Handler) /\ Handler \notin polled
    BY <2>1 DEF TimerIrqReturn, IrqReturn, Printed, TimerInv, UartInv, InTheMiddle
  <2>4. written[Handler] = ticks * HandlerLen
    BY <2>2, <2>3, Counts DEF ToPrint, TimerInv, UartInv, InTheMiddle
  <2>5. served
    BY <2>1, <2>2, <2>3, <2>4, Counts, TimerFacts
    DEF TimerIrqReturn, Serving, TimerInv, ServedOnTime
  <2>6. since <= HandlerLen - EnterLen
    BY <2>2, <2>3, <2>4, <2>5, Counts, TimerFacts DEF TimerInv, OneForEach
  <2>7. tval + since = Period
    BY <2>2, BootFacts DEF TimerInv, Armed
  <2> QED BY <2>2, <2>6, <2>7, TimerFacts
<1> QED BY <1>1, TimerInvariance, PTL DEF TimerSafety, TimeLeftForTasks
=============================================================================
