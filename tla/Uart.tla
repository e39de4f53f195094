-------------------------------- MODULE Uart --------------------------------
(***************************************************************************)
(* Printing: every printf of the kernel ends, character by character, in   *)
(* uart_send (src/src/pl_uart.c), which polls the flag register until the  *)
(* transmit FIFO has a slot and then writes the data register.  Nothing    *)
(* keeps these two accesses together: the task that prints can be          *)
(* interrupted between them, handle_irq prints as well, and the interrupt  *)
(* may end in another task that prints.                                    *)
(*                                                                         *)
(* What the tasks print is one string each; handle_irq prints one string   *)
(* per interrupt.  A character is its writer and its number.               *)
(***************************************************************************)
EXTENDS Integers, SequencesExt

CONSTANTS
  Writers,      \* how many tasks print
  TaskLen,      \* how many characters each of them has to print
  HandlerLen,   \* how many characters handle_irq prints
  Depth,        \* the depth of the transmit FIFO
  MaxTicks      \* how many interrupts come

ASSUME UartAssumption ==
  /\ Writers \in Nat \ {0} /\ Depth \in Nat \ {0} /\ HandlerLen \in Nat \ {0}
  /\ TaskLen \in Nat /\ MaxTicks \in Nat

VARIABLES
  cur,          \* the task that has the CPU
  in_irq,       \* handle_irq is running, on top of it
  ticks,        \* the interrupts so far
  polled,       \* which writers have seen a free slot and not written yet
  written,      \* how many characters each writer has written
  fifo,         \* the transmit FIFO
  line,         \* history: what the UART has sent
  lost          \* history: what was written to a full FIFO

vars == <<cur, in_irq, ticks, polled, written, fifo, line, lost>>

----------------------------------------------------------------------------
Tasks   == 0 .. Writers - 1
Handler == -1
Procs   == Tasks \cup {Handler}
Chars   == Procs \X (1 .. TaskLen + MaxTicks * HandlerLen)

(* Where a definition Broken... comes before one that models the code, it  *)
(* is a mistake the properties below must notice.                          *)
Init ==
  /\ cur \in Tasks /\ in_irq = FALSE /\ ticks = 0
  /\ polled = {} /\ written = [w \in Procs |-> 0]
  /\ fifo = <<>> /\ line = <<>> /\ lost = {}

(* Interrupts are masked in handle_irq: nobody else runs before it returns. *)
writer == IF in_irq THEN Handler ELSE cur

BrokenToPrint(w) ==
  written[w] <= IF w = Handler THEN ticks * HandlerLen ELSE TaskLen

ToPrint(w) == written[w] < IF w = Handler THEN ticks * HandlerLen ELSE TaskLen

(* uart_send waits for a slot ...                                          *)
BrokenHasRoom == TRUE

BrokenWaitsForFull == Len(fifo) = Depth

HasRoom == Len(fifo) < Depth

Poll ==
  /\ ToPrint(writer) /\ writer \notin polled
  /\ HasRoom
  /\ polled' = polled \cup {writer}
  /\ UNCHANGED <<cur, in_irq, ticks, written, fifo, line, lost>>

(* ... and writes the character; printf goes on to the next.               *)
BrokenNextChar == UNCHANGED written

NextChar == written' = [written EXCEPT ![writer] = @ + 1]

Write ==
  /\ writer \in polled
  /\ LET c == <<writer, written[writer] + 1>> IN
       IF Len(fifo) < Depth
       THEN fifo' = Append(fifo, c) /\ UNCHANGED lost
       ELSE lost' = lost \cup {c} /\ UNCHANGED fifo
  /\ polled' = polled \ {writer}
  /\ NextChar
  /\ UNCHANGED <<cur, in_irq, ticks, line>>

(* el1_irq and el0_irq call handle_irq ...                                 *)
Irq ==
  /\ ~in_irq /\ ticks < MaxTicks
  /\ in_irq' = TRUE /\ ticks' = ticks + 1
  /\ UNCHANGED <<cur, polled, written, fifo, line, lost>>

(* ... and, when it has printed everything, return to the task, or to      *)
(* another one by way of the scheduler.                                    *)
BrokenPrinted == writer \notin polled

Printed == ~ToPrint(Handler)

IrqReturn ==
  /\ in_irq /\ Printed
  /\ in_irq' = FALSE /\ cur' \in Tasks
  /\ UNCHANGED <<ticks, polled, written, fifo, line, lost>>

(* The UART sends the oldest character.                                    *)
Drain ==
  /\ fifo # <<>>
  /\ line' = Append(line, Head(fifo)) /\ fifo' = Tail(fifo)
  /\ UNCHANGED <<cur, in_irq, ticks, polled, written, lost>>

Next == Poll \/ Write \/ Irq \/ IrqReturn \/ Drain

(* The UART goes on sending, and a CPU that can take a step of the handler *)
(* takes it.                                                               *)
Fairness == WF_vars(Drain) /\ WF_vars(in_irq /\ (Poll \/ Write \/ IrqReturn))

Safety == Init /\ [][Next]_vars
Spec   == Safety /\ Fairness

----------------------------------------------------------------------------
TypeOK ==
  /\ cur \in Tasks /\ in_irq \in BOOLEAN /\ ticks \in 0 .. MaxTicks
  /\ polled \subseteq Procs
  /\ written \in [Procs -> Nat] /\ \A t \in Tasks : written[t] <= TaskLen
  /\ fifo \in Seq(Chars) /\ Len(fifo) <= Depth
  /\ line \in Seq(Chars) /\ lost \subseteq Chars

accepted == line \o fifo

(* Every character that was written is in the output once, in the order in *)
(* which its writer wrote it, or lost.                                     *)
InOrder ==
  /\ \A i, j \in DOMAIN accepted :
       i < j /\ accepted[i][1] = accepted[j][1] => accepted[i][2] < accepted[j][2]
  /\ ToSet(accepted) \cap lost = {}
  /\ ToSet(accepted) \cup lost =
       UNION {{w} \X (1 .. written[w]) : w \in Procs}

(* What handle_irq prints appears whole: no character of it is lost, and   *)
(* none of a task's is in between, wherever the task was interrupted.      *)
HandlerWhole ==
  /\ \A c \in lost : c[1] # Handler
  /\ \A i \in 1 .. Len(accepted) - 1 :
       accepted[i][1] = Handler /\ accepted[i][2] % HandlerLen # 0 =>
         accepted[i + 1] = <<Handler, accepted[i][2] + 1>>

(* A character is lost only when an interrupt comes between uart_send's    *)
(* poll and its write, and an interrupt costs one character at most.       *)
LostBounded == Cardinality(lost) <= ticks

(* The handler, which waits for the UART with interrupts masked, returns.  *)
HandlerReturns == in_irq ~> ~in_irq

(* pl_uart.c:8: uart_send waits for the FIFO to have an available slot, so *)
(* there is one when it writes.                                            *)
WritesHaveRoom == writer \in polled => Len(fifo) < Depth
----------------------------------------------------------------------------
(* The inductive invariant: who has polled is in the middle of its text,   *)
(* and handle_irq, for which alone that cannot change, still has room; ... *)
InTheMiddle ==
  /\ \A w \in polled : ToPrint(w)
  /\ Handler \in polled => in_irq /\ HasRoom
  /\ written[Handler] <= ticks * HandlerLen
  /\ ~in_irq => written[Handler] = ticks * HandlerLen

(* ... a text of handle_irq that is not finished is the last there is and  *)
(* is being written; ...                                                   *)
UnfinishedIsLast ==
  accepted # <<>> =>
    LET c == accepted[Len(accepted)] IN
      c[1] = Handler /\ c[2] % HandlerLen # 0 => in_irq /\ c[2] = written[Handler]

(* ... and there was an interrupt for every character lost and for every   *)
(* one that may still be: of a task that polled and does not have the CPU, *)
(* or has it again and finds the FIFO full.                                *)
AtRisk == IF HasRoom THEN polled \ {writer} ELSE polled

RiskBounded == Cardinality(lost) + Cardinality(AtRisk) <= ticks

UartInv ==
  TypeOK /\ InOrder /\ HandlerWhole /\ InTheMiddle /\ UnfinishedIsLast /\ RiskBounded
=============================================================================
