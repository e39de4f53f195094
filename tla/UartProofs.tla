------------------------------ MODULE UartProofs ------------------------------
(***************************************************************************)
(* Proofs about Uart, for every number of tasks, characters and interrupts *)
(* and every depth of the FIFO: what handle_irq prints is whole, everybody *)
(* else's output is in order, and an interrupt costs a character at most.  *)
(***************************************************************************)
EXTENDS Uart, FiniteSetTheorems, TLAPS

(* The constants and the sets of writers, in one place.                    *)
LEMMA ConstantFacts ==
  /\ Writers \in Nat \ {0} /\ Depth \in Nat \ {0} /\ HandlerLen \in Nat \ {0}
  /\ TaskLen \in Nat /\ MaxTicks \in Nat
  /\ Handler = -1 /\ Handler \in Procs /\ Handler \notin Tasks
  /\ Procs = Tasks \cup {Handler} /\ Tasks \subseteq Nat
BY UartAssumption DEF Handler, Procs, Tasks

(* Products with the handler's length, for the arithmetic below.           *)
LEMMA Multiples ==
  ASSUME NEW a \in Nat, NEW b \in Nat, NEW h \in Nat \ {0}
  PROVE  /\ a * h \in Nat
         /\ a <= b => a * h <= b * h
         /\ (a + 1) * h = a * h + h
         /\ (a * h) % h = 0
<1>1. a * h \in Nat /\ (a + 1) * h = a * h + h
  OBVIOUS
<1>2. a <= b => a * h <= b * h
  OBVIOUS
<1>3. (a * h) % h = 0
  OBVIOUS
<1> QED BY <1>1, <1>2, <1>3

(* What has been written and not lost, when a character is sent and when   *)
(* one is written.                                                         *)
LEMMA DrainSame ==
  ASSUME NEW S, NEW s \in Seq(S), NEW t \in Seq(S), t # <<>>
  PROVE  Append(s, Head(t)) \o Tail(t) = s \o t
OBVIOUS

(* What is appended to the FIFO is appended to all that was accepted.      *)
LEMMA WriteAppends ==
  ASSUME NEW S, NEW s \in Seq(S), NEW t \in Seq(S), NEW c \in S
  PROVE  s \o Append(t, c) = Append(s \o t, c)
OBVIOUS

(* The sets the counts are of are finite.                                  *)
LEMMA Finite ==
  /\ IsFiniteSet(Procs)
  /\ IsFiniteSet(Chars)
<1>1. IsFiniteSet(Tasks)
  BY ConstantFacts, FS_Interval DEF Tasks
<1>2. IsFiniteSet(Procs)
  BY <1>1, FS_AddElement, ConstantFacts
<1>3. TaskLen + MaxTicks * HandlerLen \in Nat
  BY ConstantFacts, Multiples
<1>4. IsFiniteSet(1 .. TaskLen + MaxTicks * HandlerLen)
  BY <1>3, FS_Interval
<1> QED BY <1>2, <1>4, FS_Product DEF Chars

(* Who writes, and the types of what it writes.                            *)
LEMMA WriterFacts ==
  ASSUME TypeOK
  PROVE  /\ writer \in Procs
         /\ writer = Handler <=> in_irq
         /\ accepted \in Seq(Chars)
         /\ written[writer] \in Nat
         /\ ticks \in Nat /\ ticks * HandlerLen \in Nat
         /\ IsFiniteSet(lost) /\ Cardinality(lost) \in Nat
         /\ IsFiniteSet(polled) /\ Cardinality(polled) \in Nat
         /\ IsFiniteSet(AtRisk) /\ Cardinality(AtRisk) \in Nat
<1>1. writer \in Procs /\ (writer = Handler <=> in_irq)
  BY ConstantFacts DEF TypeOK, writer
<1>2. accepted \in Seq(Chars)
  BY DEF TypeOK, accepted
<1>3. ticks \in Nat /\ ticks * HandlerLen \in Nat
  BY ConstantFacts, Multiples DEF TypeOK
<1>4. IsFiniteSet(lost) /\ IsFiniteSet(polled)
  BY Finite, FS_Subset DEF TypeOK
<1>5. IsFiniteSet(AtRisk)
  BY <1>4, FS_Subset DEF AtRisk
<1> QED BY <1>1, <1>2, <1>3, <1>4, <1>5, FS_CardinalityType DEF TypeOK

----------------------------------------------------------------------------
(* One lemma for each action, and for Write one for each part.             *)
LEMMA InitInv == Init => UartInv
<1> SUFFICES ASSUME Init PROVE UartInv
  OBVIOUS
<1>1. accepted = <<>> /\ ToSet(accepted) = {}
  BY DEF Init, accepted, ToSet
<1>2. TypeOK
  BY ConstantFacts DEF Init, TypeOK
<1>3. InOrder /\ HandlerWhole
  BY <1>1 DEF Init, InOrder, HandlerWhole
<1>4. InTheMiddle /\ UnfinishedIsLast
  BY <1>1, ConstantFacts DEF Init, InTheMiddle, UnfinishedIsLast
<1>5. AtRisk = {}
  BY DEF Init, AtRisk
<1>6. RiskBounded
  BY <1>5, FS_EmptySet DEF Init, RiskBounded
<1> QED BY <1>2, <1>3, <1>4, <1>6 DEF UartInv

(* Steps that write nothing and send nothing.                              *)
LEMMA SameOutput ==
  ASSUME UartInv, accepted' = accepted, UNCHANGED <<written, lost>>
  PROVE  InOrder' /\ HandlerWhole'
BY DEF UartInv, InOrder, HandlerWhole

(* Seeing a free slot.                                                     *)
LEMMA PollInv == UartInv /\ Poll => UartInv'
<1> SUFFICES ASSUME UartInv, Poll PROVE UartInv'
  OBVIOUS
<1>1. TypeOK'
  BY WriterFacts DEF UartInv, TypeOK, Poll
<1>2. accepted' = accepted /\ writer' = writer
  BY DEF Poll, accepted, writer
<1>3. InOrder' /\ HandlerWhole'
  BY <1>2, SameOutput DEF Poll
<1>4. InTheMiddle' /\ UnfinishedIsLast'
  BY <1>2, WriterFacts DEF UartInv, Poll, InTheMiddle, UnfinishedIsLast, ToPrint, HasRoom
<1>5. AtRisk' = AtRisk
  BY <1>2 DEF Poll, AtRisk, HasRoom
<1>6. RiskBounded'
  BY <1>5 DEF UartInv, Poll, RiskBounded
<1> QED BY <1>1, <1>3, <1>4, <1>6 DEF UartInv

(* An interrupt: the handler has a new text to print.                      *)
LEMMA IrqInv == UartInv /\ Irq => UartInv'
<1> SUFFICES ASSUME UartInv, Irq PROVE UartInv'
  OBVIOUS
<1> USE DEF Irq
<1>1. TypeOK'
  BY ConstantFacts DEF UartInv, TypeOK
<1>2. accepted' = accepted
  BY DEF accepted
<1>3. InOrder' /\ HandlerWhole'
  BY <1>2, SameOutput
<1>4. ticks' * HandlerLen = ticks * HandlerLen + HandlerLen
  BY Multiples, WriterFacts, ConstantFacts DEF UartInv
<1>5. InTheMiddle'
  <2>1. written[Handler] \in Nat /\ ticks * HandlerLen \in Nat
    BY WriterFacts, ConstantFacts DEF UartInv, TypeOK
  <2>2. \A w \in polled : ToPrint(w)' /\ w # Handler
    BY DEF UartInv, InTheMiddle, ToPrint
  <2>3. written[Handler] <= ticks * HandlerLen + HandlerLen
    BY <2>1, ConstantFacts DEF UartInv, InTheMiddle
  <2> QED BY <1>4, <2>2, <2>3 DEF InTheMiddle
<1>6. UnfinishedIsLast'
  BY <1>2 DEF UartInv, UnfinishedIsLast
<1>7. RiskBounded'
  <2>1. AtRisk' \subseteq AtRisk \cup {writer}
    BY DEF AtRisk, HasRoom
  <2>2. /\ IsFiniteSet(AtRisk \cup {writer})
        /\ Cardinality(AtRisk \cup {writer}) <= Cardinality(AtRisk) + 1
    <3>1. IsFiniteSet(AtRisk) /\ Cardinality(AtRisk) \in Nat
      BY WriterFacts DEF UartInv
    <3> HIDE DEF Irq
    <3>2. /\ IsFiniteSet(AtRisk \cup {writer})
          /\ Cardinality(AtRisk \cup {writer})
               = IF writer \in AtRisk THEN Cardinality(AtRisk) ELSE Cardinality(AtRisk) + 1
      BY <3>1, FS_AddElement
    <3> QED BY <3>1, <3>2
  <2>3. Cardinality(AtRisk') <= Cardinality(AtRisk \cup {writer})
    BY <2>1, <2>2, FS_Subset
  <2>4. Cardinality(AtRisk') \in Nat /\ Cardinality(AtRisk \cup {writer}) \in Nat
    BY <2>1, <2>2, FS_Subset, FS_CardinalityType
  <2> QED BY <2>2, <2>3, <2>4, WriterFacts DEF UartInv, RiskBounded
<1> QED BY <1>1, <1>3, <1>5, <1>6, <1>7 DEF UartInv

(* The return, into any task: the handler's text is finished.              *)
LEMMA IrqReturnInv == UartInv /\ IrqReturn => UartInv'
<1> SUFFICES ASSUME UartInv, IrqReturn PROVE UartInv'
  OBVIOUS
<1> USE DEF IrqReturn
<1>1. TypeOK'
  BY DEF UartInv, TypeOK
<1>2. accepted' = accepted
  BY DEF accepted
<1>3. InOrder' /\ HandlerWhole'
  BY <1>2, SameOutput
<1>4. written[Handler] = ticks * HandlerLen /\ Handler \notin polled
  <2>1. ~ToPrint(Handler)
    BY DEF Printed
  <2>2. written[Handler] \in Nat /\ ticks * HandlerLen \in Nat
    BY WriterFacts, ConstantFacts DEF UartInv, TypeOK
  <2>3. written[Handler] >= ticks * HandlerLen
    BY <2>1, <2>2 DEF ToPrint
  <2> QED BY <2>1, <2>2, <2>3 DEF UartInv, InTheMiddle
<1>5. InTheMiddle'
  BY <1>4 DEF UartInv, InTheMiddle, ToPrint
<1>6. UnfinishedIsLast'
  <2>1. written[Handler] % HandlerLen = 0
    <3>1. ticks \in Nat /\ HandlerLen \in Nat \ {0}
      BY WriterFacts, ConstantFacts DEF UartInv
    <3>2. (ticks * HandlerLen) % HandlerLen = 0
      BY <3>1, Multiples
    <3> QED BY <1>4, <3>2
  <2> QED BY <1>2, <2>1 DEF UartInv, UnfinishedIsLast
<1>7. RiskBounded'
  <2>1. AtRisk' \subseteq AtRisk
    BY <1>4, WriterFacts DEF UartInv, AtRisk, HasRoom
  <2>2. Cardinality(AtRisk') <= Cardinality(AtRisk) /\ Cardinality(AtRisk') \in Nat
    BY <2>1, WriterFacts, FS_Subset, FS_CardinalityType DEF UartInv
  <2> QED BY <2>2, WriterFacts DEF UartInv, RiskBounded
<1> QED BY <1>1, <1>3, <1>5, <1>6, <1>7 DEF UartInv

(* The UART sends what is first in the FIFO.                               *)
LEMMA DrainInv == UartInv /\ Drain => UartInv'
<1> SUFFICES ASSUME UartInv, Drain PROVE UartInv'
  OBVIOUS
<1> USE DEF Drain
<1>1. fifo \in Seq(Chars) /\ line \in Seq(Chars) /\ fifo # <<>>
  BY DEF UartInv, TypeOK
<1>2. /\ Head(fifo) \in Chars /\ Tail(fifo) \in Seq(Chars)
      /\ Len(Tail(fifo)) = Len(fifo) - 1 /\ Len(fifo) \in Nat
  BY <1>1
<1>3. TypeOK'
  BY <1>1, <1>2, ConstantFacts DEF UartInv, TypeOK
<1>4. accepted' = accepted /\ writer' = writer
  BY <1>1, DrainSame DEF accepted, writer
<1>5. InOrder' /\ HandlerWhole'
  BY <1>4, SameOutput
<1>6. HasRoom'
  BY <1>2, ConstantFacts DEF UartInv, TypeOK, HasRoom
<1>7. InTheMiddle' /\ UnfinishedIsLast'
  BY <1>4, <1>6 DEF UartInv, InTheMiddle, UnfinishedIsLast, ToPrint
<1>8. RiskBounded'
  <2>1. AtRisk' \subseteq AtRisk
    BY <1>4, <1>6 DEF AtRisk
  <2>2. Cardinality(AtRisk') <= Cardinality(AtRisk) /\ Cardinality(AtRisk') \in Nat
    BY <2>1, WriterFacts, FS_Subset, FS_CardinalityType DEF UartInv
  <2> QED BY <2>2, WriterFacts DEF UartInv, RiskBounded
<1> QED BY <1>3, <1>5, <1>7, <1>8 DEF UartInv

(* The character that is written: behind everything that was, or lost.     *)
LEMMA WriteFacts ==
  ASSUME UartInv, Write
  PROVE  LET c == <<writer, written[writer] + 1>> IN
         /\ c \in Chars
         /\ writer \in polled /\ writer' = writer
         /\ written' = [written EXCEPT ![writer] = @ + 1]
         /\ written' \in [Procs -> Nat]
         /\ HasRoom  => lost' = lost /\ accepted' = Append(accepted, c)
                        /\ fifo' = Append(fifo, c) /\ Len(fifo') = Len(fifo) + 1
         /\ ~HasRoom => lost' = lost \cup {c} /\ accepted' = accepted /\ fifo' = fifo
                        /\ ~in_irq
<1> USE DEF Write
<1> DEFINE c == <<writer, written[writer] + 1>>
<1>1. writer \in Procs /\ written[writer] \in Nat /\ ticks \in 0 .. MaxTicks
  BY WriterFacts DEF UartInv, TypeOK
<1>2. written[writer] + 1 \in 1 .. TaskLen + MaxTicks * HandlerLen
  <2>1. /\ ticks * HandlerLen \in Nat /\ MaxTicks * HandlerLen \in Nat
        /\ ticks * HandlerLen <= MaxTicks * HandlerLen
    BY <1>1, Multiples, ConstantFacts
  <2>2. written[writer] < IF writer = Handler THEN ticks * HandlerLen ELSE TaskLen
    BY DEF UartInv, InTheMiddle, ToPrint
  <2> DEFINE n == written[writer]
             a == ticks * HandlerLen
             b == MaxTicks * HandlerLen
  <2>3. /\ n \in Nat /\ a \in Nat /\ b \in Nat /\ TaskLen \in Nat /\ a <= b
        /\ n < a \/ n < TaskLen
    BY <1>1, <2>1, <2>2, ConstantFacts
  <2> HIDE DEF n, a, b, c, Write
  <2>4. n + 1 \in 1 .. TaskLen + b
    BY <2>3
  <2> QED BY <2>4 DEF n, b
<1>3. c \in Chars
  BY <1>1, <1>2 DEF Chars
<1>4. written' = [written EXCEPT ![writer] = @ + 1] /\ written' \in [Procs -> Nat]
  BY <1>1 DEF NextChar, UartInv, TypeOK
<1>5. fifo \in Seq(Chars) /\ line \in Seq(Chars)
  BY DEF UartInv, TypeOK
<1>6. HasRoom => fifo' = Append(fifo, c) /\ Len(fifo') = Len(fifo) + 1
                   /\ accepted' = Append(accepted, c)
  BY <1>3, <1>5, WriteAppends DEF HasRoom, accepted
<1>7. ~HasRoom => lost' = lost \cup {c} /\ accepted' = accepted /\ fifo' = fifo
  BY DEF HasRoom, accepted
<1>8. ~HasRoom => ~in_irq
  BY WriterFacts DEF UartInv, InTheMiddle
<1>9. writer' = writer
  BY DEF writer
<1> QED BY <1>3, <1>4, <1>6, <1>7, <1>8, <1>9 DEF HasRoom

(* A write keeps each writer's order.                                      *)
LEMMA WriteInOrder ==
  ASSUME UartInv, Write
  PROVE  InOrder'
<1> DEFINE n == written[writer] + 1
           c == <<writer, n>>
           all == UNION {{w} \X (1 .. written[w]) : w \in Procs}
<1>1. /\ writer \in Procs /\ written \in [Procs -> Nat] /\ accepted \in Seq(Chars)
      /\ c \in Chars
  BY WriterFacts, WriteFacts DEF UartInv, TypeOK
<1>2. c \notin all /\ \A d \in all : d[1] = writer => d[2] < n
  BY <1>1
<1>3. UNION {{w} \X (1 .. written'[w]) : w \in Procs} = all \cup {c}
  <2>1. \A w \in Procs : written'[w] = IF w = writer THEN n ELSE written[w]
    BY <1>1, WriteFacts
  <2>2. 1 .. n = (1 .. written[writer]) \cup {n}
    BY <1>1
  <2> QED BY <1>1, <2>1, <2>2
<1>4. ToSet(accepted) \cap lost = {} /\ ToSet(accepted) \cup lost = all
  BY DEF UartInv, InOrder
<1>5. CASE HasRoom
  <2>1. lost' = lost /\ accepted' = Append(accepted, c)
    BY <1>5, WriteFacts
  <2>2. ToSet(accepted') = ToSet(accepted) \cup {c}
    <3>1. /\ DOMAIN accepted = 1 .. Len(accepted) /\ DOMAIN accepted' = 1 .. Len(accepted) + 1
          /\ \A i \in 1 .. Len(accepted) : accepted'[i] = accepted[i]
          /\ accepted'[Len(accepted) + 1] = c
      BY <1>1, <2>1
    <3>2. Len(accepted) \in Nat
      BY <1>1
    <3>3. 1 .. Len(accepted) + 1 = (1 .. Len(accepted)) \cup {Len(accepted) + 1}
      BY <3>2
    <3>4. ToSet(accepted') = {accepted'[i] : i \in 1 .. Len(accepted)} \cup {c}
      <4>1. ToSet(accepted') = {accepted'[i] : i \in 1 .. Len(accepted) + 1}
        BY <3>1 DEF ToSet
      <4> HIDE DEF c
      <4> QED BY <3>1, <3>3, <4>1
    <3> QED BY <3>1, <3>4 DEF ToSet
  <2>3. \A i, j \in DOMAIN accepted' :
          i < j /\ accepted'[i][1] = accepted'[j][1] => accepted'[i][2] < accepted'[j][2]
    <3> SUFFICES ASSUME NEW i \in DOMAIN accepted', NEW j \in DOMAIN accepted', i < j,
                        accepted'[i][1] = accepted'[j][1]
                 PROVE  accepted'[i][2] < accepted'[j][2]
      OBVIOUS
    <3>1. /\ i \in 1 .. Len(accepted) /\ accepted'[i] = accepted[i]
          /\ j \in 1 .. Len(accepted) + 1
          /\ accepted'[j] = IF j <= Len(accepted) THEN accepted[j] ELSE c
      BY <1>1, <2>1
    <3>2. CASE j <= Len(accepted)
      BY <1>1, <3>1, <3>2 DEF UartInv, InOrder
    <3>3. CASE j = Len(accepted) + 1
      <4>1. accepted[i] \in all
        BY <1>1, <1>4, <3>1 DEF ToSet
      <4> QED BY <1>1, <1>2, <3>1, <3>3, <4>1
    <3> QED BY <1>1, <3>1, <3>2, <3>3
  <2> QED BY <1>2, <1>3, <1>4, <2>1, <2>2, <2>3 DEF InOrder
<1>6. CASE ~HasRoom
  <2>1. lost' = lost \cup {c} /\ accepted' = accepted
    BY <1>6, WriteFacts
  <2> QED BY <1>2, <1>3, <1>4, <2>1 DEF UartInv, InOrder
<1> QED BY <1>5, <1>6

(* A write keeps the handler's texts in one piece.                         *)
LEMMA WriteWhole ==
  ASSUME UartInv, Write
  PROVE  HandlerWhole' /\ UnfinishedIsLast' /\ InTheMiddle'
<1> DEFINE n == written[writer] + 1
           c == <<writer, n>>
<1>1. /\ writer \in Procs /\ written \in [Procs -> Nat] /\ accepted \in Seq(Chars)
      /\ c \in Chars /\ (writer = Handler <=> in_irq)
  BY WriterFacts, WriteFacts DEF UartInv, TypeOK
<1>2. written'[writer] = n /\ \A w \in Procs \ {writer} : written'[w] = written[w]
  BY <1>1, WriteFacts
<1>3. in_irq' = in_irq /\ ticks' = ticks /\ polled' = polled \ {writer}
  BY DEF Write
<1>4. ASSUME HasRoom PROVE HandlerWhole' /\ UnfinishedIsLast'
  <2>1. lost' = lost /\ accepted' = Append(accepted, c)
    BY <1>4, WriteFacts
  <2>2. /\ Len(accepted') = Len(accepted) + 1 /\ accepted'[Len(accepted')] = c
        /\ \A i \in 1 .. Len(accepted) : accepted'[i] = accepted[i]
    BY <1>1, <2>1
  <2>3. UnfinishedIsLast'
    BY <1>1, <1>2, <1>3, <2>2 DEF UnfinishedIsLast
  <2>4. HandlerWhole'
    <3> SUFFICES ASSUME NEW i \in 1 .. Len(accepted), accepted[i][1] = Handler,
                        accepted[i][2] % HandlerLen # 0
                 PROVE  accepted'[i + 1] = <<Handler, accepted[i][2] + 1>>
      BY <1>1, <2>1, <2>2 DEF UartInv, HandlerWhole
    <3>1. CASE i < Len(accepted)
      BY <1>1, <2>2, <3>1 DEF UartInv, HandlerWhole
    <3>2. CASE i = Len(accepted)
      BY <1>1, <2>2, <3>2 DEF UartInv, UnfinishedIsLast
    <3> QED BY <1>1, <3>1, <3>2
  <2> QED BY <2>3, <2>4
<1>5. ASSUME ~HasRoom PROVE HandlerWhole' /\ UnfinishedIsLast'
  <2>1. lost' = lost \cup {c} /\ accepted' = accepted /\ ~in_irq
    BY <1>5, WriteFacts
  <2>2. HandlerWhole'
    BY <1>1, <2>1 DEF UartInv, HandlerWhole
  <2>3. UnfinishedIsLast'
    BY <1>3, <2>1 DEF UartInv, UnfinishedIsLast
  <2> QED BY <2>2, <2>3
<1>6. InTheMiddle'
  <2>1. \A w \in polled' : w # writer /\ w \in Procs
    BY <1>3 DEF UartInv, TypeOK
  <2>2. \A w \in polled' : ToPrint(w)'
    BY <1>2, <1>3, <2>1 DEF UartInv, InTheMiddle, ToPrint
  <2>3. Handler \notin polled'
    BY <1>1, <1>3 DEF UartInv, InTheMiddle
  <2>4. written'[Handler] <= ticks * HandlerLen
    <3> DEFINE a == ticks * HandlerLen
    <3>1. /\ a \in Nat /\ written[Handler] \in Nat
          /\ written[Handler] <= a /\ (writer = Handler => written[Handler] < a)
      BY WriterFacts, WriteFacts, ConstantFacts DEF UartInv, TypeOK, InTheMiddle, ToPrint
    <3>2. written'[Handler] = IF writer = Handler THEN written[Handler] + 1 ELSE written[Handler]
      BY <1>2, ConstantFacts DEF UartInv, TypeOK
    <3> HIDE DEF a
    <3>3. written'[Handler] <= a
      BY <3>1, <3>2
    <3> QED BY <3>3 DEF a
  <2>5. ~in_irq => written'[Handler] = ticks * HandlerLen
    BY <1>1, <1>2, ConstantFacts DEF UartInv, InTheMiddle
  <2> QED BY <1>3, <2>2, <2>3, <2>4, <2>5 DEF InTheMiddle
<1> QED BY <1>4, <1>5, <1>6

(* A write loses a character only where an interrupt has taken the slot.   *)
LEMMA WriteRisk ==
  ASSUME UartInv, Write
  PROVE  RiskBounded'
<1>1. /\ IsFiniteSet(AtRisk) /\ Cardinality(AtRisk) \in Nat /\ IsFiniteSet(lost)
      /\ Cardinality(lost) \in Nat /\ ticks \in Nat
  BY WriterFacts DEF UartInv
<1>2. ticks' = ticks /\ polled' = polled \ {writer} /\ writer' = writer /\ writer \in polled
  BY WriteFacts DEF Write
<1>3. AtRisk' \subseteq AtRisk \ {writer}
  BY <1>2 DEF AtRisk
<1>4. Cardinality(AtRisk') <= Cardinality(AtRisk \ {writer}) /\ Cardinality(AtRisk') \in Nat
      /\ Cardinality(AtRisk \ {writer}) \in Nat
  BY <1>1, <1>3, FS_RemoveElement, FS_Subset, FS_CardinalityType
<1>5. CASE HasRoom
  <2>1. lost' = lost
    BY <1>5, WriteFacts
  <2>2. AtRisk \ {writer} \in SUBSET AtRisk
    OBVIOUS
  <2>3. Cardinality(AtRisk \ {writer}) <= Cardinality(AtRisk)
    BY <1>1, <2>2, FS_Subset
  <2> QED BY <1>1, <1>2, <1>4, <2>1, <2>3 DEF UartInv, RiskBounded
<1>6. CASE ~HasRoom
  <2>1. PICK c \in Chars : lost' = lost \cup {c}
    BY <1>6, WriteFacts
  <2>2. Cardinality(lost') \in Nat /\ Cardinality(lost') <= Cardinality(lost) + 1
    <3>1. Cardinality(lost') = IF c \in lost THEN Cardinality(lost) ELSE Cardinality(lost) + 1
      BY <1>1, <2>1, FS_AddElement
    <3> QED BY <1>1, <3>1
  <2>3. writer \in AtRisk
    BY <1>2, <1>6 DEF AtRisk
  <2>4. Cardinality(AtRisk \ {writer}) = Cardinality(AtRisk) - 1
    BY <1>1, <2>3, FS_RemoveElement
  <2> QED BY <1>1, <1>2, <1>4, <2>2, <2>4 DEF UartInv, RiskBounded
<1> QED BY <1>5, <1>6

(* The three together.                                                     *)
LEMMA WriteInv == UartInv /\ Write => UartInv'
<1> SUFFICES ASSUME UartInv, Write PROVE UartInv'
  OBVIOUS
<1>1. TypeOK'
  <2>1. \A t \in Tasks : written'[t] <= TaskLen
    <3> SUFFICES ASSUME NEW t \in Tasks PROVE written'[t] <= TaskLen
      OBVIOUS
    <3>1. t \in Procs /\ t # Handler /\ written \in [Procs -> Nat] /\ written[t] <= TaskLen
      BY ConstantFacts DEF UartInv, TypeOK
    <3>2. written'[t] = IF t = writer THEN written[t] + 1 ELSE written[t]
      BY <3>1, WriteFacts
    <3>3. t = writer => written[t] < TaskLen
      BY <3>1, WriteFacts DEF UartInv, InTheMiddle, ToPrint
    <3> QED BY <3>1, <3>2, <3>3, ConstantFacts
  <2>2. fifo' \in Seq(Chars) /\ Len(fifo') <= Depth
    <3>1. fifo \in Seq(Chars) /\ Len(fifo) <= Depth /\ Len(fifo) \in Nat
      BY DEF UartInv, TypeOK
    <3>2. CASE HasRoom
      <4>1. PICK c \in Chars : fifo' = Append(fifo, c) /\ Len(fifo') = Len(fifo) + 1
        BY <3>2, WriteFacts
      <4>2. Append(fifo, c) \in Seq(Chars)
        BY <3>1
      <4> QED BY <3>1, <3>2, <4>1, <4>2, ConstantFacts DEF HasRoom
    <3>3. CASE ~HasRoom
      BY <3>1, <3>3, WriteFacts
    <3> QED BY <3>2, <3>3
  <2>3. lost' \subseteq Chars
    BY WriteFacts DEF UartInv, TypeOK
  <2>4. written' \in [Procs -> Nat]
    BY WriteFacts
  <2> QED BY <2>1, <2>2, <2>3, <2>4 DEF UartInv, TypeOK, Write
<1> QED BY <1>1, WriteInOrder, WriteWhole, WriteRisk DEF UartInv

----------------------------------------------------------------------------
(* Every step keeps the invariant.                                         *)
LEMMA NextInv == UartInv /\ [Next]_vars => UartInv'
<1> SUFFICES ASSUME UartInv, [Next]_vars PROVE UartInv'
  OBVIOUS
<1>1. CASE UNCHANGED vars
  <2>1. accepted' = accepted /\ AtRisk' = AtRisk
    BY <1>1 DEF vars, accepted, AtRisk, writer, HasRoom
  <2> QED
    BY <1>1, <2>1 DEF vars, UartInv, TypeOK, InOrder, HandlerWhole, InTheMiddle, ToPrint,
                      HasRoom, UnfinishedIsLast, RiskBounded
<1>2. CASE Next
  BY <1>2, PollInv, WriteInv, IrqInv, IrqReturnInv, DrainInv DEF Next
<1> QED BY <1>1, <1>2

(* The inductive invariant holds in every state.                           *)
THEOREM UartInvariance == Safety => []UartInv
<1> QED BY InitInv, NextInv, PTL DEF Safety

(* Output is in its writers' order, once, or lost.                         *)
THEOREM OutputInOrder == Safety => []InOrder
<1>1. UartInv => InOrder
  BY DEF UartInv
<1> QED BY <1>1, UartInvariance, PTL

(* What an interrupt prints is whole.                                      *)
THEOREM HandlerTextWhole == Safety => []HandlerWhole
<1>1. UartInv => HandlerWhole
  BY DEF UartInv
<1> QED BY <1>1, UartInvariance, PTL

(* No more characters are lost than interrupts come.                       *)
THEOREM OneLostPerIrq == Safety => []LostBounded
<1>1. UartInv => LostBounded
  BY WriterFacts DEF UartInv, RiskBounded, LostBounded
<1> QED BY <1>1, UartInvariance, PTL
=============================================================================
