----------------------------- MODULE PrintfProofs -----------------------------
(***************************************************************************)
(* Proofs about the steps of Printf: what they write, how much, and what a *)
(* call leaves in the caller's buffer and on the console.                  *)
(***************************************************************************)
EXTENDS ConversionProofs

----------------------------------------------------------------------------
(* An iteration of the loop writes a text.                                 *)
LEMMA ItemFacts ==
  ASSUME call \in Calls, pos \in Nat \ {0}, pos <= Len(call.format)
  PROVE  /\ IsText(item.text) /\ Width(item) \in Int /\ Precision(item) \in Int
<1>1. call.format \in Seq(Directives)
  BY DEF Calls
<1>2. item \in Directives
  BY <1>1 DEF item
<1>3. item.text \in Seq(STRING) /\ item.width \in Int /\ item.prec \in Seq(Int)
  BY <1>2 DEF Directives
<1>4. HasPrec(item) => item.prec[1] \in Int
  <2>1. ASSUME NEW q \in Seq(Int), q # <<>>
        PROVE  q[1] \in Int
    BY <2>1
  <2> QED BY <1>3, <2>1 DEF HasPrec
<1> QED BY <1>3, <1>4 DEF IsText, Width, Precision

Directive == Literal \/ Integer \/ Character \/ String \/ Pointer \/ Other

LEMMA DirectiveWrites ==
  ASSUME call \in Calls, pos \in Nat \ {0}, Directive
  PROVE  /\ pc = "format" /\ pos \in 1 .. Len(call.format)
         /\ \E chars : IsText(chars) /\ Write(chars) /\ Len(chars) <= Longest(item)
<1>1. pc = "format" /\ pos \in 1 .. Len(call.format)
  <2>1. pc = "format" /\ pos <= Len(call.format)
    BY DEF Directive, Literal, Integer, Character, String, Pointer, Other, At
  <2>2. Len(call.format) \in Nat
    BY DEF Calls
  <2> QED BY <2>1, <2>2
<1>2. PICK d \in Directives : d = item
  BY <1>1 DEF Calls, item
<1>3. IsText(d.text) /\ Width(d) \in Nat /\ Precision(d) \in Int
  BY DirectiveFacts
<1>4. PICK w \in Nat : w = Longest(d)
  BY LongestFacts
<1>5. ASSUME d.spec \in {"c", "s"}, NEW body, IsText(body), Len(body) <= Len(d.text)
      PROVE  IsText(Field(body, d)) /\ Len(Field(body, d)) <= w
  <2>1. Len(Field(body, d)) = Len(body) \/ Len(Field(body, d)) = Width(d)
    BY <1>5, FieldLength
  <2>2. IsText(Field(body, d))
    BY <1>3, <1>5, FieldIsText
  <2>3. Len(d.text) <= w /\ Width(d) <= w
    BY <1>4, <1>5, LongestFacts
  <2>4. Len(body) \in Nat /\ Len(d.text) \in Nat
    BY <1>3, <1>5, TextFacts
  <2> QED BY <1>3, <1>5, <2>1, <2>2, <2>3, <2>4
<1>6. CASE Literal \/ Other
  <2>1. d.spec \in {"literal", "other"}
    BY <1>2, <1>6 DEF Literal, Other, At, item
  <2>2. Len(d.text) <= w
    <3>1. Len(d.text) = w
      BY <1>4, <2>1, LongestFacts
    <3> QED BY <3>1
  <2>3. Write(d.text)
    BY <1>2, <1>6 DEF Literal, Other
  <2> QED BY <1>1, <1>2, <1>3, <1>4, <2>2, <2>3
<1>7. CASE Integer
  <2>1. PICK chars :
          /\ chars = Ntoa(Magnitude(d), d.spec \in SignedSpecs /\ Argument(d) < 0,
                          Base(d), Precision(d), Width(d), IntegerFlags(d))
          /\ Write(chars)
    BY <1>2, <1>7 DEF Integer
  <2>2. IsText(chars)
    BY <1>3, <2>1, NtoaIsText
  <2>3. d.spec \in IntSpecs
    BY <1>2, <1>7 DEF Integer, At, item
  <2>4. NtoaSize <= w /\ Width(d) <= w
    BY <1>4, <2>3, LongestFacts
  <2>5. Len(chars) <= w
    BY <1>3, <2>1, <2>4, NtoaLength
  <2> QED BY <1>1, <1>2, <1>4, <2>1, <2>2, <2>5
<1>8. CASE Character
  <2>1. d.spec \in {"c", "s"} /\ Write(Field(d.text, d))
    BY <1>2, <1>8 DEF Character, At, item
  <2>2. Len(d.text) <= Len(d.text)
    BY <1>3, TextFacts
  <2> QED BY <1>1, <1>2, <1>3, <1>4, <1>5, <2>1, <2>2
<1>9. CASE String
  <2>1. d.spec \in {"c", "s"} /\ Write(Field(StringPart(d), d))
    BY <1>2, <1>9 DEF String, At, item
  <2>2. IsText(StringPart(d)) /\ Len(StringPart(d)) <= Len(d.text)
    BY <1>3, StringPartIsText, StringPartLength
  <2> QED BY <1>1, <1>2, <1>4, <1>5, <2>1, <2>2
<1>10. CASE Pointer
  <2>1. PICK chars :
          /\ chars = Ntoa(Modulo(d.arg, LongBits), FALSE, 16, Precision(d),
                          PointerDigits, Flags(d) \cup {"0", "X"})
          /\ Write(chars)
    BY <1>2, <1>10 DEF Pointer
  <2>2. d.spec = "p"
    BY <1>2, <1>10 DEF Pointer, At, item
  <2>3. w = NtoaSize
    BY <1>4, <2>2, LongestFacts
  <2>4. /\ PointerDigits \in Nat /\ PointerDigits \in Int /\ PointerDigits <= w
        /\ NtoaSize <= w
    BY <2>3, PrintfAssumption
  <2>5. IsText(chars)
    BY <1>3, <2>1, <2>4, NtoaIsText
  <2>6. Len(chars) <= w
    BY <1>3, <2>1, <2>4, NtoaLength
  <2> QED BY <1>1, <1>2, <1>4, <2>1, <2>5, <2>6
<1> QED BY <1>6, <1>7, <1>8, <1>9, <1>10 DEF Directive

----------------------------------------------------------------------------
(* The steps of _vsnprintf.                                                *)
TextInv ==
  /\ pc \in {"idle", "format", "done"} /\ pos \in Nat \ {0} /\ IsText(sent)
  /\ IF pc = "idle" THEN call = Idle ELSE call \in Requests

LEMMA TextStart == Init => TextInv
BY ShortTexts DEF Init, TextInv

LEMMA TextKept == TextInv /\ [Next]_vars => TextInv'
<1> SUFFICES ASSUME TextInv, [Next]_vars
             PROVE  TextInv'
  OBVIOUS
<1>1. CASE Call
  BY <1>1 DEF Call, TextInv
<1>2. CASE Directive
  <2>1. pc = "format"
    BY <1>2 DEF Directive, Literal, Integer, Character, String, Pointer, Other, At
  <2>2. call \in Calls
    BY <2>1, PrintfAssumption DEF TextInv
  <2>3. PICK chars : IsText(chars) /\ Write(chars)
    BY <1>2, <2>2, DirectiveWrites DEF TextInv
  <2>4. IsText(sent \o chars)
    BY <2>3, ConcatFacts DEF TextInv
  <2> QED BY <2>1, <2>3, <2>4 DEF TextInv, Write
<1>3. CASE Terminate
  BY <1>3 DEF Terminate, TextInv
<1>4. CASE Return
  BY <1>4, ShortTexts DEF Return, TextInv
<1>5. CASE UNCHANGED vars
  BY <1>5 DEF vars, TextInv
<1> QED BY <1>1, <1>2, <1>3, <1>4, <1>5 DEF Next, Directive

LEMMA StepWrites ==
  ASSUME TextInv, NEW specs, At(specs), NEW chars, IsText(chars), Write(chars)
  PROVE  item \in Directives /\ item.spec \in specs /\ Written = chars
<1>1. call \in Calls /\ pos \in 1 .. Len(call.format) /\ item.spec \in specs
  <2>1. call \in Calls
    BY PrintfAssumption DEF TextInv, At
  <2>2. Len(call.format) \in Nat
    BY <2>1 DEF Calls
  <2> QED BY <2>1, <2>2 DEF TextInv, At, item
<1>2. item \in Directives
  BY <1>1 DEF Calls, item
<1>3. SubSeq(sent \o chars, Len(sent) + 1, Len(sent \o chars)) = chars
  BY BackPart DEF TextInv
<1>4. Written = chars
  BY <1>3 DEF Write, Written
<1> QED BY <1>1, <1>2, <1>4

(* Every integer conversion that printf.c does as C has it writes the      *)
(* integer that was passed, for any argument, flags, width and precision,  *)
(* any widths of the integers and any size of the buffer.                  *)
THEOREM IntegersRendered == Spec => IntegerRendered
<1>1. TextInv /\ [Next]_vars
        => [Integer /\ Regular(item) => RendersInteger(item, Written)]_vars
  <2> SUFFICES ASSUME TextInv, Integer, Regular(item)
               PROVE  RendersInteger(item, Written)
    OBVIOUS
  <2>1. PICK chars :
          chars = Ntoa(Magnitude(item), item.spec \in SignedSpecs /\ Argument(item) < 0,
                       Base(item), Precision(item), Width(item), IntegerFlags(item))
    OBVIOUS
  <2>2. At(IntSpecs) /\ Write(chars)
    BY <2>1 DEF Integer
  <2>3. IsText(chars)
    <3>1. call \in Calls /\ pos \in Nat \ {0} /\ pos <= Len(call.format)
      BY <2>2, PrintfAssumption DEF TextInv, At
    <3>2. Width(item) \in Int /\ Precision(item) \in Int
      BY <3>1, ItemFacts
    <3> QED BY <2>1, <3>2, NtoaIsText
  <2>4. item \in Directives /\ item.spec \in IntSpecs /\ Written = chars
    BY <2>2, <2>3, StepWrites
  <2> QED BY <2>1, <2>4, IntegerIsRendered
<1> QED BY <1>1, TextStart, TextKept, PTL DEF Spec, IntegerRendered

(* %s and %c write the part of the string that the precision leaves, in a  *)
(* field of the width, and %p every digit of the address.                  *)
THEOREM TextsRendered == Spec => TextRendered
<1>1. TextInv /\ (String \/ Character) /\ (HasPrec(item) => item.prec[1] >= 0)
        => RendersText(item, Written)
  <2> SUFFICES ASSUME TextInv, String \/ Character, HasPrec(item) => item.prec[1] >= 0
               PROVE  RendersText(item, Written)
    OBVIOUS
  <2>1. PICK chars : /\ \/ At({"s"}) /\ chars = Field(StringPart(item), item)
                        \/ At({"c"}) /\ chars = Field(item.text, item)
                     /\ Write(chars)
    BY DEF String, Character
  <2>2. call \in Calls /\ pos \in Nat \ {0} /\ pos <= Len(call.format)
    BY <2>1, PrintfAssumption DEF TextInv, At
  <2>3. item \in Directives
    <3>1. Len(call.format) \in Nat
      BY <2>2 DEF Calls
    <3>2. pos \in 1 .. Len(call.format)
      BY <2>2, <3>1
    <3> QED BY <2>2, <3>2 DEF Calls, item
  <2>4. \/ item.spec = "s" /\ chars = Field(StringPart(item), item)
        \/ item.spec = "c" /\ chars = Field(item.text, item)
    BY <2>1 DEF At, item
  <2>5. IsText(chars) /\ RendersText(item, chars)
    BY <2>3, <2>4, TextIsRendered
  <2>6. PICK specs : At(specs)
    BY <2>1
  <2>7. Written = chars
    BY <2>1, <2>5, <2>6, StepWrites
  <2> QED BY <2>5, <2>7
<1>2. TextInv /\ Pointer /\ item.flags = {} /\ ~Left(item) /\ ~HasPrec(item)
        => /\ Len(Written) = PointerDigits
           /\ NumberOf(Written, 16) = Modulo(item.arg, LongBits)
  <2> SUFFICES ASSUME TextInv, Pointer, item.flags = {}, ~Left(item), ~HasPrec(item)
               PROVE  /\ Len(Written) = PointerDigits
                      /\ NumberOf(Written, 16) = Modulo(item.arg, LongBits)
    OBVIOUS
  <2>1. PICK chars : chars = Ntoa(Modulo(item.arg, LongBits), FALSE, 16, Precision(item),
                                  PointerDigits, Flags(item) \cup {"0", "X"})
    OBVIOUS
  <2>2. At({"p"}) /\ Write(chars)
    BY <2>1 DEF Pointer
  <2>3. call \in Calls /\ pos \in Nat \ {0} /\ pos <= Len(call.format)
    BY <2>2, PrintfAssumption DEF TextInv, At
  <2>4. item \in Directives
    <3>1. Len(call.format) \in Nat
      BY <2>3 DEF Calls
    <3>2. pos \in 1 .. Len(call.format)
      BY <2>3, <3>1
    <3> QED BY <2>3, <3>2 DEF Calls, item
  <2>5. /\ IsText(chars) /\ Len(chars) = PointerDigits
        /\ NumberOf(chars, 16) = Modulo(item.arg, LongBits)
    BY <2>1, <2>4, PointerIsRendered
  <2>6. Written = chars
    BY <2>2, <2>5, StepWrites
  <2> QED BY <2>5, <2>6
<1>3. TextInv /\ [Next]_vars
        => [/\ (String \/ Character) /\ (HasPrec(item) => item.prec[1] >= 0)
                 => RendersText(item, Written)
            /\ Pointer /\ item.flags = {} /\ ~Left(item) /\ ~HasPrec(item)
                 => /\ Len(Written) = PointerDigits
                    /\ NumberOf(Written, 16) = Modulo(item.arg, LongBits)]_vars
  BY <1>1, <1>2
<1> QED BY <1>3, TextStart, TextKept, PTL DEF Spec, TextRendered

----------------------------------------------------------------------------
(* How much has been written: what is counted in idx is no more than the   *)
(* directives of the format up to here can have written.                   *)
CountInv ==
  /\ TextInv /\ pos <= Len(call.format) + 1 /\ DOMAIN dest = 0 .. Cells - 1
  /\ idx \in Nat /\ idx <= MostWritten(call.format)[pos - 1]
  /\ pc = "idle" => pos = 1 /\ idx = 0
  /\ pc = "done" => pos = Len(call.format) + 1

LEMMA FormatFacts ==
  ASSUME NEW c, c = Idle \/ c \in Requests
  PROVE  /\ c.format \in Seq(Directives) /\ Len(c.format) \in Nat
         /\ MostWritten(c.format)[0] = 0
<1>1. c.format \in Seq(Directives)
  <2>1. CASE c = Idle
    <3>1. c.format = <<>>
      BY <2>1 DEF Idle
    <3> QED BY <3>1
  <2>2. CASE c \in Requests
    BY <2>2, PrintfAssumption DEF Calls
  <2> QED BY <2>1, <2>2
<1>2. Len(c.format) \in Nat
  BY <1>1
<1> QED BY <1>1, <1>2, MostFacts

LEMMA CallFormat ==
  ASSUME TextInv
  PROVE  /\ call.format \in Seq(Directives) /\ Len(call.format) \in Nat
         /\ MostWritten(call.format)[0] = 0
<1>1. call = Idle \/ call \in Requests
  BY DEF TextInv
<1> QED BY <1>1, FormatFacts

(* The whole text is no longer than the directives can make it.            *)
LEMMA CountFacts ==
  ASSUME CountInv
  PROVE  /\ MostWritten(call.format)[Len(call.format)] \in Nat
         /\ idx <= MostWritten(call.format)[Len(call.format)]
<1>1. PICK L \in Nat, k \in Nat : L = Len(call.format) /\ k = pos - 1 /\ k \in 0 .. L
  <2>1. Len(call.format) \in Nat /\ pos \in Nat \ {0} /\ pos <= Len(call.format) + 1
    BY CallFormat DEF CountInv, TextInv
  <2>2. pos - 1 \in 0 .. Len(call.format)
    BY <2>1
  <2> QED BY <2>1, <2>2
<1>2. PICK m : m = MostWritten(call.format) /\ m \in [0 .. L -> Nat] /\ m[k] <= m[L]
  BY <1>1, CallFormat, MostFacts, MostGrows DEF CountInv
<1>3. idx \in Nat /\ idx <= m[k]
  BY <1>1, <1>2 DEF CountInv
<1>4. m[k] \in Nat /\ m[L] \in Nat
  <2>1. k \in 0 .. L /\ L \in 0 .. L
    BY <1>1
  <2> QED BY <1>2, <2>1
<1> QED BY <1>1, <1>2, <1>3, <1>4

LEMMA CountStart == Init => CountInv
<1> SUFFICES ASSUME Init
             PROVE  CountInv
  OBVIOUS
<1>1. TextInv /\ Len(call.format) \in Nat /\ MostWritten(call.format)[0] = 0
  BY TextStart, CallFormat
<1>2. pos = 1 /\ idx = 0 /\ pc = "idle" /\ DOMAIN dest = 0 .. Cells - 1
  BY DEF Init
<1> QED BY <1>1, <1>2 DEF CountInv

LEMMA OutKeepsDomain ==
  ASSUME NEW chars, NEW at, Out(chars, at)
  PROVE  DOMAIN dest' = DOMAIN dest
BY DEF Out, OutBuffer

(* An iteration: what it writes goes behind what is counted.               *)
LEMMA DirectiveCounts ==
  ASSUME CountInv, Directive
  PROVE  /\ pc = "format" /\ pos \in 1 .. Len(call.format)
         /\ MostWritten(call.format)[pos] \in Nat
         /\ MostWritten(call.format)[pos] <= MostWritten(call.format)[Len(call.format)]
         /\ \E chars : /\ IsText(chars) /\ Write(chars)
                       /\ idx + Len(chars) <= MostWritten(call.format)[pos]
<1>1. call \in Calls /\ pos \in Nat \ {0} /\ TextInv
  <2>1. pc = "format"
    BY DEF Directive, Literal, Integer, Character, String, Pointer, Other, At
  <2> QED BY <2>1, PrintfAssumption DEF CountInv, TextInv
<1>2. pc = "format" /\ pos \in 1 .. Len(call.format)
  BY <1>1, DirectiveWrites
<1>3. PICK chars : IsText(chars) /\ Write(chars) /\ Len(chars) <= Longest(item)
  BY <1>1, DirectiveWrites
<1>4. PICK L \in Nat, k \in Nat : L = Len(call.format) /\ k = pos /\ k \in 1 .. L
  BY <1>1, <1>2, CallFormat
<1>5. PICK m : /\ m = MostWritten(call.format) /\ m \in [0 .. L -> Nat] /\ m[k] <= m[L]
               /\ m[k] = m[k - 1] + Longest(call.format[k])
  <2>1. k \in 0 .. L
    BY <1>4
  <2> QED BY <1>1, <1>4, <2>1, CallFormat, MostFacts, MostGrows
<1>6. PICK c \in Nat, l \in Nat : c = Len(chars) /\ l = Longest(item) /\ c <= l
  <2>1. item \in Directives
    BY <1>1, <1>2 DEF Calls, item
  <2> QED BY <1>3, <2>1, LongestFacts, TextFacts
<1>7. idx \in Nat /\ idx <= m[k - 1] /\ m[k - 1] \in Nat /\ m[k] = m[k - 1] + l
  <2>1. k - 1 \in 0 .. L
    BY <1>4
  <2> QED BY <1>4, <1>5, <1>6, <2>1 DEF CountInv, item
<1>8. idx + c <= m[k] /\ m[k] \in Nat
  BY <1>6, <1>7
<1> QED BY <1>2, <1>3, <1>4, <1>5, <1>6, <1>8

LEMMA CountKept ==
  ASSUME CountInv, [Next]_vars
  PROVE  CountInv'
<1>1. TextInv /\ TextInv' /\ DOMAIN dest = 0 .. Cells - 1
  BY TextKept DEF CountInv
<1>2. /\ Len(call.format) \in Nat /\ Len(call.format)' \in Nat /\ pos \in Nat \ {0}
      /\ MostWritten(call.format)[0]' = 0
  <2>1. call' = Idle \/ call' \in Requests
    BY <1>1 DEF TextInv
  <2>2. Len(call'.format) \in Nat /\ MostWritten(call'.format)[0] = 0
    BY <2>1, FormatFacts
  <2> QED BY <1>1, <2>2, CallFormat DEF TextInv
<1>3. CASE Call
  <2>1. pos' = 1 /\ idx' = 0 /\ dest' = dest /\ pc' = "format"
    BY <1>3 DEF Call, CountInv
  <2> QED BY <1>1, <1>2, <2>1 DEF CountInv
<1>4. CASE Directive
  <2>1. pc = "format" /\ pos \in 1 .. Len(call.format)
    BY <1>4, DirectiveCounts
  <2>2. PICK chars : /\ IsText(chars) /\ Write(chars)
                     /\ idx + Len(chars) <= MostWritten(call.format)[pos]
    BY <1>4, DirectiveCounts
  <2>3. Len(chars) \in Nat
    BY <2>2, TextFacts
  <2>4. /\ Out(chars, idx) /\ idx' = idx + Len(chars) /\ pos' = pos + 1 /\ pc' = pc
        /\ call' = call
    BY <2>2 DEF Write
  <2>5. DOMAIN dest' = 0 .. Cells - 1
    BY <1>1, <2>4, OutKeepsDomain
  <2>6. pos' - 1 = pos /\ pos' <= Len(call.format) + 1
    BY <1>2, <2>1, <2>4
  <2>7. idx' \in Nat
    BY <2>3, <2>4 DEF CountInv
  <2> QED BY <1>1, <2>1, <2>2, <2>4, <2>5, <2>6, <2>7 DEF CountInv
<1>5. CASE Terminate
  <2>1. /\ Out(<<NUL>>, EndCell) /\ pc = "format" /\ pc' = "done" /\ call' = call
        /\ pos' = pos /\ idx' = idx /\ pos > Len(call.format)
    BY <1>5 DEF Terminate
  <2>2. DOMAIN dest' = 0 .. Cells - 1
    BY <1>1, <2>1, OutKeepsDomain
  <2>3. pos = Len(call.format) + 1
    BY <1>2, <2>1 DEF CountInv
  <2> QED BY <1>1, <1>2, <2>1, <2>2, <2>3 DEF CountInv
<1>6. CASE Return
  <2>1. pos' = 1 /\ idx' = 0 /\ pc' = "idle" /\ DOMAIN dest' = 0 .. Cells - 1
    BY <1>6 DEF Return
  <2> QED BY <1>1, <1>2, <2>1 DEF CountInv
<1>7. CASE UNCHANGED vars
  BY <1>1, <1>7 DEF vars, CountInv
<1> QED BY <1>3, <1>4, <1>5, <1>6, <1>7 DEF Next, Directive

LEMMA CountTypes ==
  ASSUME CountsFit, CountInv
  PROVE  TypeOK
<1>1. TextInv /\ Len(call.format) \in Nat /\ SizeMax \in Nat /\ SizeMax >= 1
  <2>1. SizeMax \in Nat /\ SizeMax >= 1
    BY PrintfAssumption
  <2> QED BY <2>1, CallFormat DEF CountInv
<1>2. pc = "idle" <=> call = Idle
  <2>1. ASSUME pc # "idle"
        PROVE  call.fn # "none"
    BY <1>1, <2>1, PrintfAssumption DEF TextInv, Calls
  <2>2. Idle.fn = "none"
    BY DEF Idle
  <2> QED BY <1>1, <2>1, <2>2 DEF TextInv
<1>3. idx \in 0 .. SizeMax - 1
  <2>1. CASE pc = "idle"
    BY <1>1, <2>1 DEF CountInv
  <2>2. CASE pc # "idle"
    <3>1. PICK n \in Nat : n = MostWritten(call.format)[Len(call.format)] /\ idx <= n
      BY CountFacts
    <3>2. n < SizeMax
      BY <1>1, <2>2, <3>1 DEF CountsFit, Fits, TextInv
    <3>3. idx \in Nat
      BY DEF CountInv
    <3> QED BY <1>1, <3>1, <3>2, <3>3
  <2> QED BY <2>1, <2>2
<1>4. pos \in 1 .. Len(call.format) + 1
  BY <1>1 DEF CountInv, TextInv
<1> QED BY <1>1, <1>2, <1>3, <1>4 DEF TypeOK, CountInv, TextInv

(* The position in the format, the count of characters and the caller's    *)
(* buffer keep their types: idx stays below the size_t that nothing checks *)
(* it against, when no text that is asked for reaches SizeMax.             *)
THEOREM TypesCorrect == CountsFit => (Spec => []TypeOK)
<1> SUFFICES ASSUME CountsFit
             PROVE  Spec => []TypeOK
  OBVIOUS
<1>1. CountInv => TypeOK
  BY CountTypes
<1>2. CountInv /\ [Next]_vars => CountInv'
  BY CountKept
<1> QED BY <1>1, <1>2, CountStart, PTL DEF Spec

----------------------------------------------------------------------------
(* Where characters go.                                                    *)
BufferInv ==
  /\ CountInv /\ dest = [i \in 0 .. Cells - 1 |-> dest[i]]
  /\ InsideBuffer

(* How much room a buffer has: what snprintf is told, and for sprintf what *)
(* the caller saw to.                                                      *)
LEMMA CallFacts ==
  ASSUME CountInv, pc # "idle", ArraysFit
  PROVE  /\ call.size \in 0 .. Cells /\ Cells \in 1 .. SizeMax /\ SizeMax \in Nat
         /\ call.fn \in {"printf", "sprintf", "snprintf"}
         /\ call.fn = "snprintf" => maxlen = call.size
         /\ call.fn = "sprintf" =>
              /\ maxlen = SizeMax
              /\ MostWritten(call.format)[Len(call.format)] < call.size
<1>1. call \in Requests /\ call \in Calls
  BY PrintfAssumption DEF CountInv, TextInv
<1>2. call.fn = "sprintf" => MostWritten(call.format)[Len(call.format)] < call.size
  BY <1>1 DEF ArraysFit, Fits
<1> QED BY <1>1, <1>2, PrintfAssumption DEF Calls, maxlen

(* out changes nothing outside, when sprintf has room.                     *)
LEMMA OutInside ==
  ASSUME BufferInv, pc # "idle", ArraysFit, NEW chars, NEW at, Out(chars, at), call' = call,
         call.fn = "sprintf" => \A i \in at .. at + Len(chars) - 1 : i < call.size
  PROVE  /\ dest' = [i \in 0 .. Cells - 1 |-> dest'[i]] /\ InsideBuffer'
         /\ sink = "_out_buffer" => dest' = OutBuffer(chars, at)
<1>1. sink' = sink /\ maxlen' = maxlen
  BY DEF sink, maxlen
<1>2. DOMAIN dest = 0 .. Cells - 1
  BY DEF BufferInv
<1>3. ASSUME sink # "_out_buffer"
      PROVE  dest' = dest
  BY <1>3 DEF Out
<1>4. ASSUME sink = "_out_buffer"
      PROVE  /\ dest' = OutBuffer(chars, at) /\ DOMAIN dest' = 0 .. Cells - 1
             /\ \A i \in 0 .. Cells - 1 :
                  ~(i \in at .. at + Len(chars) - 1 /\ i < maxlen) => dest'[i] = dest[i]
             /\ dest' = [i \in 0 .. Cells - 1 |-> dest'[i]]
  BY <1>2, <1>4 DEF Out, OutBuffer
<1>5. CASE sink # "_out_buffer"
  BY <1>1, <1>3, <1>5 DEF BufferInv, InsideBuffer
<1>6. CASE sink = "_out_buffer"
  <2>1. ASSUME NEW i \in 0 .. Cells - 1, i >= call.size
        PROVE  ~(i \in at .. at + Len(chars) - 1 /\ i < maxlen)
    <3>1. /\ call.size \in Nat /\ i \in Nat
          /\ call.fn = "sprintf" \/ (call.fn = "snprintf" /\ maxlen = call.size)
      BY <1>6, CallFacts, PrintfAssumption DEF BufferInv, sink
    <3>2. ~(i < call.size)
      BY <2>1, <3>1
    <3> QED BY <3>1, <3>2
  <2>2. InsideBuffer'
    BY <1>1, <1>2, <1>4, <1>6, <2>1 DEF BufferInv, InsideBuffer
  <2> QED BY <1>4, <1>6, <2>2
<1> QED BY <1>5, <1>6

(* An iteration writes into the buffer, and so does the end.               *)
LEMMA DirectiveInside ==
  ASSUME ArraysFit, BufferInv, Directive
  PROVE  /\ dest' = [i \in 0 .. Cells - 1 |-> dest'[i]] /\ InsideBuffer'
         /\ \E chars : /\ IsText(chars) /\ Write(chars)
                       /\ sink = "_out_buffer" => dest' = OutBuffer(chars, idx)
<1>1. CountInv /\ pc = "format" /\ idx \in Nat
  BY DirectiveCounts DEF BufferInv, CountInv
<1>2. PICK m \in Nat, n \in Nat :
        /\ m = MostWritten(call.format)[pos] /\ m <= n
        /\ n = MostWritten(call.format)[Len(call.format)]
  BY <1>1, DirectiveCounts, CountFacts
<1>3. PICK chars : IsText(chars) /\ Write(chars) /\ idx + Len(chars) <= m
  BY <1>1, <1>2, DirectiveCounts
<1>4. PICK k \in Nat, at \in Nat : k = Len(chars) /\ at = idx /\ at + k <= n
  BY <1>1, <1>2, <1>3, TextFacts
<1>5. call.fn = "sprintf" => \A i \in at .. at + k - 1 : i < call.size
  <2>1. ASSUME call.fn = "sprintf", NEW i \in at .. at + k - 1
        PROVE  i < call.size
    <3>1. n < call.size /\ call.size \in Int
      BY <1>1, <1>2, <2>1, CallFacts, PrintfAssumption
    <3> QED BY <1>4, <3>1
  <2> QED BY <2>1
<1>6. Out(chars, idx) /\ call' = call /\ pc # "idle"
  BY <1>1, <1>3 DEF Write
<1>7. /\ dest' = [i \in 0 .. Cells - 1 |-> dest'[i]] /\ InsideBuffer'
      /\ sink = "_out_buffer" => dest' = OutBuffer(chars, idx)
  BY <1>4, <1>5, <1>6, OutInside
<1> QED BY <1>3, <1>7

LEMMA EndCellFacts ==
  ASSUME NEW m \in Nat, m > 0, NEW s \in Nat, m <= s
  PROVE  (m - 1) % (s + 1) = m - 1
OBVIOUS

LEMMA TerminateInside ==
  ASSUME ArraysFit, BufferInv, Terminate
  PROVE  /\ dest' = [i \in 0 .. Cells - 1 |-> dest'[i]] /\ InsideBuffer'
         /\ sink = "_out_buffer" => dest' = OutBuffer(<<NUL>>, EndCell)
<1>1. CountInv /\ pc # "idle" /\ Out(<<NUL>>, EndCell) /\ call' = call /\ idx \in Nat
  BY DEF BufferInv, CountInv, Terminate
<1>2. ASSUME call.fn = "sprintf"
      PROVE  \A i \in EndCell .. EndCell + Len(<<NUL>>) - 1 : i < call.size
  <2>1. PICK n \in Nat : n = MostWritten(call.format)[Len(call.format)] /\ idx <= n
    BY <1>1, CountFacts
  <2>2. /\ n < call.size /\ call.size \in Int /\ maxlen = SizeMax /\ call.size <= SizeMax
        /\ SizeMax \in Nat
    BY <1>1, <1>2, <2>1, CallFacts
  <2>3. EndCell = idx /\ idx < call.size
    BY <1>1, <2>1, <2>2 DEF EndCell
  <2>4. PICK l \in Nat : l = Len(<<NUL>>) /\ l = 1
    BY ShortTexts
  <2> QED BY <1>1, <2>2, <2>3, <2>4
<1> QED BY <1>1, <1>2, OutInside

LEMMA BufferKept ==
  ASSUME ArraysFit, BufferInv, [Next]_vars
  PROVE  BufferInv'
<1> CountInv'
  BY CountKept DEF BufferInv
<1>1. CASE Call
  <2>1. \A i \in DOMAIN dest : dest[i] = Unset
    BY <1>1 DEF Call, BufferInv, CountInv, TextInv, InsideBuffer, Idle, sink
  <2> QED BY <1>1, <2>1 DEF Call, BufferInv, InsideBuffer
<1>2. CASE Directive
  BY <1>2, DirectiveInside DEF BufferInv
<1>3. CASE Terminate
  BY <1>3, TerminateInside DEF BufferInv
<1>4. CASE Return
  BY <1>4 DEF Return, BufferInv, InsideBuffer
<1>5. CASE UNCHANGED vars
  BY <1>5 DEF vars, BufferInv, InsideBuffer, sink
<1> QED BY <1>1, <1>2, <1>3, <1>4, <1>5 DEF Next, Directive

LEMMA BufferStart == Init => BufferInv
BY CountStart DEF Init, BufferInv, InsideBuffer

(* snprintf stores nothing outside the count bytes it is given, whatever   *)
(* the format, nor does sprintf for a caller whose array has room for what *)
(* the format can become.                                                  *)
THEOREM StaysInside == ArraysFit => (Spec => []InsideBuffer)
<1> SUFFICES ASSUME ArraysFit
             PROVE  Spec => []InsideBuffer
  OBVIOUS
<1>1. BufferInv /\ [Next]_vars => BufferInv'
  BY BufferKept
<1>2. BufferInv => InsideBuffer
  BY DEF BufferInv
<1> QED BY <1>1, <1>2, BufferStart, PTL DEF Spec

----------------------------------------------------------------------------
(* What the caller and the console have of the text.                       *)
DeliveredInv ==
  /\ BufferInv /\ idx = Len(sent)
  /\ pc = "idle" => sent = <<>> /\ console = <<>>
  /\ sink = "_out_char" => console = Visible(sent)
  /\ sink = "_out_buffer" =>
       \A i \in 0 .. Cells - 1 :
         i < idx /\ i < maxlen /\ (pc = "done" => i < maxlen - 1) => dest[i] = sent[i + 1]
  /\ pc = "done" /\ sink = "_out_buffer" /\ maxlen > 0 => dest[Kept] = NUL

(* The bytes that are kept, and then the NUL.                              *)
LEMMA KeptFacts ==
  ASSUME ArraysFit, BufferInv, pc # "idle", sink = "_out_buffer"
  PROVE  /\ maxlen \in 0 .. SizeMax /\ SizeMax \in Nat /\ idx \in Nat
         /\ maxlen > 0 => /\ Kept = (IF idx < maxlen THEN idx ELSE maxlen - 1)
                          /\ Kept \in 0 .. Cells - 1
         /\ maxlen = 0 => Kept = 0
<1>1. CountInv /\ idx \in Nat
  BY DEF BufferInv, CountInv
<1>2. /\ call.size \in 0 .. Cells /\ Cells \in 1 .. SizeMax /\ SizeMax \in Nat
      /\ call.fn \in {"sprintf", "snprintf"}
      /\ call.fn = "snprintf" => maxlen = call.size
      /\ call.fn = "sprintf" => maxlen = SizeMax /\ idx < call.size
  <2>1. PICK n \in Nat : n = MostWritten(call.format)[Len(call.format)] /\ idx <= n
    BY <1>1, CountFacts
  <2>2. call.fn # "printf"
    BY DEF sink
  <2>3. /\ call.size \in 0 .. Cells /\ Cells \in 1 .. SizeMax /\ SizeMax \in Nat
        /\ call.fn \in {"printf", "sprintf", "snprintf"}
        /\ call.fn = "snprintf" => maxlen = call.size
        /\ call.fn = "sprintf" => maxlen = SizeMax /\ n < call.size
    BY <1>1, <2>1, CallFacts
  <2>4. n < call.size => idx < call.size
    BY <1>1, <2>1, <2>3
  <2> QED BY <2>2, <2>3, <2>4
<1>3. maxlen \in 0 .. SizeMax
  BY <1>2
<1>4. Max({maxlen - 1, 0}) = IF maxlen > 0 THEN maxlen - 1 ELSE 0
  <2>1. ASSUME NEW a \in Int
        PROVE  Max({a, 0}) = IF a >= 0 THEN a ELSE 0
    BY MinMax
  <2>2. maxlen \in Int /\ maxlen - 1 \in Int
    BY <1>2, <1>3
  <2>3. Max({maxlen - 1, 0}) = IF maxlen - 1 >= 0 THEN maxlen - 1 ELSE 0
    BY <2>1, <2>2, Zenon
  <2> QED BY <2>2, <2>3
<1>5. PICK b \in Int : b = Max({maxlen - 1, 0})
  BY <1>2, <1>3, <1>4
<1>6. Kept = IF idx <= b THEN idx ELSE b
  <2>1. Kept = Min({idx, b})
    BY <1>5 DEF Kept
  <2>2. idx \in Int /\ b \in Int
    BY <1>1, <1>5
  <2>3. Min({idx, b}) = IF idx <= b THEN idx ELSE b
    BY <2>2, MinMax, Zenon
  <2> QED BY <2>1, <2>3
<1>7. maxlen > 0 => Kept = (IF idx < maxlen THEN idx ELSE maxlen - 1)
  BY <1>1, <1>2, <1>3, <1>4, <1>5, <1>6
<1>8. maxlen = 0 => Kept = 0
  BY <1>1, <1>2, <1>3, <1>4, <1>5, <1>6
<1>9. maxlen > 0 => Kept \in 0 .. Cells - 1
  <2>1. CASE call.fn = "snprintf"
    BY <1>1, <1>2, <1>7, <2>1
  <2>2. CASE call.fn = "sprintf"
    BY <1>1, <1>2, <1>7, <2>2
  <2> QED BY <1>2, <2>1, <2>2
<1> QED BY <1>1, <1>2, <1>3, <1>7, <1>8, <1>9

(* A text behind the text so far.                                          *)
LEMMA WriteDelivers ==
  ASSUME DeliveredInv, pc = "format", BufferInv',
         NEW chars, IsText(chars), Write(chars),
         sink = "_out_buffer" => dest' = OutBuffer(chars, idx)
  PROVE  DeliveredInv'
<1> DEFINE n == Len(sent)
<1>1. BufferInv /\ IsText(sent) /\ idx = n /\ DOMAIN dest = 0 .. Cells - 1
  BY DEF DeliveredInv, BufferInv, CountInv, TextInv
<1>2. /\ Out(chars, idx) /\ call' = call /\ pc' = pc
      /\ idx' = idx + Len(chars) /\ sent' = sent \o chars
  BY DEF Write
<1>3. /\ n \in Nat /\ Len(chars) \in Nat /\ Len(sent') = n + Len(chars)
      /\ \A i \in 1 .. n : sent'[i] = sent[i]
      /\ \A i \in 1 .. Len(chars) : sent'[n + i] = chars[i]
  BY <1>1, <1>2, TextFacts, ConcatFacts
<1>4. sink' = sink /\ maxlen' = maxlen
  BY <1>2 DEF sink, maxlen
<1>5. ASSUME sink = "_out_buffer", NEW i \in 0 .. Cells - 1,
             i < idx', i < maxlen
      PROVE  dest'[i] = sent'[i + 1]
  <2>1. dest' = OutBuffer(chars, idx) /\ i \in DOMAIN dest /\ i \in Nat
    BY <1>1, <1>5, PrintfAssumption
  <2>2. dest'[i] = IF i \in idx .. idx + Len(chars) - 1
                   THEN chars[i - idx + 1] ELSE dest[i]
    BY <1>5, <2>1 DEF OutBuffer
  <2>3. CASE i < n
    <3>1. dest[i] = sent[i + 1]
      BY <1>1, <1>5, <2>3 DEF DeliveredInv
    <3>2. i \notin idx .. idx + Len(chars) - 1 /\ i + 1 \in 1 .. n
      BY <1>1, <1>3, <2>1, <2>3
    <3> QED BY <1>3, <2>2, <3>1, <3>2
  <2>4. CASE ~(i < n)
    <3>1. /\ i \in idx .. idx + Len(chars) - 1 /\ i - idx + 1 \in 1 .. Len(chars)
          /\ n + (i - idx + 1) = i + 1
      BY <1>1, <1>2, <1>3, <1>5, <2>1, <2>4
    <3>2. sent'[n + (i - idx + 1)] = chars[i - idx + 1]
      BY <1>3, <3>1
    <3> QED BY <2>2, <3>1, <3>2
  <2> QED BY <2>3, <2>4
<1>6. ASSUME sink = "_out_char"
      PROVE  console' = Visible(sent')
  <2>1. console' = console \o Visible(chars)
    BY <1>2, <1>6 DEF Out, OutChar
  <2>2. console = Visible(sent)
    BY <1>6 DEF DeliveredInv
  <2>3. Visible(sent \o chars) = Visible(sent) \o Visible(chars)
    BY <1>1, VisibleConcat
  <2> QED BY <1>2, <2>1, <2>2, <2>3
<1> HIDE DEF n
<1>7. idx' = Len(sent') /\ pc' = "format"
  BY <1>1, <1>2, <1>3
<1> QED BY <1>4, <1>5, <1>6, <1>7 DEF DeliveredInv

(* The NUL behind it.                                                      *)
LEMMA TerminateDelivers ==
  ASSUME ArraysFit, DeliveredInv, Terminate, BufferInv'
  PROVE  DeliveredInv'
<1>1. /\ pc = "format" /\ pc # "idle" /\ BufferInv /\ IsText(sent) /\ idx = Len(sent)
      /\ DOMAIN dest = 0 .. Cells - 1
  BY DEF DeliveredInv, BufferInv, CountInv, TextInv, Terminate
<1>2. /\ Out(<<NUL>>, EndCell) /\ call' = call /\ pc' = "done"
      /\ idx' = idx /\ sent' = sent
  BY DEF Terminate
<1>3. sink' = sink /\ maxlen' = maxlen /\ Kept' = Kept
  BY <1>2 DEF sink, maxlen, Kept
<1>4. ASSUME sink = "_out_buffer"
      PROVE  /\ \A i \in 0 .. Cells - 1 :
                   i < idx /\ i < maxlen - 1 => dest'[i] = sent[i + 1]
             /\ maxlen > 0 => dest'[Kept] = NUL
  <2>1. /\ maxlen \in 0 .. SizeMax /\ SizeMax \in Nat /\ idx \in Nat /\ Cells \in Nat
        /\ maxlen > 0 => /\ Kept = (IF idx < maxlen THEN idx ELSE maxlen - 1)
                         /\ Kept \in 0 .. Cells - 1
    BY <1>1, <1>4, KeptFacts, PrintfAssumption
  <2>2. maxlen > 0 => EndCell = Kept
    BY <2>1, EndCellFacts DEF EndCell
  <2>3. dest' = OutBuffer(<<NUL>>, EndCell)
    BY <1>1, <1>4, TerminateInside
  <2>4. CASE maxlen > 0
    <3>1. Kept \in 0 .. Cells - 1 /\ Kept < maxlen /\ (Kept = idx \/ Kept = maxlen - 1)
      BY <2>1, <2>4
    <3>2. \A i \in 0 .. Cells - 1 :
            dest'[i] = IF i \in Kept .. Kept + 1 - 1 /\ i < maxlen
                       THEN <<NUL>>[i - Kept + 1] ELSE dest[i]
      BY <1>1, <2>2, <2>3, <2>4, ShortTexts DEF OutBuffer
    <3>3. Kept \in Kept .. Kept + 1 - 1 /\ Kept - Kept + 1 = 1
      BY <3>1
    <3>4. dest'[Kept] = NUL
      BY <3>1, <3>2, <3>3, ShortTexts
    <3>5. ASSUME NEW i \in 0 .. Cells - 1, i < idx, i < maxlen - 1
          PROVE  dest'[i] = sent[i + 1]
      <4>1. i \notin Kept .. Kept + 1 - 1 /\ i < maxlen
        BY <2>1, <3>1, <3>5
      <4>2. dest'[i] = dest[i]
        BY <3>2, <4>1
      <4> QED BY <1>1, <1>4, <3>5, <4>1, <4>2 DEF DeliveredInv
    <3> QED BY <3>4, <3>5
  <2>5. CASE maxlen = 0
    BY <2>1, <2>5
  <2> QED BY <2>1, <2>4, <2>5
<1>5. ASSUME sink = "_out_char"
      PROVE  console' = Visible(sent')
  <2>1. console' = Visible(sent) \o <<>>
    BY <1>2, <1>5, VisibleNul DEF Out, OutChar, DeliveredInv
  <2>2. Visible(sent) \o <<>> = Visible(sent)
    BY <1>1, VisibleIsText, ConcatEmpty
  <2> QED BY <1>2, <2>1, <2>2
<1> QED BY <1>1, <1>2, <1>3, <1>4, <1>5 DEF DeliveredInv

LEMMA DeliveredKept ==
  ASSUME ArraysFit, DeliveredInv, [Next]_vars
  PROVE  DeliveredInv'
<1>1. BufferInv
  BY DEF DeliveredInv
<1>2. BufferInv'
  BY <1>1, BufferKept
<1>3. CASE Call
  <2>1. /\ idx' = 0 /\ sent' = <<>> /\ console' = <<>> /\ idx' = Len(sent')
        /\ pc' = "format"
    BY <1>1, <1>3 DEF Call, DeliveredInv, BufferInv, CountInv
  <2>2. \A i \in 0 .. Cells - 1 : ~(i < idx')
    BY <2>1, PrintfAssumption
  <2>3. console' = Visible(sent')
    BY <2>1, VisibleEmpty
  <2> QED BY <1>2, <2>1, <2>2, <2>3 DEF DeliveredInv
<1>4. CASE Directive
  <2>1. pc = "format"
    BY <1>4 DEF Directive, Literal, Integer, Character, String, Pointer, Other, At
  <2>2. PICK chars : /\ IsText(chars) /\ Write(chars)
                     /\ sink = "_out_buffer" => dest' = OutBuffer(chars, idx)
    BY <1>1, <1>4, DirectiveInside
  <2> QED BY <1>2, <2>1, <2>2, WriteDelivers
<1>5. CASE Terminate
  BY <1>2, <1>5, TerminateDelivers
<1>6. CASE Return
  <2>1. /\ pc' = "idle" /\ idx' = 0 /\ sent' = <<>> /\ console' = <<>>
    BY <1>6 DEF Return
  <2>2. Len(sent') = 0
    BY <2>1, ShortTexts
  <2>3. \A i \in 0 .. Cells - 1 : ~(i < idx')
    BY <2>1, PrintfAssumption
  <2>4. console' = Visible(sent')
    BY <2>1, VisibleEmpty
  <2> QED BY <1>2, <2>1, <2>2, <2>3, <2>4 DEF DeliveredInv
<1>7. CASE UNCHANGED vars
  <2>1. Kept' = Kept /\ sink' = sink /\ maxlen' = maxlen
    BY <1>7 DEF vars, Kept, sink, maxlen
  <2> QED BY <1>2, <1>7, <2>1 DEF vars, DeliveredInv
<1> QED BY <1>3, <1>4, <1>5, <1>6, <1>7 DEF Next, Directive

LEMMA InvDelivers ==
  ASSUME ArraysFit, DeliveredInv
  PROVE  Delivered
<1> SUFFICES ASSUME pc = "done"
             PROVE  Delivered
  BY DEF Delivered
<1>1. BufferInv /\ pc # "idle" /\ idx = Len(sent)
  BY DEF DeliveredInv
<1>2. CASE sink # "_out_buffer"
  <2>1. \A i \in 0 .. Kept - 1 : FALSE
    BY <1>2 DEF Kept
  <2> QED BY <1>1, <1>2, <2>1 DEF Delivered, DeliveredInv
<1>3. CASE sink = "_out_buffer"
  <2>1. /\ maxlen \in 0 .. SizeMax /\ SizeMax \in Nat /\ idx \in Nat /\ Cells \in Nat
        /\ maxlen > 0 => /\ Kept = (IF idx < maxlen THEN idx ELSE maxlen - 1)
                         /\ Kept \in 0 .. Cells - 1
        /\ maxlen = 0 => Kept = 0
    BY <1>1, <1>3, KeptFacts, PrintfAssumption
  <2>2. ASSUME NEW i \in 0 .. Kept - 1
        PROVE  i \in 0 .. Cells - 1 /\ i < idx /\ i < maxlen /\ i < maxlen - 1
    BY <2>1
  <2>3. \A i \in 0 .. Kept - 1 : dest[i] = sent[i + 1]
    BY <1>3, <2>1, <2>2 DEF DeliveredInv
  <2> QED BY <1>1, <1>3, <2>3 DEF Delivered, DeliveredInv
<1> QED BY <1>2, <1>3

LEMMA DeliveredStart == Init => DeliveredInv
<1> SUFFICES ASSUME Init
             PROVE  DeliveredInv
  OBVIOUS
<1>1. BufferInv
  BY BufferStart
<1>2. \A i \in 0 .. Cells - 1 : ~(i < 0)
  BY PrintfAssumption
<1>3. Len(<<>>) = 0 /\ Visible(<<>>) = <<>>
  BY ShortTexts, VisibleEmpty
<1> QED BY <1>1, <1>2, <1>3 DEF Init, DeliveredInv

(* What a call leaves is the text: in the buffer of snprintf up to where   *)
(* it is cut off, with a NUL behind it inside the buffer, in the array of  *)
(* sprintf the whole, and on the console without the NULs in it; and it    *)
(* returns the length of the whole, whatever the formats and the sizes.    *)
THEOREM Delivers == ArraysFit => (Spec => []Delivered)
<1> SUFFICES ASSUME ArraysFit
             PROVE  Spec => []Delivered
  OBVIOUS
<1>1. DeliveredInv /\ [Next]_vars => DeliveredInv'
  BY DeliveredKept
<1>2. DeliveredInv => Delivered
  BY InvDelivers
<1> QED BY <1>1, <1>2, DeliveredStart, PTL DEF Spec

=============================================================================
