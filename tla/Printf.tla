------------------------------- MODULE Printf -------------------------------
(***************************************************************************)
(* The formatted output of the kernel and its user programs:               *)
(* src/src/printf.c without floating point, which the build leaves out.    *)
(*                                                                         *)
(* A format is a sequence of directives, each with the arguments it takes  *)
(* from the va_list: the characters of its text are read one by one by     *)
(* _vsnprintf, which is left out, and so is what such a text may get       *)
(* wrong.  An iteration of its loop is a step.                             *)
(*                                                                         *)
(* A definition Broken... before one that models the code is a mistake     *)
(* that the properties at the end must notice.                             *)
(***************************************************************************)
EXTENDS Integers, SequencesExt

(* A directive is a record: spec, the conversion; flags; width (negative:  *)
(* given as * and a negative argument); prec, <<>> or <<n>>; len; and the  *)
(* argument, arg for a number and text for characters.                     *)
SignedSpecs == {"d", "i"}
IntSpecs    == SignedSpecs \cup {"u", "x", "X", "o", "b"}

CONSTANTS
  CharBits, ShortBits, IntBits, LongBits,   \* the widths of C's integers
  NtoaSize,       \* PRINTF_NTOA_BUFFER_SIZE
  PointerDigits,  \* sizeof(void *) * 2
  SizeMax,        \* (size_t)-1
  Cells,          \* how much memory from dest on is looked at
  Requests        \* the calls that are made

Directives ==
  [spec : IntSpecs \cup {"literal", "c", "s", "p", "other"},
   flags : SUBSET {"0", "-", "+", " ", "#"}, width : Int, prec : Seq(Int),
   len : {"hh", "h", "", "l", "ll"}, arg : Int, text : Seq(STRING)]

Calls == [fn : {"printf", "sprintf", "snprintf"}, null : BOOLEAN, size : 0 .. Cells,
          format : Seq(Directives)]

ASSUME PrintfAssumption ==
  /\ CharBits \in Nat \ {0} /\ ShortBits \in Nat /\ IntBits \in Nat
  /\ LongBits \in Nat /\ CharBits <= ShortBits /\ ShortBits <= IntBits
  /\ IntBits <= LongBits /\ PointerDigits * 4 = LongBits
  /\ NtoaSize \in Nat \ {0} /\ PointerDigits \in 1 .. NtoaSize
  /\ SizeMax \in Nat /\ Cells \in 1 .. SizeMax /\ Requests \subseteq Calls

VARIABLES
  pc,           \* "idle", "format" (in the loop) or "done" (returning)
  call,         \* the call: which function, the size of its buffer, ...
  pos,          \* the directive that format points to
  idx,          \* idx of _vsnprintf
  sent,         \* history: the characters given to out
  console,      \* what _putchar got
  dest          \* the caller's buffer and what lies behind it

vars == <<pc, call, pos, idx, sent, console, dest>>

----------------------------------------------------------------------------
(* Characters.                                                             *)
NUL     == "NUL"
Unset   == "unset"
Lower   == <<"0", "1", "2", "3", "4", "5", "6", "7", "8", "9",
             "a", "b", "c", "d", "e", "f">>
Upper   == <<"0", "1", "2", "3", "4", "5", "6", "7", "8", "9",
             "A", "B", "C", "D", "E", "F">>

Times(n, c) == [i \in 1 .. n |-> c]

(* The powers of a base.                                                   *)
Powers(base) ==
  LET p[n \in Nat] == IF n = 0 THEN 1 ELSE base * p[n - 1]
  IN  p

Opt(cond, s) == IF cond THEN s ELSE <<>>

Idle == [fn |-> "none", null |-> FALSE, size |-> 0, format |-> <<>>]

Init ==
  /\ pc = "idle" /\ call = Idle /\ pos = 1 /\ idx = 0 /\ sent = <<>>
  /\ console = <<>> /\ dest = [i \in 0 .. Cells - 1 |-> Unset]

(* printf_, sprintf_ and snprintf_.                                        *)
Call ==
  /\ pc = "idle" /\ pc' = "format"
  /\ call' \in Requests
  /\ UNCHANGED <<pos, idx, sent, console, dest>>

maxlen == IF call.fn = "snprintf" THEN call.size ELSE SizeMax

(* The function behind out.                                                *)
sink == IF call.fn = "printf" THEN "_out_char"
        ELSE IF call.null THEN "_out_null" ELSE "_out_buffer"

(* out, called for each of these characters, the first of them with idx at *)
BrokenOutBuffer(chars, at) ==
  [i \in DOMAIN dest |->
     IF i \in at .. at + Len(chars) - 1 /\ i <= maxlen THEN chars[i - at + 1]
                                                       ELSE dest[i]]

OutBuffer(chars, at) ==
  [i \in DOMAIN dest |->
     IF i \in at .. at + Len(chars) - 1 /\ i < maxlen THEN chars[i - at + 1]
                                                      ELSE dest[i]]

(* The characters that _putchar is called for.                             *)
Visible(chars) ==
  LET seen[n \in 0 .. Len(chars)] ==
        IF n = 0 THEN <<>>
        ELSE IF chars[n] = NUL THEN seen[n - 1] ELSE Append(seen[n - 1], chars[n])
  IN  seen[Len(chars)]

OutChar(chars) == console \o Visible(chars)

Out(chars, at) ==
  /\ console' = IF sink = "_out_char" THEN OutChar(chars) ELSE console
  /\ dest' = IF sink = "_out_buffer" THEN OutBuffer(chars, at) ELSE dest

(* A directive that writes these characters.                               *)
Write(chars) ==
  /\ Out(chars, idx)
  /\ idx' = idx + Len(chars) /\ sent' = sent \o chars /\ pos' = pos + 1
  /\ UNCHANGED <<pc, call>>

At(specs) == pc = "format" /\ pos <= Len(call.format)
             /\ call.format[pos].spec \in specs
item == call.format[pos]

----------------------------------------------------------------------------
(* What the flags, the width and the precision of a directive are read as. *)
Left(d)      == "-" \in d.flags \/ d.width < 0
Width(d)     == IF d.width < 0 THEN -d.width ELSE d.width
HasPrec(d)   == d.prec # <<>>
Precision(d) == IF HasPrec(d) /\ d.prec[1] > 0 THEN d.prec[1] ELSE 0

Flags(d) == d.flags \cup (IF Left(d) THEN {"-"} ELSE {})
                    \cup (IF HasPrec(d) THEN {"."} ELSE {})

Base(d) == CASE d.spec \in {"x", "X"} -> 16
             [] d.spec = "o" -> 8
             [] d.spec = "b" -> 2
             [] OTHER -> 10

(* The flags as an integer conversion goes on with them.                   *)
IntegerFlags(d) ==
  (Flags(d) \ ((IF Base(d) = 10 THEN {"#"} ELSE {})
                 \cup (IF d.spec \notin SignedSpecs THEN {"+", " "} ELSE {})
                 \cup (IF HasPrec(d) THEN {"0"} ELSE {})))
    \cup (IF d.spec = "X" THEN {"X"} ELSE {})

(* The casts of the argument.  char has no sign on this machine.           *)
Bits(d) == CASE d.len = "hh" -> CharBits
             [] d.len = "h"  -> ShortBits
             [] d.len = ""   -> IntBits
             [] OTHER        -> LongBits

Modulo(v, bits)   == v % Powers(2)[bits]
AsSigned(v, bits) == LET m == Modulo(v, bits)
                     IN  IF m < Powers(2)[bits - 1] THEN m ELSE m - Powers(2)[bits]

Argument(d) ==
  IF d.spec \in SignedSpecs /\ d.len # "hh" THEN AsSigned(d.arg, Bits(d))
                                        ELSE Modulo(d.arg, Bits(d))

(* value > 0 ? value : 0 - value, which stays the most negative number     *)
(* when it wraps, cast to unsigned.                                        *)
Magnitude(d) ==
  LET v == Argument(d) IN Modulo(IF v > 0 THEN v ELSE 0 - v, Max({Bits(d), IntBits}))

----------------------------------------------------------------------------
(* _ntoa_long, and _ntoa_long_long, the same for another type: the digits  *)
(* go backwards into a buffer of NtoaSize characters.  First, what is left *)
(* of value after each iteration.                                          *)
Quotients(value, base) ==
  LET q[k \in Nat] == IF k = 0 THEN value ELSE q[k - 1] \div base
  IN  q

BrokenDigitCount(q) ==
  CHOOSE n \in 1 .. NtoaSize :
    (n = NtoaSize \/ q[n] <= 1) /\ \A k \in 1 .. n - 1 : q[k] > 1

DigitCount(q) ==
  CHOOSE n \in 1 .. NtoaSize :
    (n = NtoaSize \/ q[n] = 0) /\ \A k \in 1 .. n - 1 : q[k] # 0

NtoaDigits(value, base, flags) ==
  LET q   == Quotients(value, base)
      set == IF "X" \in flags THEN Upper ELSE Lower
  IN  IF "." \in flags /\ value = 0 THEN <<>>
      ELSE [i \in 1 .. DigitCount(q) |-> set[(q[i - 1] % base) + 1]]

(* As much of more as still fits into the buffer.                          *)
Push(buf, more) == buf \o SubSeq(more, 1, Min({Len(more), NtoaSize - Len(buf)}))

PadZeros(buf, n) == Push(buf, Times(Max({n - Len(buf), 0}), "0"))

(* A zero-padded number leaves room for its sign.                          *)
SignedWidth(negative, width, flags) ==
  IF /\ "-" \notin flags /\ "0" \in flags /\ width > 0
     /\ negative \/ flags \cap {"+", " "} # {}
  THEN width - 1 ELSE width

LeadingZeros(buf, prec, width, flags) ==
  IF "-" \in flags THEN buf
  ELSE PadZeros(PadZeros(buf, prec), IF "0" \in flags THEN width ELSE 0)

(* The prefix of # takes the place of padding zeros, when there are some   *)
(* (or the digits happen to fill the width).                               *)
Hash(buf, base, prec, width, flags) ==
  LET n    == Len(buf)
      drop == IF "." \notin flags /\ n > 0 /\ n \in {prec, width}
              THEN IF n > 1 /\ base = 16 THEN 2 ELSE 1
              ELSE 0
      mark == CASE base = 16 -> IF "X" \in flags THEN <<"X">> ELSE <<"x">>
                [] base = 2  -> <<"b">>
                [] OTHER     -> <<>>
  IN  IF "#" \in flags
      THEN Push(Push(SubSeq(buf, 1, n - drop), mark), <<"0">>)
      ELSE buf

SignOf(negative, flags) ==
  IF negative THEN <<"-">>
  ELSE IF "+" \in flags THEN <<"+">> ELSE Opt(" " \in flags, <<" ">>)

OutRev(buf, width, flags) ==
  LET room == Times(Max({width - Len(buf), 0}), " ")
  IN  Opt("-" \notin flags /\ "0" \notin flags, room) \o Reverse(buf)
        \o Opt("-" \in flags, room)

NtoaFormat(buf, negative, base, prec, width, flags) ==
  LET w      == SignedWidth(negative, width, flags)
      padded == LeadingZeros(buf, prec, w, flags)
      hashed == Hash(padded, base, prec, w, flags)
  IN  OutRev(Push(hashed, SignOf(negative, flags)), w, flags)

Ntoa(value, negative, base, prec, width, flags) ==
  LET fl == IF value = 0 THEN flags \ {"#"} ELSE flags
  IN  NtoaFormat(NtoaDigits(value, base, fl), negative, base, prec, width, fl)

----------------------------------------------------------------------------
(* The iterations of _vsnprintf, by what they meet.                        *)
Literal == /\ At({"literal"})
           /\ Write(item.text)

Integer ==
  /\ At(IntSpecs)
  /\ Write(Ntoa(Magnitude(item), item.spec \in SignedSpecs /\ Argument(item) < 0,
                Base(item), Precision(item), Width(item), IntegerFlags(item)))

(* %c and %s: the padding does not depend on the flag 0.                   *)
Field(body, d) ==
  LET room == Times(Max({Width(d) - Len(body), 0}), " ")
  IN  IF Left(d) THEN body \o room ELSE room \o body

Character == At({"c"}) /\ Write(Field(item.text, item))

BrokenStringPart(d) ==
  IF Precision(d) > 0 THEN SubSeq(d.text, 1, Min({Len(d.text), Precision(d)}))
                      ELSE d.text

StringPart(d) ==
  IF HasPrec(d) THEN SubSeq(d.text, 1, Min({Len(d.text), Precision(d)}))
                ELSE d.text

String == At({"s"}) /\ Write(Field(StringPart(item), item))

Pointer ==
  /\ At({"p"})
  /\ Write(Ntoa(Modulo(item.arg, LongBits), FALSE, 16, Precision(item),
                PointerDigits, Flags(item) \cup {"0", "X"}))

(* %% and a conversion it does not know print that character.              *)
BrokenOther ==
  /\ At({"other"}) /\ Out(item.text, idx)
  /\ idx' = idx + 1 /\ sent' = sent \o item.text /\ pos' = pos + 2
  /\ UNCHANGED <<pc, call>>

Other == At({"other"}) /\ Write(item.text)

(* The NUL goes behind the text or, where that is no place, into the last  *)
(* cell: maxlen - 1 wraps if there is none.                                *)
BrokenEndCell == idx

EndCell == IF idx < maxlen THEN idx ELSE (maxlen - 1) % (SizeMax + 1)

Terminate ==
  /\ pc = "format" /\ pos > Len(call.format)
  /\ Out(<<NUL>>, EndCell) /\ pc' = "done"
  /\ UNCHANGED <<call, pos, idx, sent>>

(* The caller has idx and uses what it got; then the next call.            *)
Return ==
  /\ pc = "done"
  /\ pc' = "idle" /\ call' = Idle /\ pos' = 1 /\ idx' = 0 /\ sent' = <<>>
  /\ console' = <<>> /\ dest' = [i \in 0 .. Cells - 1 |-> Unset]

Next ==
  \/ Call \/ Literal \/ Integer \/ Character \/ String \/ Pointer \/ Other
  \/ Terminate \/ Return

Spec == Init /\ [][Next]_vars

----------------------------------------------------------------------------
(* user_process1: sprintf(buf, "fn:%s, args:%s\n", __func__, array) into   *)
(* an array of 30, with the arguments user_process passes.  The letters of *)
(* a text that are not looked at are all "t".                              *)
Plain(spec, text, arg) ==
  [spec |-> spec, flags |-> {}, width |-> 0, prec |-> <<>>, len |-> "",
   arg |-> arg, text |-> text]

UserBuf == 30

UserLine ==
  [fn |-> "sprintf", null |-> FALSE, size |-> UserBuf, format |->
    << Plain("literal", Times(3, "t"), 0), Plain("s", Times(13, "t"), 0),
       Plain("literal", Times(7, "t"), 0),
       Plain("s", <<"1", "2", "3", "4", "5">>, 0), Plain("literal", <<"t">>, 0) >>]

----------------------------------------------------------------------------
(* Properties.                                                             *)

(* At most how much a directive writes, and the directives of a format up  *)
(* to each of them.  Nothing in the module counts it for the caller.       *)
Longest(d) ==
  CASE d.spec \in IntSpecs    -> Max({NtoaSize, Width(d)})
    [] d.spec \in {"c", "s"} -> Max({Len(d.text), Width(d)})
    [] d.spec = "p"          -> NtoaSize
    [] OTHER                 -> Len(d.text)

MostWritten(format) ==
  LET most[n \in 0 .. Len(format)] ==
        IF n = 0 THEN 0 ELSE most[n - 1] + Longest(format[n])
  IN  most

Fits(r, size) == MostWritten(r.format)[Len(r.format)] < size

(* idx stays below the largest size_t; what a caller gives sprintf room    *)
(* for.                                                                    *)
CountsFit  == \A r \in Requests : Fits(r, SizeMax)
ArraysFit  == \A r \in Requests : r.fn = "sprintf" => Fits(r, r.size)

(* The variables have their types, and a call is at one of its directives. *)
TypeOK ==
  /\ pc \in {"idle", "format", "done"} /\ (pc = "idle" <=> call = Idle)
  /\ pos \in 1 .. Len(call.format) + 1 /\ idx \in 0 .. SizeMax - 1
  /\ DOMAIN dest = 0 .. Cells - 1
  /\ pc = "done" => pos = Len(call.format) + 1

(* printf.h on what a call leaves: it returns the number of characters of  *)
(* the whole text, the caller's buffer holds that text, cut off so that it *)
(* ends with a NUL within count, _putchar gets it without the NULs in it,  *)
(* and nothing is stored without a buffer.                                 *)
Kept == IF sink = "_out_buffer" THEN Min({idx, Max({maxlen - 1, 0})}) ELSE 0

Delivered ==
  pc = "done" =>
    /\ idx = Len(sent)
    /\ \A i \in 0 .. Kept - 1 : dest[i] = sent[i + 1]
    /\ sink = "_out_buffer" /\ maxlen > 0 => dest[Kept] = NUL
    /\ sink = "_out_char" => console = Visible(sent)

(* No byte behind the buffer is touched: not by snprintf whatever the      *)
(* text, a count of 0 included, nor by the sprintf of user_process1.       *)
InsideBuffer ==
  \A i \in DOMAIN dest :
    sink # "_out_buffer" \/ i >= call.size => dest[i] = Unset

(* What the directive at hand writes in this step.                         *)
Written == SubSeq(sent', Len(sent) + 1, Len(sent'))

(* The number a sequence of digits stands for.                             *)
DigitOf(c) == CHOOSE k \in 0 .. 15 : c \in {Lower[k + 1], Upper[k + 1]}
NumberOf(s, base) ==
  LET val[n \in 0 .. Len(s)] == IF n = 0 THEN 0 ELSE val[n - 1] * base + DigitOf(s[n])
  IN  val[Len(s)]

(* The value C gives the argument: the one of its type that is congruent   *)
(* to what was passed.                                                     *)
Value(d) ==
  CHOOSE v \in IF d.spec \in SignedSpecs
               THEN -Powers(2)[Bits(d) - 1] .. Powers(2)[Bits(d) - 1] - 1
               ELSE 0 .. Powers(2)[Bits(d)] - 1 :
    (v - d.arg) % Powers(2)[Bits(d)] = 0

Size(d) == IF Value(d) < 0 THEN -Value(d) ELSE Value(d)

(* What precedes the digits: the sign, and the prefix of #.                *)
Prefix(d) ==
  SignOf(d.spec \in SignedSpecs /\ Value(d) < 0,
         IF d.spec \in SignedSpecs THEN d.flags ELSE {})
  \o (IF "#" \notin d.flags \/ Value(d) = 0 THEN <<>>
      ELSE CASE d.spec \in {"x", "X"} -> <<"0", d.spec>>
             [] d.spec = "b" -> <<"0", "b">>
             [] d.spec = "o" -> <<"0">>
             [] OTHER -> <<>>)

(* The conversions that the module prints as C has them; README.md lists   *)
(* where it does not.                                                      *)
Digits(d) == CHOOSE n \in 1 .. LongBits :
               /\ Size(d) < Powers(Base(d))[n]
               /\ \A k \in 1 .. n - 1 : Size(d) >= Powers(Base(d))[k]

FitsBuffer(d) ==
  Max({Digits(d), IF "0" \in IntegerFlags(d) THEN Max({Precision(d), Width(d)})
                                             ELSE Precision(d)})
    + Len(Prefix(d)) <= NtoaSize

HashFits(d) ==
  \/ Prefix(d) = <<>> \/ HasPrec(d)
  \/ IF "0" \in d.flags /\ ~Left(d)
     THEN Base(d) # 2 /\ Width(d) \notin Digits(d) .. Digits(d) + Len(Prefix(d)) - 1
     ELSE Width(d) # Digits(d)

Regular(d) ==
  /\ FitsBuffer(d) /\ HashFits(d)
  /\ Left(d) => Precision(d) <= IF Size(d) = 0 THEN 0 ELSE Digits(d)
  /\ ~(d.spec = "o" /\ "#" \in d.flags /\ HasPrec(d))
  /\ d.spec \in SignedSpecs => d.len # "hh"
  /\ HasPrec(d) => d.prec[1] >= 0

(* An integer conversion writes its sign and prefix and then digits that   *)
(* stand for the argument, cast to its length: as many as needed, filled   *)
(* up with zeros to the precision or, for the flag 0, to the width, and    *)
(* with spaces on the right side otherwise.                                *)
RendersInteger(d, s) ==
  \E lead, trail \in 0 .. Len(s) :
    LET zeros == "0" \in d.flags /\ ~Left(d) /\ ~HasPrec(d)
        core  == SubSeq(s, lead + 1, Len(s) - trail)
        body  == SubSeq(core, Len(Prefix(d)) + 1, Len(core))
        least == IF HasPrec(d) THEN Precision(d) ELSE 1
    IN  /\ lead + trail <= Len(s)
        /\ IF Left(d) THEN lead = 0 ELSE trail = 0
        /\ s = Times(lead, " ") \o core \o Times(trail, " ")
        /\ IsPrefix(Prefix(d), core)
        /\ ToSet(body) \subseteq ToSet(SubSeq(IF d.spec = "X" THEN Upper ELSE Lower,
                                              1, Base(d)))
        /\ NumberOf(body, Base(d)) = Size(d)
        /\ Len(body) >= least
        /\ Len(body) > least => body[1] # "0" \/ (zeros /\ Len(s) = Width(d))
        /\ Len(s) >= Width(d)
        /\ lead + trail > 0 => Len(s) = Width(d)
        /\ zeros => lead = 0

IntegerRendered ==
  [][Integer /\ Regular(item) => RendersInteger(item, Written)]_vars

(* %s and %c fill their field in the same way, %s with as much of the      *)
(* string as the precision allows; %p, as the kernel uses it, writes every *)
(* digit of the address.                                                   *)
RendersText(d, s) ==
  LET cut  == d.spec = "s" /\ HasPrec(d) /\ d.prec[1] < Len(d.text)
      body == IF cut THEN SubSeq(d.text, 1, d.prec[1]) ELSE d.text
      n    == Len(s) - Len(body)
  IN  /\ n > 0 => Len(s) = Width(d)
      /\ Len(s) >= Width(d)
      /\ IF Left(d) THEN IsPrefix(body, s) ELSE IsSuffix(body, s)
      /\ \A i \in 1 .. Len(s) :
           s[i] = " " \/ IF Left(d) THEN i <= Len(body) ELSE i > n

TextRendered ==
  [][/\ (String \/ Character) /\ (HasPrec(item) => item.prec[1] >= 0)
          => RendersText(item, Written)
     /\ Pointer /\ item.flags = {} /\ ~Left(item) /\ ~HasPrec(item)
          => /\ Len(Written) = PointerDigits
             /\ NumberOf(Written, 16) = Modulo(item.arg, LongBits)]_vars

=============================================================================
