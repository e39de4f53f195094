--------------------------- MODULE ConversionProofs ---------------------------
(***************************************************************************)
(* Proofs about the conversions of Printf, as operators: that what they    *)
(* give is a sequence of characters, how long it is, and that numbers and  *)
(* strings are written as C says they are, for any argument, flags, width  *)
(* and precision and for any widths of the integers.                       *)
(***************************************************************************)
EXTENDS Printf, SequenceTheorems, WellFoundedInduction, TLAPS

IsText(s) == \E C : s \in Seq(C)

----------------------------------------------------------------------------
(* Sequences.                                                              *)
LEMMA TextFacts ==
  ASSUME NEW s, IsText(s)
  PROVE  Len(s) \in Nat /\ s \in Seq({s[i] : i \in 1 .. Len(s)})
<1>1. PICK C : s \in Seq(C)
  BY DEF IsText
<1> QED BY <1>1

LEMMA ConcatFacts ==
  ASSUME NEW s, IsText(s), NEW t, IsText(t)
  PROVE  /\ IsText(s \o t) /\ Len(s \o t) = Len(s) + Len(t)
         /\ \A i \in 1 .. Len(s) : (s \o t)[i] = s[i]
         /\ \A i \in 1 .. Len(t) : (s \o t)[Len(s) + i] = t[i]
<1>1. PICK C : s \in Seq(C)
  BY DEF IsText
<1>2. PICK D : t \in Seq(D)
  BY DEF IsText
<1>3. s \in Seq(C \cup D) /\ t \in Seq(C \cup D)
  BY <1>1, <1>2
<1>4. /\ s \o t \in Seq(C \cup D) /\ Len(s \o t) = Len(s) + Len(t)
      /\ \A i \in 1 .. Len(s) : (s \o t)[i] = s[i]
      /\ \A i \in 1 .. Len(t) : (s \o t)[Len(s) + i] = t[i]
  BY <1>3
<1> QED BY <1>4 DEF IsText

LEMMA ShortTexts == IsText(<<>>) /\ \A c : IsText(<<c>>) /\ Len(<<c>>) = 1 /\ <<c>>[1] = c
<1>1. <<>> \in Seq({})
  OBVIOUS
<1>2. ASSUME NEW c
      PROVE  <<c>> \in Seq({c}) /\ Len(<<c>>) = 1 /\ <<c>>[1] = c
  OBVIOUS
<1> QED BY <1>1, <1>2 DEF IsText

LEMMA PartIsText ==
  ASSUME NEW s, IsText(s), NEW n \in Int, n <= Len(s)
  PROVE  IsText(SubSeq(s, 1, n))
<1>1. PICK C : s \in Seq(C)
  BY DEF IsText
<1>2. \A i \in 1 .. n : s[i] \in C
  BY <1>1
<1>3. SubSeq(s, 1, n) \in Seq(C)
  BY <1>2, SubSeqProperties
<1> QED BY <1>3 DEF IsText

LEMMA ReverseIsText ==
  ASSUME NEW s, IsText(s)
  PROVE  IsText(Reverse(s))
<1>1. PICK C : s \in Seq(C)
  BY DEF IsText
<1>2. Reverse(s) \in Seq(C)
  BY <1>1 DEF Reverse
<1> QED BY <1>2 DEF IsText

LEMMA TimesIsText ==
  ASSUME NEW n \in Nat, NEW c
  PROVE  IsText(Times(n, c))
<1>1. Times(n, c) \in Seq({c})
  BY DEF Times
<1> QED BY <1>1 DEF IsText

LEMMA MinMax ==
  ASSUME NEW a \in Int, NEW b \in Int
  PROVE  /\ Max({a, b}) = IF a >= b THEN a ELSE b
         /\ Min({a, b}) = IF a <= b THEN a ELSE b
BY DEF Max, Min

LEMMA MinIsLess ==
  ASSUME NEW a \in Int, NEW b \in Int
  PROVE  Min({a, b}) \in Int /\ Min({a, b}) <= a
BY MinMax

(* There is a least number in a set of them.                               *)
LEMMA LeastNatural ==
  ASSUME NEW S \in SUBSET Nat, S # {}
  PROVE  \E n \in S : \A m \in S : ~(m < n)
<1>1. \E x \in S : \A y \in S : <<y, x>> \notin OpToRel(<, Nat)
  BY NatLessThanWellFounded, WFMin
<1>2. \A x, y \in Nat : <<y, x>> \in OpToRel(<, Nat) <=> y < x
  BY DEF OpToRel
<1> QED BY <1>1, <1>2
----------------------------------------------------------------------------
(* What the conversions write is text.                                     *)
LEMMA DigitCountFacts ==
  ASSUME NEW q
  PROVE  /\ DigitCount(q) \in 1 .. NtoaSize
         /\ DigitCount(q) = NtoaSize \/ q[DigitCount(q)] = 0
         /\ \A k \in 1 .. DigitCount(q) - 1 : q[k] # 0
<1> DEFINE Ends(n)  == n = NtoaSize \/ q[n] = 0
           Count(n) == Ends(n) /\ \A k \in 1 .. n - 1 : q[k] # 0
<1>1. \E n \in 1 .. NtoaSize : Count(n)
  <2> DEFINE S == {n \in 1 .. NtoaSize : Ends(n)}
  <2>1. NtoaSize \in S /\ S \in SUBSET Nat
    BY PrintfAssumption
  <2>2. PICK n \in S : \A m \in S : ~(m < n)
    <3> HIDE DEF S
    <3> QED BY <2>1, LeastNatural
  <2>3. \A k \in 1 .. n - 1 : k \in 1 .. NtoaSize /\ k \notin S
    BY <2>2, PrintfAssumption
  <2> QED BY <2>2, <2>3
<1> DEFINE c == CHOOSE n \in 1 .. NtoaSize : Count(n)
<1>2. c \in 1 .. NtoaSize /\ Count(c)
  <2> HIDE DEF Count
  <2> QED BY <1>1
<1>3. DigitCount(q) = c
  BY DEF DigitCount
<1> HIDE DEF c
<1> QED BY <1>2, <1>3

LEMMA DigitsAreText ==
  ASSUME NEW value, NEW base, NEW flags
  PROVE  IsText(NtoaDigits(value, base, flags))
<1> DEFINE q        == Quotients(value, base)
           len      == DigitCount(q)
           digit(i) == (IF "X" \in flags THEN Upper ELSE Lower)[(q[i - 1] % base) + 1]
<1>1. len \in Nat
  <2> HIDE DEF q
  <2> QED BY DigitCountFacts, PrintfAssumption
<1>2. [i \in 1 .. len |-> digit(i)] \in Seq({digit(i) : i \in 1 .. len})
  <2> HIDE DEF len, digit
  <2> QED BY <1>1
<1>3. NtoaDigits(value, base, flags) =
        IF "." \in flags /\ value = 0 THEN <<>> ELSE [i \in 1 .. len |-> digit(i)]
  BY DEF NtoaDigits
<1>4. IsText([i \in 1 .. len |-> digit(i)])
  <2> HIDE DEF len, digit
  <2> QED BY <1>2 DEF IsText
<1> HIDE DEF len, digit
<1> QED BY <1>3, <1>4, ShortTexts

LEMMA PushIsText ==
  ASSUME NEW buf, IsText(buf), NEW more, IsText(more)
  PROVE  IsText(Push(buf, more))
<1> DEFINE n == Min({Len(more), NtoaSize - Len(buf)})
<1>1. n \in Int /\ n <= Len(more)
  <2>1. Len(more) \in Int /\ NtoaSize - Len(buf) \in Int
    BY TextFacts, PrintfAssumption
  <2> QED BY <2>1, MinIsLess, Zenon
<1>2. IsText(SubSeq(more, 1, n))
  <2> HIDE DEF n
  <2> QED BY <1>1, PartIsText
<1> QED BY <1>2, ConcatFacts DEF Push

LEMMA RoomIsText ==
  ASSUME NEW n \in Int, NEW c
  PROVE  IsText(Times(Max({n, 0}), c))
<1>1. Max({n, 0}) \in Nat
  BY MinMax
<1> QED BY <1>1, TimesIsText

LEMMA PadZerosIsText ==
  ASSUME NEW buf, IsText(buf), NEW n \in Int
  PROVE  IsText(PadZeros(buf, n))
<1>1. n - Len(buf) \in Int
  BY TextFacts
<1>2. IsText(Times(Max({n - Len(buf), 0}), "0"))
  BY <1>1, RoomIsText
<1> QED BY <1>2, PushIsText DEF PadZeros

LEMMA LeadingZerosIsText ==
  ASSUME NEW buf, IsText(buf), NEW prec \in Int, NEW width \in Int, NEW flags
  PROVE  IsText(LeadingZeros(buf, prec, width, flags))
<1>1. IsText(PadZeros(buf, prec))
  BY PadZerosIsText
<1>2. (IF "0" \in flags THEN width ELSE 0) \in Int
  OBVIOUS
<1>3. IsText(PadZeros(PadZeros(buf, prec), IF "0" \in flags THEN width ELSE 0))
  BY <1>1, <1>2, PadZerosIsText
<1> QED BY <1>3 DEF LeadingZeros

LEMMA HashIsText ==
  ASSUME NEW buf, IsText(buf), NEW base, NEW prec, NEW width, NEW flags
  PROVE  IsText(Hash(buf, base, prec, width, flags))
<1> DEFINE n    == Len(buf)
           drop == IF "." \notin flags /\ n > 0 /\ n \in {prec, width}
                   THEN IF n > 1 /\ base = 16 THEN 2 ELSE 1
                   ELSE 0
           mark == CASE base = 16 -> IF "X" \in flags THEN <<"X">> ELSE <<"x">>
                     [] base = 2  -> <<"b">>
                     [] OTHER     -> <<>>
<1>1. n \in Nat /\ drop \in {0, 1, 2}
  BY TextFacts
<1>2. n - drop \in Int /\ n - drop <= n
  <2> HIDE DEF n, drop
  <2> QED BY <1>1
<1>3. IsText(SubSeq(buf, 1, n - drop))
  <2> HIDE DEF drop
  <2> QED BY <1>2, PartIsText
<1>4. IsText(mark)
  BY ShortTexts
<1>5. IsText(Push(Push(SubSeq(buf, 1, n - drop), mark), <<"0">>))
  <2> HIDE DEF n, drop, mark
  <2>1. IsText(Push(SubSeq(buf, 1, n - drop), mark))
    BY <1>3, <1>4, PushIsText
  <2> QED BY <2>1, ShortTexts, PushIsText
<1>6. Hash(buf, base, prec, width, flags) =
        IF "#" \in flags THEN Push(Push(SubSeq(buf, 1, n - drop), mark), <<"0">>) ELSE buf
  BY DEF Hash
<1> HIDE DEF n, drop, mark
<1> QED BY <1>5, <1>6

LEMMA OptIsText ==
  ASSUME NEW cond, NEW s, IsText(s)
  PROVE  IsText(Opt(cond, s))
BY ShortTexts DEF Opt

LEMMA SignIsText ==
  ASSUME NEW negative, NEW flags
  PROVE  IsText(SignOf(negative, flags))
BY ShortTexts DEF SignOf, Opt

LEMMA OutRevIsText ==
  ASSUME NEW buf, IsText(buf), NEW width \in Int, NEW flags
  PROVE  IsText(OutRev(buf, width, flags))
<1> DEFINE room == Times(Max({width - Len(buf), 0}), " ")
<1>1. IsText(room)
  <2>1. width - Len(buf) \in Int
    BY TextFacts
  <2> QED BY <2>1, RoomIsText
<1>2. IsText(Reverse(buf))
  BY ReverseIsText
<1>3. /\ IsText(Opt("-" \notin flags /\ "0" \notin flags, room))
      /\ IsText(Opt("-" \in flags, room))
  <2> HIDE DEF room
  <2> QED BY <1>1, OptIsText
<1>4. IsText(Opt("-" \notin flags /\ "0" \notin flags, room) \o Reverse(buf))
  <2> HIDE DEF room
  <2> QED BY <1>2, <1>3, ConcatFacts
<1>5. IsText((Opt("-" \notin flags /\ "0" \notin flags, room) \o Reverse(buf))
               \o Opt("-" \in flags, room))
  <2> HIDE DEF room
  <2> QED BY <1>3, <1>4, ConcatFacts
<1> QED BY <1>5 DEF OutRev

LEMMA NtoaIsText ==
  ASSUME NEW value, NEW negative, NEW base, NEW prec \in Int, NEW width \in Int, NEW flags
  PROVE  IsText(Ntoa(value, negative, base, prec, width, flags))
<1> DEFINE fl  == IF value = 0 THEN flags \ {"#"} ELSE flags
           buf == NtoaDigits(value, base, fl)
           w   == SignedWidth(negative, width, fl)
           padded == LeadingZeros(buf, prec, w, fl)
           hashed == Hash(padded, base, prec, w, fl)
<1>1. w \in Int
  BY DEF SignedWidth
<1>2. IsText(buf)
  BY DigitsAreText
<1>3. IsText(padded)
  <2> HIDE DEF buf, w, fl
  <2> QED BY <1>1, <1>2, LeadingZerosIsText
<1>4. IsText(hashed)
  <2> HIDE DEF padded, w, fl
  <2> QED BY <1>3, HashIsText
<1>5. IsText(Push(hashed, SignOf(negative, fl)))
  <2> HIDE DEF hashed, fl
  <2> QED BY <1>4, SignIsText, PushIsText
<1>6. IsText(OutRev(Push(hashed, SignOf(negative, fl)), w, fl))
  <2> HIDE DEF hashed, w, fl
  <2> QED BY <1>1, <1>5, OutRevIsText
<1> QED BY <1>6 DEF Ntoa, NtoaFormat

LEMMA FieldIsText ==
  ASSUME NEW body, IsText(body), NEW d, Width(d) \in Int
  PROVE  IsText(Field(body, d))
<1> DEFINE room == Times(Max({Width(d) - Len(body), 0}), " ")
<1>1. IsText(room)
  <2>1. Width(d) - Len(body) \in Int
    BY TextFacts
  <2> QED BY <2>1, RoomIsText
<1>2. IsText(body \o room) /\ IsText(room \o body)
  <2> HIDE DEF room
  <2> QED BY <1>1, ConcatFacts
<1> QED BY <1>2 DEF Field

LEMMA StringPartIsText ==
  ASSUME NEW d, IsText(d.text), Precision(d) \in Int
  PROVE  IsText(StringPart(d))
<1> DEFINE n == Min({Len(d.text), Precision(d)})
<1>1. n \in Int /\ n <= Len(d.text)
  <2>1. Len(d.text) \in Int
    BY TextFacts
  <2> QED BY <2>1, MinIsLess, Zenon
<1>2. IsText(SubSeq(d.text, 1, n))
  <2> HIDE DEF n
  <2> QED BY <1>1, PartIsText
<1> QED BY <1>2 DEF StringPart


(* The bases there are.                                                    *)
Bases == {2, 8, 10, 16}

----------------------------------------------------------------------------
(* Induction and iteration.                                                *)
LEMMA Induction ==
  ASSUME NEW S, 0 \in S, \A n \in Nat : n \in S => n + 1 \in S
  PROVE  Nat \subseteq S
<1> DEFINE T == {n \in Nat : n \notin S}
<1> SUFFICES ASSUME T # {}
             PROVE  FALSE
  OBVIOUS
<1>1. PICK n \in T : \A m \in T : ~(m < n)
  BY LeastNatural
<1>2. n - 1 \in Nat /\ n - 1 < n
  BY <1>1
<1>3. n - 1 \in S
  BY <1>1, <1>2
<1> QED BY <1>1, <1>2, <1>3

(* The first n iterations of g on a.                                       *)
Run(a, g, n, r) ==
  /\ r \in [0 .. n -> Nat] /\ r[0] = a
  /\ \A k \in 0 .. n - 1 : r[k + 1] = g[r[k]]

LEMMA RunLonger ==
  ASSUME NEW a \in Nat, NEW g \in [Nat -> Nat], NEW n \in Nat, NEW r, Run(a, g, n, r)
  PROVE  \E s : Run(a, g, n + 1, s)
<1> DEFINE s == [k \in 0 .. n + 1 |-> IF k = n + 1 THEN g[r[n]] ELSE r[k]]
<1>1. r \in [0 .. n -> Nat]
  BY DEF Run
<1>2. \A k \in 0 .. n - 1 : r[k + 1] = g[r[k]]
  BY DEF Run
<1>3. \A k \in 0 .. n : s[k] = r[k]
  OBVIOUS
<1>4. \A k \in 0 .. n : r[k] \in Nat
  BY <1>1
<1>5. s[n + 1] = g[r[n]]
  OBVIOUS
<1>6. g[r[n]] \in Nat
  BY <1>4
<1>7. s \in [0 .. n + 1 -> Nat]
  BY <1>4, <1>6
<1>8. ASSUME NEW k \in 0 .. (n + 1) - 1
      PROVE  s[k + 1] = g[s[k]]
  <2>1. CASE k = n
    <3> HIDE DEF s
    <3> QED BY <1>3, <1>5, <2>1
  <2>2. CASE k # n
    <3>1. k \in 0 .. n /\ k + 1 \in 0 .. n /\ k \in 0 .. n - 1
      BY <1>8, <2>2
    <3> HIDE DEF s
    <3> QED BY <1>2, <1>3, <3>1
  <2> QED BY <2>1, <2>2
<1>9. s[0] = a
  <2>1. 0 \in 0 .. n /\ r[0] = a
    BY DEF Run
  <2> HIDE DEF s
  <2> QED BY <1>3, <2>1
<1> HIDE DEF s
<1> QED BY <1>7, <1>8, <1>9 DEF Run

(* A function can be iterated on any number.                               *)
Iterates(f, a, g) == f[0] = a /\ \A n \in Nat : f[n + 1] = g[f[n]]

LEMMA Iteration ==
  ASSUME NEW a \in Nat, NEW g \in [Nat -> Nat]
  PROVE  \E f \in [Nat -> Nat] : Iterates(f, a, g)
<1> DEFINE Long   == {n \in Nat : \E r : Run(a, g, n, r)}
           run(n) == CHOOSE r : Run(a, g, n, r)
<1>1. 0 \in Long
  <2>1. Run(a, g, 0, [k \in 0 .. 0 |-> a])
    BY DEF Run
  <2> QED BY <2>1
<1>2. \A n \in Nat : n \in Long => n + 1 \in Long
  BY RunLonger
<1>3. Nat \subseteq Long
  <2> HIDE DEF Long
  <2> QED BY <1>1, <1>2, Induction
<1>4. \A n \in Nat : Run(a, g, n, run(n))
  BY <1>3
<1> HIDE DEF run
<1>5. ASSUME NEW n \in Nat
      PROVE  /\ run(n) \in [0 .. n -> Nat]
             /\ run(n)[0] = a
             /\ \A k \in 0 .. n - 1 : run(n)[k + 1] = g[run(n)[k]]
  BY <1>4 DEF Run
<1>6. ASSUME NEW n \in Nat
      PROVE  run(n + 1)[n] = run(n)[n]
  <2> DEFINE S == {k \in Nat : k <= n => run(n + 1)[k] = run(n)[k]}
  <2>1. 0 \in S
    <3>1. run(n + 1)[0] = a /\ run(n)[0] = a
      BY <1>5
    <3> QED BY <3>1
  <2>2. ASSUME NEW k \in Nat, k \in S
        PROVE  k + 1 \in S
    <3> SUFFICES ASSUME k + 1 <= n
                 PROVE  run(n + 1)[k + 1] = run(n)[k + 1]
      OBVIOUS
    <3>1. run(n + 1)[k] = run(n)[k]
      BY <2>2
    <3>2. k \in 0 .. (n + 1) - 1 /\ n + 1 \in Nat /\ k \in 0 .. n - 1
      OBVIOUS
    <3>3. run(n + 1)[k + 1] = g[run(n + 1)[k]] /\ run(n)[k + 1] = g[run(n)[k]]
      BY <1>5, <3>2, Zenon
    <3> QED BY <3>1, <3>3
  <2>3. n \in S
    <3> HIDE DEF S
    <3> QED BY <2>1, <2>2, Induction
  <2> QED BY <2>3
<1> DEFINE f == [n \in Nat |-> run(n)[n]]
<1>7. ASSUME NEW n \in Nat
      PROVE  f[n] = run(n)[n] /\ f[n] \in Nat
  <2>1. n \in 0 .. n
    OBVIOUS
  <2> QED BY <1>5, <2>1
<1>8. f \in [Nat -> Nat] /\ f[0] = a
  BY <1>5, <1>7
<1>9. ASSUME NEW n \in Nat
      PROVE  f[n + 1] = g[f[n]]
  <2>1. n + 1 \in Nat /\ n \in 0 .. (n + 1) - 1
    OBVIOUS
  <2>2. run(n + 1)[n + 1] = g[run(n + 1)[n]]
    BY <1>5, <2>1, Zenon
  <2>3. f[n + 1] = run(n + 1)[n + 1] /\ f[n] = run(n)[n]
    BY <2>1
  <2>4. run(n + 1)[n] = run(n)[n]
    BY <1>6
  <2> HIDE DEF f
  <2> QED BY <2>2, <2>3, <2>4
<1> HIDE DEF f
<1>10. Iterates(f, a, g)
  BY <1>8, <1>9 DEF Iterates
<1> QED BY <1>8, <1>10

LEMMA PowersFacts ==
  ASSUME NEW base \in Bases
  PROVE  /\ Powers(base) \in [Nat -> Nat \ {0}] /\ Powers(base)[0] = 1
         /\ \A n \in Nat : Powers(base)[n + 1] = base * Powers(base)[n]
<1> DEFINE P(p) == p = [n \in Nat |-> IF n = 0 THEN 1 ELSE base * p[n - 1]]
<1>1. PICK p \in [Nat -> Nat] : p[0] = 1 /\ \A n \in Nat : p[n + 1] = base * p[n]
  <2> USE DEF Bases
  <2> DEFINE g == [v \in Nat |-> base * v]
  <2>1. g \in [Nat -> Nat]
    OBVIOUS
  <2>2. PICK p \in [Nat -> Nat] : p[0] = 1 /\ \A n \in Nat : p[n + 1] = g[p[n]]
    <3> HIDE DEF g
    <3>1. PICK one \in Nat : one = 1
      <4>1. 1 \in Nat
        OBVIOUS
      <4> QED BY <4>1
    <3>2. PICK p \in [Nat -> Nat] : Iterates(p, one, g)
      BY <2>1, Iteration
    <3> QED BY <3>1, <3>2 DEF Iterates
  <2> QED BY <2>2
<1>2. \A n \in Nat : n # 0 => n - 1 \in Nat /\ (n - 1) + 1 = n
  OBVIOUS
<1>3. ASSUME NEW n \in Nat
      PROVE  p[n] = IF n = 0 THEN 1 ELSE base * p[n - 1]
  BY <1>1, <1>2
<1>4. P(p)
  BY <1>1, <1>3
<1>5. P(Powers(base))
  <2> DEFINE c == CHOOSE q : P(q)
  <2>1. P(c)
    <3> HIDE DEF P
    <3> QED BY <1>4
  <2>2. Powers(base) = c
    BY DEF Powers
  <2> HIDE DEF c
  <2> QED BY <2>1, <2>2
<1>6. PICK w : w = Powers(base)
  OBVIOUS
<1>7. w = [n \in Nat |-> IF n = 0 THEN 1 ELSE base * w[n - 1]]
  BY <1>5, <1>6
<1>8. w[0] = 1 /\ \A n \in Nat : w[n + 1] = base * w[n]
  BY <1>7
<1>9. \A n \in Nat : w[n] \in Nat \ {0}
  <2> DEFINE S == {n \in Nat : w[n] \in Nat \ {0}}
  <2>1. 0 \in S
    BY <1>8
  <2>2. \A n \in Nat : n \in S => n + 1 \in S
    <3>1. \A x \in Nat \ {0} : base * x \in Nat \ {0}
      BY DEF Bases
    <3> QED BY <1>8, <3>1
  <2>3. Nat \subseteq S
    <3> HIDE DEF S
    <3> QED BY <2>1, <2>2, Induction
  <2> QED BY <2>3
<1>10. w \in [Nat -> Nat \ {0}]
  BY <1>7, <1>9
<1> QED BY <1>6, <1>8, <1>10

LEMMA DivisionFacts ==
  ASSUME NEW base \in Bases, NEW v \in Nat
  PROVE  /\ v \div base \in Nat /\ v % base \in 0 .. base - 1
         /\ v = (v \div base) * base + (v % base)
         /\ \A p \in Nat : v < base * p <=> v \div base < p
BY DEF Bases

(* What is left after each iteration of the loop of _ntoa_long.            *)
LEMMA QuotientsFacts ==
  ASSUME NEW base \in Bases, NEW v \in Nat
  PROVE  /\ Quotients(v, base) \in [Nat -> Nat]
         /\ Quotients(v, base)[0] = v
         /\ \A n \in Nat : Quotients(v, base)[n + 1] = Quotients(v, base)[n] \div base
<1> DEFINE Q(q) == q = [k \in Nat |-> IF k = 0 THEN v ELSE q[k - 1] \div base]
<1>1. PICK q \in [Nat -> Nat] : q[0] = v /\ \A n \in Nat : q[n + 1] = q[n] \div base
  <2> DEFINE g == [x \in Nat |-> x \div base]
  <2>1. g \in [Nat -> Nat]
    BY DivisionFacts
  <2>2. PICK q \in [Nat -> Nat] : q[0] = v /\ \A n \in Nat : q[n + 1] = g[q[n]]
    <3> HIDE DEF g
    <3>1. PICK q \in [Nat -> Nat] : Iterates(q, v, g)
      BY <2>1, Iteration
    <3> QED BY <3>1 DEF Iterates
  <2> QED BY <2>2
<1>2. \A n \in Nat : n # 0 => n - 1 \in Nat /\ (n - 1) + 1 = n
  OBVIOUS
<1>3. ASSUME NEW n \in Nat
      PROVE  q[n] = IF n = 0 THEN v ELSE q[n - 1] \div base
  BY <1>1, <1>2
<1>4. Q(q)
  BY <1>1, <1>3
<1>5. Q(Quotients(v, base))
  <2> DEFINE c == CHOOSE w : Q(w)
  <2>1. Q(c)
    <3> HIDE DEF Q
    <3> QED BY <1>4
  <2>2. Quotients(v, base) = c
    BY DEF Quotients
  <2> HIDE DEF c
  <2> QED BY <2>1, <2>2
<1>6. PICK w : w = Quotients(v, base)
  OBVIOUS
<1>7. w = [k \in Nat |-> IF k = 0 THEN v ELSE w[k - 1] \div base]
  BY <1>5, <1>6
<1>8. w[0] = v /\ \A n \in Nat : w[n + 1] = w[n] \div base
  BY <1>7
<1>9. \A n \in Nat : w[n] \in Nat
  <2> DEFINE S == {n \in Nat : w[n] \in Nat}
  <2>1. 0 \in S
    BY <1>8
  <2>2. ASSUME NEW n \in Nat, n \in S
        PROVE  n + 1 \in S
    <3>1. w[n] \div base \in Nat
      BY <2>2, DivisionFacts
    <3> QED BY <1>8, <3>1
  <2>3. Nat \subseteq S
    <3> HIDE DEF S
    <3> QED BY <2>1, <2>2, Induction
  <2> QED BY <2>3
<1>10. w \in [Nat -> Nat]
  BY <1>7, <1>9
<1> QED BY <1>6, <1>8, <1>10

Divides(q, v, base) == q[0] = v /\ \A k \in Nat : q[k + 1] = q[k] \div base

LEMMA QuotientsDivide ==
  ASSUME NEW base \in Bases, NEW v \in Nat
  PROVE  Divides(Quotients(v, base), v, base)
BY QuotientsFacts DEF Divides

LEMMA QuotientsShift ==
  ASSUME NEW base \in Bases, NEW v \in Nat, NEW n \in Nat
  PROVE  Quotients(v, base)[n + 1] = Quotients(v \div base, base)[n]
<1>1. v \div base \in Nat
  BY DivisionFacts
<1>2. PICK q : q = Quotients(v, base)
  OBVIOUS
<1>3. PICK w : w = Quotients(v \div base, base)
  OBVIOUS
<1>4. q[0] = v /\ \A k \in Nat : q[k + 1] = q[k] \div base
  BY <1>2, QuotientsFacts
<1>5. w[0] = v \div base /\ \A k \in Nat : w[k + 1] = w[k] \div base
  <2>1. PICK x \in Nat : x = v \div base
    BY <1>1
  <2>2. w = Quotients(x, base)
    BY <1>3, <2>1
  <2>3. Divides(w, x, base)
    BY <2>2, QuotientsDivide
  <2> QED BY <2>1, <2>3 DEF Divides
<1> DEFINE S == {k \in Nat : q[k + 1] = w[k]}
<1>6. 0 \in S
  <2>1. q[0 + 1] = q[0] \div base
    BY <1>4
  <2> QED BY <1>4, <1>5, <2>1
<1>7. ASSUME NEW k \in Nat, k \in S
      PROVE  k + 1 \in S
  <2>1. q[(k + 1) + 1] = q[k + 1] \div base /\ w[k + 1] = w[k] \div base
    BY <1>4, <1>5
  <2> QED BY <1>7, <2>1
<1>8. n \in S
  <2> HIDE DEF S
  <2> QED BY <1>6, <1>7, Induction
<1> QED BY <1>2, <1>3, <1>8

(* The loop ends after n iterations when value is less than base to the n. *)
LEMMA QuotientsEnd ==
  ASSUME NEW base \in Bases, NEW v \in Nat, NEW n \in Nat
  PROVE  Quotients(v, base)[n] = 0 <=> v < Powers(base)[n]
<1>1. PICK p : p = Powers(base)
  OBVIOUS
<1>2. p \in [Nat -> Nat \ {0}]
  BY <1>1, PowersFacts
<1>3. p[0] = 1 /\ \A k \in Nat : p[k + 1] = base * p[k]
  BY <1>1, PowersFacts
<1> DEFINE S == {k \in Nat : \A x \in Nat : Quotients(x, base)[k] = 0 <=> x < p[k]}
<1>4. 0 \in S
  <2>1. \A x \in Nat : Quotients(x, base)[0] = x
    BY QuotientsFacts
  <2>2. \A x \in Nat : x = 0 <=> x < 1
    OBVIOUS
  <2> QED BY <1>3, <2>1, <2>2
<1>5. ASSUME NEW k \in Nat, k \in S
      PROVE  k + 1 \in S
  <2> SUFFICES ASSUME NEW x \in Nat
               PROVE  Quotients(x, base)[k + 1] = 0 <=> x < p[k + 1]
    OBVIOUS
  <2>1. x \div base \in Nat /\ p[k] \in Nat
    BY <1>2, DivisionFacts
  <2>2. Quotients(x \div base, base)[k] = 0 <=> x \div base < p[k]
    BY <1>5, <2>1
  <2>3. Quotients(x, base)[k + 1] = Quotients(x \div base, base)[k]
    BY QuotientsShift
  <2>4. x < base * p[k] <=> x \div base < p[k]
    BY <2>1, DivisionFacts
  <2> QED BY <1>3, <2>2, <2>3, <2>4
<1>6. n \in S
  <2> HIDE DEF S
  <2> QED BY <1>4, <1>5, Induction
<1> QED BY <1>1, <1>6

LEMMA QuotientsStayZero ==
  ASSUME NEW base \in Bases, NEW v \in Nat, NEW n \in Nat, NEW m \in Nat, n <= m,
         Quotients(v, base)[n] = 0
  PROVE  Quotients(v, base)[m] = 0
<1>1. PICK q : q = Quotients(v, base)
  OBVIOUS
<1>2. \A k \in Nat : q[k + 1] = q[k] \div base
  BY <1>1, QuotientsFacts
<1>3. 0 \div base = 0
  BY DEF Bases
<1> DEFINE S == {k \in Nat : k >= n => q[k] = 0}
<1>4. 0 \in S
  BY <1>1
<1>5. ASSUME NEW k \in Nat, k \in S
      PROVE  k + 1 \in S
  <2>1. CASE k >= n
    BY <1>2, <1>3, <1>5, <2>1
  <2>2. CASE k < n
    BY <1>1, <2>2
  <2> QED BY <2>1, <2>2
<1>6. m \in S
  <2> HIDE DEF S
  <2> QED BY <1>4, <1>5, Induction
<1> QED BY <1>1, <1>6

----------------------------------------------------------------------------
(* Numerals: the digits of a number from the last to the first, as the     *)
(* loop of _ntoa_long leaves them, with zeros behind those that are needed. *)
Alphabet(flags) == IF "X" \in flags THEN Upper ELSE Lower

Symbols(flags) == {Alphabet(flags)[k + 1] : k \in 0 .. 15}

Numeral(v, base, flags, n) ==
  [i \in 1 .. n |-> Alphabet(flags)[(Quotients(v, base)[i - 1] % base) + 1]]

LEMMA DigitOfFacts ==
  ASSUME NEW flags, NEW k \in 0 .. 15
  PROVE  /\ DigitOf(Alphabet(flags)[k + 1]) = k
         /\ Alphabet(flags)[k + 1] = "0" <=> k = 0
<1> DEFINE c == Alphabet(flags)[k + 1]
<1>1. /\ k \in {0, 1, 2, 3, 4, 5, 6, 7, 8, 9, 10, 11, 12, 13, 14, 15}
  OBVIOUS
<1>2. c \in {Lower[k + 1], Upper[k + 1]}
  BY DEF Alphabet
<1>3. \A j \in 0 .. 15 : Lower[j + 1] \in {Lower[k + 1], Upper[k + 1]} => j = k
  BY <1>1 DEF Lower, Upper
<1>4. \A j \in 0 .. 15 : Upper[j + 1] \in {Lower[k + 1], Upper[k + 1]} => j = k
  BY <1>1 DEF Lower, Upper
<1>5. \A j \in 0 .. 15 : c \in {Lower[j + 1], Upper[j + 1]} <=> j = k
  BY <1>2, <1>3, <1>4
<1>6. c = "0" <=> k = 0
  BY <1>1 DEF Alphabet, Lower, Upper
<1>7. DigitOf(c) = CHOOSE j \in 0 .. 15 : c \in {Lower[j + 1], Upper[j + 1]}
  BY DEF DigitOf
<1> HIDE DEF c
<1>8. DigitOf(c) = k
  BY <1>5, <1>7
<1> QED BY <1>6, <1>8 DEF c

LEMMA NumeralFacts ==
  ASSUME NEW base \in Bases, NEW v \in Nat, NEW flags, NEW n \in Nat
  PROVE  /\ Numeral(v, base, flags, n) \in Seq(Symbols(flags))
         /\ Len(Numeral(v, base, flags, n)) = n
         /\ \A i \in 1 .. n :
              /\ Quotients(v, base)[i - 1] % base \in 0 .. 15
              /\ Quotients(v, base)[i - 1] % base < base
              /\ Numeral(v, base, flags, n)[i]
                   = Alphabet(flags)[(Quotients(v, base)[i - 1] % base) + 1]
<1>1. PICK q : q = Quotients(v, base)
  OBVIOUS
<1>2. q \in [Nat -> Nat]
  BY <1>1, QuotientsFacts
<1>3. ASSUME NEW i \in 1 .. n
      PROVE  /\ q[i - 1] % base \in 0 .. 15 /\ q[i - 1] % base < base
             /\ Alphabet(flags)[(q[i - 1] % base) + 1] \in Symbols(flags)
  <2>1. q[i - 1] \in Nat
    BY <1>2
  <2>2. q[i - 1] % base \in 0 .. base - 1
    BY <2>1, DivisionFacts
  <2>3. q[i - 1] % base \in 0 .. 15 /\ q[i - 1] % base < base
    BY <2>2 DEF Bases
  <2> QED BY <2>3 DEF Symbols
<1>4. [i \in 1 .. n |-> Alphabet(flags)[(q[i - 1] % base) + 1]] \in Seq(Symbols(flags))
  BY <1>3
<1>5. Numeral(v, base, flags, n) = [i \in 1 .. n |-> Alphabet(flags)[(q[i - 1] % base) + 1]]
  BY <1>1 DEF Numeral
<1>6. Len(Numeral(v, base, flags, n)) = n
  BY <1>5
<1> QED BY <1>1, <1>3, <1>4, <1>5, <1>6

(* The first digit of a numeral without superfluous zeros is not 0, and    *)
(* those behind are.                                                       *)
LEMMA NumeralZeros ==
  ASSUME NEW base \in Bases, NEW v \in Nat, NEW flags, NEW n \in Nat, NEW i \in 1 .. n
  PROVE  /\ Quotients(v, base)[i - 1] = 0 => Numeral(v, base, flags, n)[i] = "0"
         /\ Quotients(v, base)[i - 1] # 0 /\ Quotients(v, base)[i] = 0
              => Numeral(v, base, flags, n)[i] # "0"
<1>1. PICK q : q = Quotients(v, base)
  OBVIOUS
<1>2. q \in [Nat -> Nat]
  BY <1>1, QuotientsFacts
<1>3. i - 1 \in Nat /\ (i - 1) + 1 = i
  OBVIOUS
<1>4. q[i] = q[i - 1] \div base /\ q[i - 1] \in Nat
  <2>1. \A m \in Nat : q[m + 1] = q[m] \div base
    BY <1>1, QuotientsFacts
  <2> QED BY <1>2, <1>3, <2>1
<1>5. q[i - 1] = (q[i - 1] \div base) * base + (q[i - 1] % base)
  BY <1>4, DivisionFacts
<1>6. q[i - 1] % base \in 0 .. 15
  BY <1>1, NumeralFacts
<1>7. Numeral(v, base, flags, n)[i] = Alphabet(flags)[(q[i - 1] % base) + 1]
  BY <1>1, NumeralFacts
<1>8. Numeral(v, base, flags, n)[i] = "0" <=> q[i - 1] % base = 0
  BY <1>6, <1>7, DigitOfFacts
<1>9. CASE q[i - 1] = 0
  <2>1. 0 % base = 0
    BY DEF Bases
  <2> QED BY <1>1, <1>8, <1>9, <2>1
<1>10. CASE q[i - 1] # 0 /\ q[i] = 0
  <2>1. q[i - 1] = 0 * base + (q[i - 1] % base)
    BY <1>4, <1>5, <1>10
  <2>2. 0 * base = 0
    BY DEF Bases
  <2>3. q[i - 1] % base # 0
    BY <1>6, <1>10, <2>1, <2>2
  <2> QED BY <1>1, <1>8, <1>10, <2>3
<1> QED BY <1>1, <1>9, <1>10

(* The number a sequence stands for is the last value of a sum.            *)
LEMMA NumberOfIs ==
  ASSUME NEW base \in Bases, NEW s, Len(s) \in Nat, NEW f,
         f = [n \in 0 .. Len(s) |-> IF n = 0 THEN 0 ELSE f[n - 1] * base + DigitOf(s[n])]
  PROVE  NumberOf(s, base) = f[Len(s)]
<1> DEFINE V(val) == val = [n \in 0 .. Len(s) |->
                             IF n = 0 THEN 0 ELSE val[n - 1] * base + DigitOf(s[n])]
           c == CHOOSE val : V(val)
<1>1. V(c)
  <2>1. V(f)
    OBVIOUS
  <2> HIDE DEF V
  <2> QED BY <2>1
<1>2. NumberOf(s, base) = c[Len(s)]
  BY DEF NumberOf
<1> HIDE DEF c
<1> DEFINE S == {n \in Nat : n <= Len(s) => c[n] = f[n]}
<1>3. 0 \in S
  BY <1>1
<1>4. ASSUME NEW n \in Nat, n \in S
      PROVE  n + 1 \in S
  <2> SUFFICES ASSUME n + 1 <= Len(s)
               PROVE  c[n + 1] = f[n + 1]
    OBVIOUS
  <2>1. c[n] = f[n] /\ n + 1 \in 0 .. Len(s) /\ n + 1 # 0 /\ (n + 1) - 1 = n
    BY <1>4
  <2>2. c[n + 1] = c[n] * base + DigitOf(s[n + 1])
    BY <1>1, <2>1
  <2>3. f[n + 1] = f[n] * base + DigitOf(s[n + 1])
    BY <2>1
  <2> QED BY <2>1, <2>2, <2>3
<1>5. Len(s) \in S
  <2> HIDE DEF S
  <2> QED BY <1>3, <1>4, Induction
<1> QED BY <1>2, <1>5

(* A complete numeral, read backwards, stands for its number.              *)
THEOREM NumeralIsNumber ==
  ASSUME NEW base \in Bases, NEW v \in Nat, NEW flags, NEW n \in Nat,
         Quotients(v, base)[n] = 0
  PROVE  NumberOf(Reverse(Numeral(v, base, flags, n)), base) = v
<1>1. PICK q : q = Quotients(v, base)
  OBVIOUS
<1>2. q \in [Nat -> Nat]
  BY <1>1, QuotientsFacts
<1>3. PICK s : s = Reverse(Numeral(v, base, flags, n))
  OBVIOUS
<1>4. PICK b : b = Numeral(v, base, flags, n)
  OBVIOUS
<1>5. b \in Seq(Symbols(flags)) /\ Len(b) = n
  BY <1>4, NumeralFacts
<1>6. s = [j \in 1 .. n |-> b[(n - j) + 1]]
  BY <1>3, <1>4, <1>5 DEF Reverse
<1>7. Len(s) = n
  BY <1>6
<1>8. ASSUME NEW j \in 1 .. n
      PROVE  q[n - (j - 1)] * base + DigitOf(s[j]) = q[n - j]
  <2>1. n - j \in Nat /\ (n - j) + 1 = n - (j - 1) /\ (n - j) + 1 \in 1 .. n
        /\ ((n - j) + 1) - 1 = n - j
    BY <1>8
  <2>2. q[n - j] \in Nat /\ q[(n - j) + 1] = q[n - j] \div base
    BY <1>1, <1>2, <2>1, QuotientsFacts
  <2>3. q[n - j] % base \in 0 .. 15
        /\ b[(n - j) + 1] = Alphabet(flags)[(q[n - j] % base) + 1]
    <3>1. PICK i \in 1 .. n : i = (n - j) + 1
      BY <2>1
    <3>2. q[i - 1] % base \in 0 .. 15 /\ b[i] = Alphabet(flags)[(q[i - 1] % base) + 1]
      <4>1. /\ Quotients(v, base)[i - 1] % base \in 0 .. 15
            /\ Quotients(v, base)[i - 1] % base < base
            /\ Numeral(v, base, flags, n)[i]
                 = Alphabet(flags)[(Quotients(v, base)[i - 1] % base) + 1]
        BY NumeralFacts
      <4> QED BY <1>1, <1>4, <4>1, Zenon
    <3>3. i - 1 = n - j
      BY <2>1, <3>1
    <3> QED BY <3>1, <3>2, <3>3
  <2>4. DigitOf(s[j]) = q[n - j] % base
    BY <1>6, <2>3, DigitOfFacts
  <2>5. q[n - j] = (q[n - j] \div base) * base + (q[n - j] % base)
    BY <2>2, DivisionFacts
  <2> QED BY <2>1, <2>2, <2>4, <2>5
<1> DEFINE f == [j \in 0 .. n |-> q[n - j]]
<1>9. f = [j \in 0 .. Len(s) |-> IF j = 0 THEN 0 ELSE f[j - 1] * base + DigitOf(s[j])]
  <2>1. ASSUME NEW j \in 0 .. n
        PROVE  q[n - j] = IF j = 0 THEN 0 ELSE f[j - 1] * base + DigitOf(s[j])
    <3>1. CASE j = 0
      <4>1. n - j = n /\ q[n] = 0
        BY <1>1, <3>1
      <4> QED BY <3>1, <4>1
    <3>2. CASE j # 0
      <4>1. j \in 1 .. n /\ j - 1 \in 0 .. n
        BY <2>1, <3>2
      <4>2. f[j - 1] = q[n - (j - 1)]
        BY <4>1
      <4> HIDE DEF f
      <4> QED BY <1>8, <3>2, <4>1, <4>2
    <3> QED BY <3>1, <3>2
  <2> QED BY <1>7, <2>1
<1>10. NumberOf(s, base) = f[n]
  <2> HIDE DEF f
  <2> QED BY <1>7, <1>9, NumberOfIs
<1>11. f[n] = v
  <2>1. q[0] = v
    BY <1>1, QuotientsFacts
  <2>2. n \in 0 .. n /\ n - n = 0
    OBVIOUS
  <2> QED BY <2>1, <2>2
<1> QED BY <1>3, <1>10, <1>11

----------------------------------------------------------------------------
(* The number an argument is.                                              *)
LEMMA ModuloFacts ==
  ASSUME NEW m \in Nat \ {0}, NEW x \in Int
  PROVE  /\ x % m \in 0 .. m - 1
         /\ ((x % m) - x) % m = 0 /\ ((x % m) - m - x) % m = 0
<1>1. x % m \in 0 .. m - 1
  OBVIOUS
<1>2. x \div m \in Int /\ x = m * (x \div m) + (x % m)
  OBVIOUS
<1>3. \A k \in Int : (m * k) % m = 0
  OBVIOUS
<1>4. PICK k \in Int : k = x \div m
  BY <1>2
<1>5. (x % m) - x = m * (-k)
  BY <1>1, <1>2, <1>4
<1>6. (x % m) - m - x = m * (-k - 1)
  BY <1>1, <1>2, <1>4
<1>7. -k \in Int /\ -k - 1 \in Int
  BY <1>4
<1> QED BY <1>1, <1>3, <1>5, <1>6, <1>7

LEMMA CongruentAreEqual ==
  ASSUME NEW m \in Nat \ {0}, NEW v \in Int, NEW w \in Int, NEW x \in Int,
         (v - x) % m = 0, (w - x) % m = 0, v - w < m, w - v < m
  PROVE  v = w
<1>1. \A y \in Int : y % m = 0 => y \div m \in Int /\ y = m * (y \div m)
  OBVIOUS
<1>2. PICK a \in Int : v - x = m * a
  BY <1>1
<1>3. PICK b \in Int : w - x = m * b
  BY <1>1
<1>4. v - w = m * (a - b) /\ w - v = m * (b - a)
  BY <1>2, <1>3
<1>5. PICK c \in Int : c = a - b
  OBVIOUS
<1>6. v - w = m * c
  BY <1>4, <1>5
<1>7. m * c < m /\ -m < m * c
  BY <1>6
<1>8. c = 0
  BY <1>7
<1> QED BY <1>6, <1>8

LEMMA PowersGrow ==
  ASSUME NEW a \in Nat, NEW b \in Nat, a <= b, NEW base \in Bases
  PROVE  Powers(2)[a] <= Powers(2)[b] /\ Powers(2)[a] <= Powers(base)[a]
<1>1. PICK p : p = Powers(2)
  OBVIOUS
<1>2. PICK r : r = Powers(base)
  OBVIOUS
<1>3. p \in [Nat -> Nat \ {0}] /\ r \in [Nat -> Nat \ {0}]
  BY <1>1, <1>2, PowersFacts DEF Bases
<1>4. p[0] = 1 /\ \A n \in Nat : p[n + 1] = 2 * p[n]
  <2>1. 2 \in Bases
    BY DEF Bases
  <2> QED BY <1>1, <2>1, PowersFacts
<1>5. r[0] = 1 /\ \A n \in Nat : r[n + 1] = base * r[n]
  BY <1>2, PowersFacts
<1> DEFINE S == {n \in Nat : a <= n => p[a] <= p[n]}
           T == {n \in Nat : p[n] <= r[n]}
<1>6. 0 \in S /\ 0 \in T
  BY <1>3, <1>4, <1>5
<1>7. ASSUME NEW n \in Nat, n \in S
      PROVE  n + 1 \in S
  <2>1. p[n] \in Nat /\ p[a] \in Nat /\ p[n + 1] = 2 * p[n]
    BY <1>3, <1>4
  <2>2. CASE a <= n
    BY <1>7, <2>1, <2>2
  <2>3. CASE a = n + 1
    BY <2>1, <2>3
  <2>4. CASE a > n + 1
    BY <2>4
  <2> QED BY <2>2, <2>3, <2>4
<1>8. ASSUME NEW n \in Nat, n \in T
      PROVE  n + 1 \in T
  <2>1. p[n] \in Nat /\ r[n] \in Nat
    BY <1>3
  <2>2. p[n + 1] = 2 * p[n] /\ r[n + 1] = base * r[n]
    BY <1>4, <1>5
  <2>3. 2 * p[n] <= base * r[n]
    BY <1>8, <2>1 DEF Bases
  <2> QED BY <2>2, <2>3
<1>9. b \in S /\ a \in T
  <2> HIDE DEF S, T
  <2> QED BY <1>6, <1>7, <1>8, Induction
<1> QED BY <1>1, <1>2, <1>9

LEMMA BitsFacts ==
  ASSUME NEW d \in Directives
  PROVE  /\ Bits(d) \in Nat \ {0} /\ Bits(d) <= LongBits /\ LongBits \in Nat
         /\ IntBits \in Nat /\ Bits(d) <= Max({Bits(d), IntBits})
         /\ Max({Bits(d), IntBits}) \in Nat
<1>1. Bits(d) \in {CharBits, ShortBits, IntBits, LongBits}
  BY DEF Bits
<1>2. Bits(d) \in Nat \ {0} /\ Bits(d) <= LongBits /\ LongBits \in Nat /\ IntBits \in Nat
  BY <1>1, PrintfAssumption
<1>3. Max({Bits(d), IntBits}) = IF Bits(d) >= IntBits THEN Bits(d) ELSE IntBits
  <2>1. Bits(d) \in Int /\ IntBits \in Int
    BY <1>2
  <2> QED BY <2>1, MinMax, Zenon
<1> QED BY <1>2, <1>3

LEMMA WidthFacts ==
  ASSUME NEW b \in Nat \ {0}
  PROVE  /\ Powers(2)[b] \in Nat \ {0} /\ Powers(2)[b - 1] \in Nat \ {0}
         /\ Powers(2)[b] = 2 * Powers(2)[b - 1]
<1>1. PICK p : p = Powers(2)
  OBVIOUS
<1>2. 2 \in Bases /\ b - 1 \in Nat /\ (b - 1) + 1 = b
  BY DEF Bases
<1>3. p \in [Nat -> Nat \ {0}]
  BY <1>1, <1>2, PowersFacts
<1>4. \A n \in Nat : p[n + 1] = 2 * p[n]
  BY <1>1, <1>2, PowersFacts
<1> QED BY <1>1, <1>2, <1>3, <1>4

(* The cast of an argument is the value C gives it.                        *)
LEMMA ArgumentIsValue ==
  ASSUME NEW d \in Directives, d.spec \in SignedSpecs => d.len # "hh"
  PROVE  /\ Argument(d) = Value(d) /\ Value(d) \in Int
         /\ d.spec \in SignedSpecs =>
              Value(d) \in -Powers(2)[Bits(d) - 1] .. Powers(2)[Bits(d) - 1] - 1
         /\ d.spec \notin SignedSpecs => Value(d) \in 0 .. Powers(2)[Bits(d)] - 1
<1>1. PICK m \in Nat \ {0} : m = Powers(2)[Bits(d)]
  BY BitsFacts, WidthFacts
<1>2. PICK h \in Nat \ {0} : h = Powers(2)[Bits(d) - 1]
  BY BitsFacts, WidthFacts
<1>3. m = 2 * h
  BY <1>1, <1>2, BitsFacts, WidthFacts
<1>4. d.arg \in Int
  BY DEF Directives
<1> DEFINE R == IF d.spec \in SignedSpecs THEN -h .. h - 1 ELSE 0 .. m - 1
<1>5. Value(d) = CHOOSE v \in R : (v - d.arg) % m = 0
  BY <1>1, <1>2 DEF Value
<1>6. Argument(d) \in R /\ (Argument(d) - d.arg) % m = 0
  <2>1. d.arg % m \in 0 .. m - 1 /\ ((d.arg % m) - d.arg) % m = 0
        /\ ((d.arg % m) - m - d.arg) % m = 0
    BY <1>4, ModuloFacts
  <2>2. Argument(d) = IF d.spec \in SignedSpecs
                      THEN IF d.arg % m < h THEN d.arg % m ELSE (d.arg % m) - m
                      ELSE d.arg % m
    BY <1>1, <1>2 DEF Argument, AsSigned, Modulo
  <2> QED BY <1>3, <2>1, <2>2
<1>7. \A v, w \in R : v \in Int /\ v - w < m
  BY <1>3
<1>8. \A v \in R : (v - d.arg) % m = 0 => v = Argument(d)
  BY <1>4, <1>6, <1>7, CongruentAreEqual
<1>9. Value(d) = Argument(d)
  <2> HIDE DEF R
  <2> QED BY <1>5, <1>6, <1>8
<1> QED BY <1>1, <1>2, <1>6, <1>7, <1>9

LEMMA MagnitudeIsSize ==
  ASSUME NEW d \in Directives, d.spec \in SignedSpecs => d.len # "hh"
  PROVE  /\ Magnitude(d) = Size(d) /\ Size(d) \in Nat
         /\ Size(d) < Powers(2)[LongBits]
<1>1. PICK n \in Nat : n = Max({Bits(d), IntBits})
  BY BitsFacts
<1>2. PICK p : p = Powers(2)
  OBVIOUS
<1>3. PICK b \in Nat \ {0} : b = Bits(d)
  BY BitsFacts
<1>4. p \in [Nat -> Nat \ {0}]
  BY <1>2, PowersFacts DEF Bases
<1>5. /\ p[b] \in Nat /\ p[n] \in Nat \ {0} /\ p[LongBits] \in Nat
      /\ p[b] <= p[n] /\ p[b] <= p[LongBits] /\ p[b] = 2 * p[b - 1] /\ p[b - 1] \in Nat \ {0}
  <2>1. 2 \in Bases /\ b <= n /\ b <= LongBits /\ LongBits \in Nat
    BY <1>1, <1>3, BitsFacts DEF Bases
  <2>2. p[b] <= p[n] /\ p[b] <= p[LongBits]
    BY <1>2, <2>1, PowersGrow
  <2>3. p[b] = 2 * p[b - 1] /\ p[b - 1] \in Nat \ {0}
    BY <1>2, WidthFacts
  <2> QED BY <1>4, <2>1, <2>2, <2>3
<1>6. PICK v \in Int : v = Value(d)
  BY ArgumentIsValue
<1>7. /\ d.spec \in SignedSpecs => v \in -p[b - 1] .. p[b - 1] - 1
      /\ d.spec \notin SignedSpecs => v \in 0 .. p[b] - 1
  BY <1>2, <1>3, <1>6, ArgumentIsValue
<1>8. Size(d) = IF v > 0 THEN v ELSE 0 - v
  BY <1>6 DEF Size
<1>9. Size(d) \in 0 .. p[b] - 1
  BY <1>5, <1>7, <1>8
<1>10. Magnitude(d) = Size(d) % p[n]
  BY <1>1, <1>2, <1>6, <1>8, ArgumentIsValue DEF Magnitude, Modulo
<1>11. \A m \in Nat \ {0}, r \in Nat : r < m => r % m = r
  OBVIOUS
<1>12. Size(d) \in Nat /\ Size(d) < p[n] /\ Size(d) < p[LongBits]
  BY <1>5, <1>9
<1>13. Size(d) % p[n] = Size(d)
  BY <1>5, <1>11, <1>12
<1> QED BY <1>2, <1>10, <1>12, <1>13

(* How many digits it takes.                                               *)
LEMMA DigitsFacts ==
  ASSUME NEW d \in Directives, d.spec \in SignedSpecs => d.len # "hh"
  PROVE  /\ Digits(d) \in Nat \ {0} /\ Quotients(Size(d), Base(d))[Digits(d)] = 0
         /\ \A k \in 1 .. Digits(d) - 1 : Quotients(Size(d), Base(d))[k] # 0
<1>1. PICK v \in Nat : v = Size(d)
  BY MagnitudeIsSize
<1>2. PICK base \in Bases : base = Base(d)
  BY DEF Base, Bases
<1>3. PICK p : p = Powers(base)
  OBVIOUS
<1>4. p \in [Nat -> Nat \ {0}]
  BY <1>3, PowersFacts
<1>5. LongBits \in Nat /\ LongBits >= 1 /\ v < p[LongBits]
  <2>1. LongBits \in Nat /\ LongBits >= 1
    BY PrintfAssumption
  <2>2. Powers(2)[LongBits] <= p[LongBits]
    BY <1>3, <2>1, PowersGrow
  <2>3. v < Powers(2)[LongBits]
    BY <1>1, MagnitudeIsSize
  <2>4. Powers(2)[LongBits] \in Nat /\ p[LongBits] \in Nat
    BY <1>4, <2>1, WidthFacts
  <2> QED BY <2>1, <2>2, <2>3, <2>4
<1> DEFINE S == {k \in Nat : k >= 1 /\ v < p[k]}
<1>6. PICK n \in S : \A k \in S : ~(k < n)
  <2>1. LongBits \in S /\ S \in SUBSET Nat
    BY <1>5
  <2> HIDE DEF S
  <2> QED BY <2>1, LeastNatural
<1> DEFINE C(k) == v < p[k] /\ \A j \in 1 .. k - 1 : v >= p[j]
           c == CHOOSE k \in 1 .. LongBits : C(k)
<1>7. n \in 1 .. LongBits /\ C(n)
  <2>1. n \in Nat /\ n >= 1 /\ v < p[n]
    BY <1>6
  <2>2. ~(LongBits < n)
    BY <1>5, <1>6
  <2>3. \A j \in 1 .. n - 1 : v >= p[j]
    <3> SUFFICES ASSUME NEW j \in 1 .. n - 1
                 PROVE  v >= p[j]
      OBVIOUS
    <3>1. j \in Nat /\ j < n /\ j >= 1
      BY <2>1
    <3>2. p[j] \in Nat /\ ~(v < p[j])
      BY <1>4, <1>6, <3>1
    <3> QED BY <3>2
  <2> QED BY <1>5, <2>1, <2>2, <2>3
<1>8. c \in 1 .. LongBits /\ C(c)
  <2> HIDE DEF C
  <2> QED BY <1>7
<1>9. Digits(d) = c
  BY <1>1, <1>2, <1>3 DEF Digits
<1> HIDE DEF c
<1>10. c \in Nat \ {0} /\ Quotients(v, base)[c] = 0
  BY <1>3, <1>5, <1>8, QuotientsEnd
<1>11. ASSUME NEW k \in 1 .. c - 1
       PROVE  Quotients(v, base)[k] # 0
  <2>1. k \in Nat /\ p[k] \in Nat /\ v >= p[k]
    BY <1>4, <1>8, <1>10
  <2> QED BY <1>3, <2>1, QuotientsEnd
<1> QED BY <1>1, <1>2, <1>9, <1>10, <1>11

----------------------------------------------------------------------------
(* Texts and their parts.                                                  *)
LEMMA SameText ==
  ASSUME NEW s, IsText(s), NEW t, IsText(t), Len(s) = Len(t),
         \A i \in 1 .. Len(s) : s[i] = t[i]
  PROVE  s = t
<1>1. PICK C : s \in Seq(C)
  BY DEF IsText
<1>2. PICK D : t \in Seq(D)
  BY DEF IsText
<1>3. s \in Seq(C \cup D) /\ t \in Seq(C \cup D)
  BY <1>1, <1>2
<1> QED BY <1>3, SeqEqual

LEMMA SliceFacts ==
  ASSUME NEW s, IsText(s), NEW a \in Nat \ {0}, NEW b \in Nat, a <= b + 1, b <= Len(s)
  PROVE  /\ IsText(SubSeq(s, a, b)) /\ Len(SubSeq(s, a, b)) = b + 1 - a
         /\ \A i \in 1 .. b + 1 - a : SubSeq(s, a, b)[i] = s[a + i - 1]
<1>1. PICK C : s \in Seq(C)
  BY DEF IsText
<1>2. \A i \in a .. b : s[i] \in C
  BY <1>1
<1>3. SubSeq(s, a, b) \in Seq(C)
  BY <1>2, SubSeqProperties
<1>4. Len(SubSeq(s, a, b)) = b + 1 - a
  BY <1>1, SubSeqProperties
<1>5. \A i \in 1 .. b + 1 - a : SubSeq(s, a, b)[i] = s[a + i - 1]
  BY <1>1, SubSeqProperties
<1> QED BY <1>3, <1>4, <1>5 DEF IsText

LEMMA ConcatEmpty ==
  ASSUME NEW s, IsText(s)
  PROVE  s \o <<>> = s /\ <<>> \o s = s
<1>1. PICK C : s \in Seq(C)
  BY DEF IsText
<1> QED BY <1>1

LEMMA ConcatAssociates ==
  ASSUME NEW r, IsText(r), NEW s, IsText(s), NEW t, IsText(t)
  PROVE  (r \o s) \o t = r \o (s \o t)
<1>1. PICK C : r \in Seq(C)
  BY DEF IsText
<1>2. PICK D : s \in Seq(D)
  BY DEF IsText
<1>3. PICK E : t \in Seq(E)
  BY DEF IsText
<1>4. r \in Seq(C \cup D \cup E) /\ s \in Seq(C \cup D \cup E) /\ t \in Seq(C \cup D \cup E)
  BY <1>1, <1>2, <1>3
<1> QED BY <1>4, ConcatAssociative

(* The parts of a concatenation.                                           *)
LEMMA BackPart ==
  ASSUME NEW s, IsText(s), NEW t, IsText(t)
  PROVE  SubSeq(s \o t, Len(s) + 1, Len(s \o t)) = t
<1> DEFINE u == SubSeq(s \o t, Len(s) + 1, Len(s \o t))
<1>1. /\ Len(s) \in Nat /\ Len(t) \in Nat /\ Len(s \o t) = Len(s) + Len(t) /\ IsText(s \o t)
      /\ \A i \in 1 .. Len(t) : (s \o t)[Len(s) + i] = t[i]
  BY TextFacts, ConcatFacts
<1>2. /\ IsText(u) /\ Len(u) = Len(s \o t) + 1 - (Len(s) + 1)
      /\ \A i \in 1 .. Len(s \o t) + 1 - (Len(s) + 1) : u[i] = (s \o t)[Len(s) + 1 + i - 1]
  <2>1. PICK a \in Nat \ {0} : a = Len(s) + 1
    BY <1>1
  <2>2. PICK b \in Nat : b = Len(s \o t)
    BY <1>1
  <2>3. PICK r : r = s \o t
    OBVIOUS
  <2>4. IsText(r) /\ a <= b + 1 /\ b <= Len(r)
    BY <1>1, <2>1, <2>2, <2>3
  <2>5. /\ IsText(SubSeq(r, a, b)) /\ Len(SubSeq(r, a, b)) = b + 1 - a
        /\ \A i \in 1 .. b + 1 - a : SubSeq(r, a, b)[i] = r[a + i - 1]
    BY <2>4, SliceFacts
  <2> QED BY <2>1, <2>2, <2>3, <2>5
<1>3. Len(s \o t) + 1 - (Len(s) + 1) = Len(t)
  BY <1>1
<1>4. ASSUME NEW i \in 1 .. Len(t)
      PROVE  u[i] = t[i]
  <2>1. Len(s) + 1 + i - 1 = Len(s) + i
    BY <1>1
  <2> HIDE DEF u
  <2> QED BY <1>1, <1>2, <1>3, <2>1
<1> HIDE DEF u
<1>5. u = t
  BY <1>2, <1>3, <1>4, SameText
<1> QED BY <1>5 DEF u

LEMMA FrontPart ==
  ASSUME NEW s, IsText(s), NEW t, IsText(t)
  PROVE  /\ SubSeq(s \o t, 1, Len(s)) = s /\ IsPrefix(s, s \o t)
         /\ SubSeq(s \o t, 1, Len(s \o t) - Len(t)) = s
<1> DEFINE u == SubSeq(s \o t, 1, Len(s))
<1>1. /\ Len(s) \in Nat /\ Len(t) \in Nat /\ Len(s \o t) = Len(s) + Len(t) /\ IsText(s \o t)
      /\ \A i \in 1 .. Len(s) : (s \o t)[i] = s[i]
  BY TextFacts, ConcatFacts
<1>2. /\ IsText(u) /\ Len(u) = Len(s) + 1 - 1
      /\ \A i \in 1 .. Len(s) + 1 - 1 : u[i] = (s \o t)[1 + i - 1]
  <2>1. PICK a \in Nat \ {0}, b \in Nat : a = 1 /\ b = Len(s)
    <3>1. 1 \in Nat \ {0} /\ Len(s) \in Nat
      BY <1>1
    <3> QED BY <3>1
  <2>2. PICK z : z = s \o t
    OBVIOUS
  <2>3. IsText(z) /\ a <= b + 1 /\ b <= Len(z)
    BY <1>1, <2>1, <2>2
  <2>4. /\ IsText(SubSeq(z, a, b)) /\ Len(SubSeq(z, a, b)) = b + 1 - a
        /\ \A i \in 1 .. b + 1 - a : SubSeq(z, a, b)[i] = z[a + i - 1]
    BY <2>3, SliceFacts
  <2> QED BY <2>1, <2>2, <2>4
<1>3. ASSUME NEW i \in 1 .. Len(s)
      PROVE  u[i] = s[i]
  <2>1. 1 + i - 1 = i /\ Len(s) + 1 - 1 = Len(s)
    BY <1>1
  <2> HIDE DEF u
  <2> QED BY <1>1, <1>2, <2>1
<1>4. Len(u) = Len(s)
  <2> HIDE DEF u
  <2> QED BY <1>1, <1>2
<1>5. u = s
  <2> HIDE DEF u
  <2> QED BY <1>2, <1>3, <1>4, SameText
<1>6. SubSeq(s, 1, Len(s)) = s
  <2>1. PICK C : s \in Seq(C)
    BY DEF IsText
  <2> QED BY <2>1
<1>7. Len(s \o t) - Len(t) = Len(s)
  BY <1>1
<1> QED BY <1>1, <1>5, <1>6, <1>7 DEF IsPrefix

LEMMA ReverseFacts ==
  ASSUME NEW s, IsText(s)
  PROVE  /\ IsText(Reverse(s)) /\ Len(Reverse(s)) = Len(s)
         /\ \A i \in 1 .. Len(s) : Reverse(s)[i] = s[Len(s) - i + 1]
<1>1. Len(s) \in Nat
  BY TextFacts
<1>2. Reverse(s) = [i \in 1 .. Len(s) |-> s[Len(s) - i + 1]]
  BY DEF Reverse
<1>3. Len(Reverse(s)) = Len(s)
  BY <1>1, <1>2
<1> QED BY <1>2, <1>3, ReverseIsText

LEMMA ReverseConcat ==
  ASSUME NEW s, IsText(s), NEW t, IsText(t)
  PROVE  Reverse(s \o t) = Reverse(t) \o Reverse(s)
<1>1. /\ Len(s) \in Nat /\ Len(t) \in Nat /\ Len(s \o t) = Len(s) + Len(t) /\ IsText(s \o t)
      /\ \A i \in 1 .. Len(s) : (s \o t)[i] = s[i]
      /\ \A i \in 1 .. Len(t) : (s \o t)[Len(s) + i] = t[i]
  BY TextFacts, ConcatFacts
<1>2. PICK n \in Nat : n = Len(s)
  BY <1>1
<1>3. PICK m \in Nat : m = Len(t)
  BY <1>1
<1>4. PICK u : u = Reverse(s \o t)
  OBVIOUS
<1>5. PICK x : x = Reverse(t)
  OBVIOUS
<1>6. PICK y : y = Reverse(s)
  OBVIOUS
<1>7. /\ IsText(u) /\ Len(u) = n + m
      /\ \A i \in 1 .. n + m : u[i] = (s \o t)[n + m - i + 1]
  <2>1. PICK r : r = s \o t
    OBVIOUS
  <2>2. IsText(r) /\ Len(r) = n + m
    BY <1>1, <1>2, <1>3, <2>1
  <2>3. /\ IsText(Reverse(r)) /\ Len(Reverse(r)) = Len(r)
        /\ \A i \in 1 .. Len(r) : Reverse(r)[i] = r[Len(r) - i + 1]
    BY <2>2, ReverseFacts
  <2> QED BY <1>4, <2>1, <2>2, <2>3
<1>8. /\ IsText(x) /\ Len(x) = m
      /\ \A i \in 1 .. m : x[i] = t[m - i + 1]
  BY <1>3, <1>5, ReverseFacts
<1>9. /\ IsText(y) /\ Len(y) = n
      /\ \A i \in 1 .. n : y[i] = s[n - i + 1]
  BY <1>2, <1>6, ReverseFacts
<1>10. /\ IsText(x \o y) /\ Len(x \o y) = m + n
       /\ \A i \in 1 .. m : (x \o y)[i] = x[i]
       /\ \A i \in 1 .. n : (x \o y)[m + i] = y[i]
  <2>1. IsText(x) /\ IsText(y) /\ Len(x) = m /\ Len(y) = n
    BY <1>8, <1>9
  <2>2. /\ IsText(x \o y) /\ Len(x \o y) = Len(x) + Len(y)
        /\ \A i \in 1 .. Len(x) : (x \o y)[i] = x[i]
        /\ \A i \in 1 .. Len(y) : (x \o y)[Len(x) + i] = y[i]
    BY <2>1, TextFacts, ConcatFacts
  <2> QED BY <2>1, <2>2
<1>11. ASSUME NEW i \in 1 .. n + m
       PROVE  u[i] = (x \o y)[i]
  <2>1. CASE i <= m
    <3>1. m - i + 1 \in 1 .. m /\ i \in 1 .. m /\ n + m - i + 1 = n + (m - i + 1)
      BY <2>1
    <3>2. (s \o t)[n + (m - i + 1)] = t[m - i + 1]
      BY <1>1, <1>2, <1>3, <3>1
    <3> QED BY <1>7, <1>8, <1>10, <3>1, <3>2
  <2>2. CASE i > m
    <3>1. i - m \in 1 .. n /\ n + m - i + 1 \in 1 .. n /\ m + (i - m) = i
          /\ n - (i - m) + 1 = n + m - i + 1
      BY <2>2
    <3>2. (s \o t)[n + m - i + 1] = s[n + m - i + 1]
      BY <1>1, <1>2, <3>1
    <3>3. (x \o y)[i] = y[i - m]
      BY <1>10, <3>1
    <3>4. y[i - m] = s[n + m - i + 1]
      BY <1>9, <3>1
    <3> QED BY <1>7, <3>2, <3>3, <3>4
  <2>3. i \in Nat
    BY <1>11
  <2>4. i <= m \/ i > m
    BY <2>3
  <2> QED BY <2>1, <2>2, <2>4, Zenon
<1>12. Len(u) = Len(x \o y)
  BY <1>7, <1>10
<1>13. u = x \o y
  BY <1>7, <1>10, <1>11, <1>12, SameText
<1> QED BY <1>4, <1>5, <1>6, <1>13

----------------------------------------------------------------------------
(* The buffer of _ntoa_long while it is filled.                            *)
LEMMA PushFits ==
  ASSUME NEW buf, IsText(buf), NEW more, IsText(more), Len(buf) + Len(more) <= NtoaSize
  PROVE  Push(buf, more) = buf \o more
<1>1. Len(buf) \in Int /\ Len(more) \in Int /\ NtoaSize - Len(buf) \in Int
  BY TextFacts, PrintfAssumption
<1>2. Min({Len(more), NtoaSize - Len(buf)})
        = IF Len(more) <= NtoaSize - Len(buf) THEN Len(more) ELSE NtoaSize - Len(buf)
  BY <1>1, MinMax, Zenon
<1>3. Len(more) <= NtoaSize - Len(buf)
  BY <1>1, PrintfAssumption
<1>4. SubSeq(more, 1, Len(more)) = more
  <2>1. PICK C : more \in Seq(C)
    BY DEF IsText
  <2> QED BY <2>1
<1> QED BY <1>2, <1>3, <1>4 DEF Push

LEMMA PushTwice ==
  ASSUME NEW r, IsText(r), NEW s, IsText(s), NEW t, IsText(t),
         Len(r) + Len(s) + Len(t) <= NtoaSize
  PROVE  Push(Push(r, s), t) = r \o (s \o t)
<1>1. Len(r) \in Nat /\ Len(s) \in Nat /\ Len(t) \in Nat /\ NtoaSize \in Nat
  BY TextFacts, PrintfAssumption
<1>2. IsText(r \o s) /\ Len(r \o s) = Len(r) + Len(s)
  BY ConcatFacts
<1>3. Push(r, s) = r \o s
  <2>1. Len(r) + Len(s) <= NtoaSize
    BY <1>1
  <2> QED BY <2>1, PushFits
<1>4. Push(r \o s, t) = (r \o s) \o t
  <2>1. Len(r \o s) + Len(t) <= NtoaSize
    BY <1>2
  <2> QED BY <1>2, <2>1, PushFits
<1>5. (r \o s) \o t = r \o (s \o t)
  BY ConcatAssociates
<1> QED BY <1>3, <1>4, <1>5

LEMMA TimesFacts ==
  ASSUME NEW n \in Int, NEW c
  PROVE  /\ IsText(Times(Max({n, 0}), c)) /\ Max({n, 0}) = (IF n >= 0 THEN n ELSE 0)
         /\ Len(Times(Max({n, 0}), c)) = (IF n >= 0 THEN n ELSE 0)
         /\ \A i \in 1 .. Len(Times(Max({n, 0}), c)) : Times(Max({n, 0}), c)[i] = c
<1>1. Max({n, 0}) = IF n >= 0 THEN n ELSE 0
  BY MinMax
<1>2. PICK k \in Nat : k = Max({n, 0})
  BY <1>1
<1>3. /\ Len(Times(k, c)) = k /\ \A i \in 1 .. k : Times(k, c)[i] = c
  BY DEF Times
<1> QED BY <1>1, <1>2, <1>3, TimesIsText

LEMMA NumeralIsText ==
  ASSUME NEW base \in Bases, NEW v \in Nat, NEW flags, NEW n \in Nat
  PROVE  /\ IsText(Numeral(v, base, flags, n)) /\ Len(Numeral(v, base, flags, n)) = n
BY NumeralFacts DEF IsText

LEMMA DigitsAreNumeral ==
  ASSUME NEW base \in Bases, NEW v \in Nat, NEW flags, NEW n \in 1 .. NtoaSize,
         Quotients(v, base)[n] = 0, \A k \in 1 .. n - 1 : Quotients(v, base)[k] # 0
  PROVE  NtoaDigits(v, base, flags)
           = Numeral(v, base, flags, IF "." \in flags /\ v = 0 THEN 0 ELSE n)
<1>1. PICK q : q = Quotients(v, base)
  OBVIOUS
<1>2. PICK c \in 1 .. NtoaSize :
        /\ c = DigitCount(q) /\ (c = NtoaSize \/ q[c] = 0) /\ \A k \in 1 .. c - 1 : q[k] # 0
  BY DigitCountFacts
<1>3. c = n
  <2>1. CASE c < n
    <3>1. c \in 1 .. n - 1 /\ c # NtoaSize
      BY <1>2, <2>1, PrintfAssumption
    <3> QED BY <1>1, <1>2, <3>1
  <2>2. CASE n < c
    <3>1. n \in 1 .. c - 1
      BY <1>2, <2>2, PrintfAssumption
    <3> QED BY <1>1, <1>2, <3>1
  <2> QED BY <2>1, <2>2, PrintfAssumption
<1>4. NtoaDigits(v, base, flags) =
        IF "." \in flags /\ v = 0 THEN <<>>
        ELSE [i \in 1 .. n |-> Alphabet(flags)[(q[i - 1] % base) + 1]]
  BY <1>1, <1>2, <1>3 DEF NtoaDigits, Alphabet
<1>5. Numeral(v, base, flags, n) = [i \in 1 .. n |-> Alphabet(flags)[(q[i - 1] % base) + 1]]
  BY <1>1 DEF Numeral
<1>6. Numeral(v, base, flags, 0) = <<>>
  <2>1. IsText(Numeral(v, base, flags, 0)) /\ Len(Numeral(v, base, flags, 0)) = 0
    BY NumeralIsText
  <2>2. PICK C : Numeral(v, base, flags, 0) \in Seq(C)
    BY <2>1 DEF IsText
  <2> QED BY <2>1, <2>2
<1> QED BY <1>4, <1>5, <1>6

LEMMA CutNumeral ==
  ASSUME NEW base \in Bases, NEW v \in Nat, NEW flags, NEW n \in Nat, NEW k \in Nat, k <= n
  PROVE  SubSeq(Numeral(v, base, flags, n), 1, k) = Numeral(v, base, flags, k)
<1>1. PICK b : b = Numeral(v, base, flags, n)
  OBVIOUS
<1>2. PICK e : e = Numeral(v, base, flags, k)
  OBVIOUS
<1>3. IsText(b) /\ Len(b) = n /\ IsText(e) /\ Len(e) = k
  BY <1>1, <1>2, NumeralIsText
<1>4. \A i \in 1 .. k : e[i] = b[i]
  <2>1. \A i \in 1 .. n :
          b[i] = Alphabet(flags)[(Quotients(v, base)[i - 1] % base) + 1]
    BY <1>1, NumeralFacts
  <2>2. \A i \in 1 .. k :
          e[i] = Alphabet(flags)[(Quotients(v, base)[i - 1] % base) + 1]
    BY <1>2, NumeralFacts
  <2>3. \A i \in 1 .. k : i \in 1 .. n
    OBVIOUS
  <2> QED BY <2>1, <2>2, <2>3
<1>5. PICK r : r = SubSeq(b, 1, k)
  OBVIOUS
<1>6. /\ IsText(r) /\ Len(r) = k /\ \A i \in 1 .. k : r[i] = b[i]
  <2>1. 1 \in Nat \ {0} /\ 1 <= k + 1 /\ k <= Len(b)
    BY <1>3
  <2>2. /\ IsText(SubSeq(b, 1, k)) /\ Len(SubSeq(b, 1, k)) = k + 1 - 1
        /\ \A i \in 1 .. k + 1 - 1 : SubSeq(b, 1, k)[i] = b[1 + i - 1]
    BY <1>3, <2>1, SliceFacts
  <2>3. k + 1 - 1 = k /\ \A i \in 1 .. k : 1 + i - 1 = i
    OBVIOUS
  <2> QED BY <1>5, <2>2, <2>3
<1>7. r = e
  BY <1>3, <1>4, <1>6, SameText
<1> QED BY <1>1, <1>2, <1>5, <1>7

(* Zeros behind a complete numeral make a longer one.                      *)
LEMMA PadNumeral ==
  ASSUME NEW base \in Bases, NEW v \in Nat, NEW flags, NEW n \in Nat, NEW k \in Nat,
         n <= NtoaSize, k <= NtoaSize, Quotients(v, base)[n] = 0
  PROVE  PadZeros(Numeral(v, base, flags, n), k)
           = Numeral(v, base, flags, IF k > n THEN k ELSE n)
<1>1. PICK b : b = Numeral(v, base, flags, n)
  OBVIOUS
<1>2. PICK z : z = Times(Max({k - n, 0}), "0")
  OBVIOUS
<1>3. IsText(b) /\ Len(b) = n
  BY <1>1, NumeralIsText
<1>4. PICK m \in Nat : m = IF k > n THEN k ELSE n
  OBVIOUS
<1>5. /\ IsText(z) /\ Len(z) = m - n /\ \A i \in 1 .. Len(z) : z[i] = "0"
  <2>1. k - n \in Int
    OBVIOUS
  <2>2. (IF k - n >= 0 THEN k - n ELSE 0) = m - n
    BY <1>4
  <2> QED BY <1>2, <2>1, <2>2, TimesFacts
<1>6. PadZeros(b, k) = b \o z
  <2>1. Len(b) + Len(z) <= NtoaSize
    BY <1>3, <1>4, <1>5, PrintfAssumption
  <2> QED BY <1>2, <1>3, <1>5, <2>1, PushFits DEF PadZeros
<1>7. /\ IsText(b \o z) /\ Len(b \o z) = m
      /\ \A i \in 1 .. n : (b \o z)[i] = b[i]
      /\ \A i \in 1 .. m - n : (b \o z)[n + i] = z[i]
  <2>1. /\ IsText(b \o z) /\ Len(b \o z) = Len(b) + Len(z)
        /\ \A i \in 1 .. Len(b) : (b \o z)[i] = b[i]
        /\ \A i \in 1 .. Len(z) : (b \o z)[Len(b) + i] = z[i]
    BY <1>3, <1>5, TextFacts, ConcatFacts
  <2> QED BY <1>3, <1>4, <1>5, <2>1
<1>8. PICK e : e = Numeral(v, base, flags, m)
  OBVIOUS
<1>9. IsText(e) /\ Len(e) = m
  BY <1>8, NumeralIsText
<1>10. ASSUME NEW i \in 1 .. m
       PROVE  (b \o z)[i] = e[i]
  <2>1. CASE i <= n
    <3>1. i \in 1 .. n
      BY <2>1
    <3>2. b[i] = Alphabet(flags)[(Quotients(v, base)[i - 1] % base) + 1]
      BY <1>1, <3>1, NumeralFacts
    <3>3. e[i] = Alphabet(flags)[(Quotients(v, base)[i - 1] % base) + 1]
      BY <1>8, NumeralFacts
    <3> QED BY <1>7, <3>1, <3>2, <3>3
  <2>2. CASE i > n
    <3>1. i - n \in 1 .. m - n /\ n + (i - n) = i /\ i - 1 \in Nat /\ n <= i - 1
      BY <2>2
    <3>2. (b \o z)[i] = "0"
      BY <1>5, <1>7, <3>1
    <3>3. Quotients(v, base)[i - 1] = 0
      BY <3>1, QuotientsStayZero
    <3>4. e[i] = "0"
      BY <1>8, <3>3, NumeralZeros
    <3> QED BY <3>2, <3>4
  <2>3. i <= n \/ i > n
    OBVIOUS
  <2> QED BY <2>1, <2>2, <2>3, Zenon
<1>11. b \o z = e
  BY <1>7, <1>9, <1>10, SameText
<1> QED BY <1>1, <1>4, <1>6, <1>8, <1>11

(* How many digits there are once zeros have been put before them.         *)
Filled(n, prec, width, flags) ==
  LET m == IF prec > n THEN prec ELSE n
  IN  IF "-" \in flags THEN n
      ELSE IF "0" \in flags /\ width > m THEN width ELSE m

LEMMA ZerosAreNumeral ==
  ASSUME NEW base \in Bases, NEW v \in Nat, NEW flags, NEW n \in Nat,
         NEW prec \in Nat, NEW width \in Nat,
         Filled(n, prec, width, flags) <= NtoaSize, Quotients(v, base)[n] = 0
  PROVE  /\ LeadingZeros(Numeral(v, base, flags, n), prec, width, flags)
              = Numeral(v, base, flags, Filled(n, prec, width, flags))
         /\ Filled(n, prec, width, flags) \in Nat /\ Filled(n, prec, width, flags) >= n
         /\ Quotients(v, base)[Filled(n, prec, width, flags)] = 0
<1>1. PICK m \in Nat : m = IF prec > n THEN prec ELSE n
  OBVIOUS
<1>2. PICK w \in Nat : w = IF "0" \in flags THEN width ELSE 0
  OBVIOUS
<1>3. PICK f \in Nat : f = IF "-" \in flags THEN n ELSE IF w > m THEN w ELSE m
  OBVIOUS
<1>4. f = Filled(n, prec, width, flags) /\ f >= n /\ f <= NtoaSize
  BY <1>1, <1>2, <1>3 DEF Filled
<1>5. Quotients(v, base)[f] = 0
  BY <1>4, QuotientsStayZero
<1>6. CASE "-" \notin flags
  <2>1. n <= NtoaSize /\ prec <= NtoaSize /\ m <= NtoaSize /\ w <= NtoaSize /\ n <= m
    BY <1>1, <1>3, <1>4, <1>6, PrintfAssumption
  <2>2. PadZeros(Numeral(v, base, flags, n), prec) = Numeral(v, base, flags, m)
    BY <1>1, <2>1, PadNumeral
  <2>3. Quotients(v, base)[m] = 0
    BY <2>1, QuotientsStayZero
  <2>4. PadZeros(Numeral(v, base, flags, m), w) = Numeral(v, base, flags, f)
    BY <1>3, <1>6, <2>1, <2>3, PadNumeral
  <2> QED BY <1>2, <1>4, <1>5, <1>6, <2>2, <2>4 DEF LeadingZeros
<1>7. CASE "-" \in flags
  BY <1>3, <1>4, <1>5, <1>7 DEF LeadingZeros
<1> QED BY <1>6, <1>7

(* The prefix of #, and how many zeros it takes the place of.              *)
HashText(base, flags) ==
  CASE base = 16 -> <<"0", IF "X" \in flags THEN "X" ELSE "x">>
    [] base = 2  -> <<"0", "b">>
    [] OTHER     -> <<"0">>

Dropped(n, base, prec, width, flags) ==
  IF "." \notin flags /\ n > 0 /\ n \in {prec, width}
  THEN IF n > 1 /\ base = 16 THEN 2 ELSE 1
  ELSE 0

Uncovered(n, base, prec, width, flags) == n - Dropped(n, base, prec, width, flags)

(* The prefix without its 0, as Hash has it.                               *)
HashMark(base, flags) ==
  CASE base = 16 -> IF "X" \in flags THEN <<"X">> ELSE <<"x">>
    [] base = 2  -> <<"b">>
    [] OTHER     -> <<>>

LEMMA HashTextFacts ==
  ASSUME NEW base \in Bases, NEW flags
  PROVE  /\ IsText(HashText(base, flags))
         /\ Len(HashText(base, flags)) = IF base \in {2, 16} THEN 2 ELSE 1
<1>1. \A a, b : IsText(<<a, b>>) /\ Len(<<a, b>>) = 2
  <2>1. ASSUME NEW a, NEW b
        PROVE  <<a, b>> \in Seq({a, b}) /\ Len(<<a, b>>) = 2
    OBVIOUS
  <2> QED BY <2>1 DEF IsText
<1> QED BY <1>1, ShortTexts DEF HashText, Bases

LEMMA ReverseTwo ==
  ASSUME NEW a, NEW b
  PROVE  <<b>> \o <<a>> = Reverse(<<a, b>>)
BY DEF Reverse

LEMMA HashPush ==
  ASSUME NEW base \in Bases, NEW flags, NEW a, IsText(a),
         Len(a) + Len(HashText(base, flags)) \in 0 .. NtoaSize
  PROVE  Push(Push(a, HashMark(base, flags)), <<"0">>) = a \o Reverse(HashText(base, flags))
<1>1. PICK m : m = HashMark(base, flags)
  OBVIOUS
<1>2. PICK z : z = <<"0">>
  OBVIOUS
<1>3. IsText(z) /\ Len(z) = 1
  BY <1>2, ShortTexts
<1>4. /\ IsText(m) /\ Len(m) \in Nat
      /\ Len(m) + 1 = Len(HashText(base, flags))
  BY <1>1, ShortTexts, HashTextFacts DEF Bases, HashMark
<1>5. m \o z = Reverse(HashText(base, flags))
  <2>1. \A x, y : <<y>> \o <<x>> = Reverse(<<x, y>>)
    BY ReverseTwo
  <2>2. <<>> \o <<"0">> = Reverse(<<"0">>)
    BY DEF Reverse
  <2>3. PICK x : x = IF "X" \in flags THEN "X" ELSE "x"
    OBVIOUS
  <2>4. CASE base = 16
    <3>1. m = <<x>> /\ HashText(base, flags) = <<"0", x>>
      BY <1>1, <2>3, <2>4 DEF HashText, HashMark
    <3> QED BY <1>2, <2>1, <3>1
  <2>5. CASE base = 2
    <3>1. m = <<"b">> /\ HashText(base, flags) = <<"0", "b">>
      BY <1>1, <2>5 DEF HashText, HashMark
    <3> QED BY <1>2, <2>1, <3>1
  <2>6. CASE base # 16 /\ base # 2
    <3>1. m = <<>> /\ HashText(base, flags) = <<"0">>
      BY <1>1, <2>6 DEF HashText, HashMark
    <3> QED BY <1>2, <2>2, <3>1
  <2> QED BY <2>4, <2>5, <2>6
<1>6. Len(a) + Len(m) + Len(z) <= NtoaSize
  BY <1>3, <1>4, TextFacts, PrintfAssumption
<1>7. Push(Push(a, m), z) = a \o (m \o z)
  <2>1. IsText(m) /\ IsText(z)
    BY <1>3, <1>4
  <2> QED BY <1>6, <2>1, PushTwice
<1> QED BY <1>1, <1>2, <1>5, <1>7

(* Hash leaves k digits of n and writes the prefix after them.             *)
Prefixed(v, base, flags, n, prec, width, k) ==
  Hash(Numeral(v, base, flags, n), base, prec, width, flags)
    = Numeral(v, base, flags, k) \o Reverse(HashText(base, flags))

LEMMA HashNumeral ==
  ASSUME NEW base \in Bases, NEW v \in Nat, NEW flags, "#" \in flags, NEW n \in Nat,
         NEW prec \in Nat, NEW width \in Nat, NEW k \in Nat,
         k = Uncovered(n, base, prec, width, flags),
         k + Len(HashText(base, flags)) <= NtoaSize
  PROVE  Prefixed(v, base, flags, n, prec, width, k)
<1>1. k = n - Dropped(n, base, prec, width, flags) /\ k <= n
  BY DEF Uncovered, Dropped
<1>2. PICK b : b = Numeral(v, base, flags, n)
  OBVIOUS
<1>3. PICK a : a = Numeral(v, base, flags, k)
  OBVIOUS
<1>4. Len(b) = n /\ IsText(a) /\ Len(a) = k /\ SubSeq(b, 1, k) = a
  <2>1. Len(b) = n
    BY <1>2, NumeralIsText
  <2>2. IsText(a) /\ Len(a) = k
    BY <1>3, NumeralIsText
  <2>3. SubSeq(b, 1, k) = a
    BY <1>1, <1>2, <1>3, CutNumeral, SMTT(30)
  <2> QED BY <2>1, <2>2, <2>3
<1>5. Hash(b, base, prec, width, flags) = Push(Push(a, HashMark(base, flags)), <<"0">>)
  BY <1>1, <1>4 DEF Hash, Dropped, HashMark
<1>6. Push(Push(a, HashMark(base, flags)), <<"0">>) = a \o Reverse(HashText(base, flags))
  <2>1. Len(a) + Len(HashText(base, flags)) \in 0 .. NtoaSize
    BY <1>1, <1>4, HashTextFacts, PrintfAssumption
  <2> QED BY <1>4, <2>1, HashPush
<1> QED BY <1>1, <1>2, <1>3, <1>5, <1>6 DEF Prefixed

----------------------------------------------------------------------------
(* A directive: its flags, its prefix, and how long things are.            *)
FlagsOf(d) == IF Size(d) = 0 THEN IntegerFlags(d) \ {"#"} ELSE IntegerFlags(d)
Negative(d) == d.spec \in SignedSpecs /\ Value(d) < 0
Room(d)     == SignedWidth(Negative(d), Width(d), FlagsOf(d))
Zeros(d)    == "0" \in d.flags /\ ~Left(d) /\ ~HasPrec(d)
Least(d)    == IF HasPrec(d) THEN Precision(d) ELSE 1

LEMMA DirectiveFacts ==
  ASSUME NEW d \in Directives
  PROVE  /\ Width(d) \in Nat /\ Precision(d) \in Nat /\ IsText(d.text)
         /\ ~HasPrec(d) => Precision(d) = 0
         /\ HasPrec(d) => d.prec[1] \in Int
<1>1. d.text \in Seq(STRING) /\ d.width \in Int /\ d.prec \in Seq(Int)
  BY DEF Directives
<1>2. HasPrec(d) => d.prec[1] \in Int
  <2>1. ASSUME NEW q \in Seq(Int), q # <<>>
        PROVE  q[1] \in Int
    BY <2>1
  <2> QED BY <1>1, <2>1 DEF HasPrec
<1> QED BY <1>1, <1>2 DEF IsText, Width, Precision

LEMMA FlagFacts ==
  ASSUME NEW d \in Directives, d.spec \in IntSpecs
  PROVE  /\ "-" \in FlagsOf(d) <=> Left(d)
         /\ "0" \in FlagsOf(d) <=> "0" \in d.flags /\ ~HasPrec(d)
         /\ "0" \in IntegerFlags(d) <=> "0" \in FlagsOf(d)
         /\ "." \in FlagsOf(d) <=> HasPrec(d)
         /\ "X" \in FlagsOf(d) <=> d.spec = "X"
         /\ "#" \in FlagsOf(d) <=> "#" \in d.flags /\ Base(d) # 10 /\ Size(d) # 0
         /\ "+" \in FlagsOf(d) <=> "+" \in d.flags /\ d.spec \in SignedSpecs
         /\ " " \in FlagsOf(d) <=> " " \in d.flags /\ d.spec \in SignedSpecs
<1>1. d.flags \subseteq {"0", "-", "+", " ", "#"}
  BY DEF Directives
<1>2. PICK F : F = IntegerFlags(d)
  OBVIOUS
<1>3. /\ "-" \in F <=> Left(d)
      /\ "0" \in F <=> "0" \in d.flags /\ ~HasPrec(d)
      /\ "." \in F <=> HasPrec(d)
      /\ "X" \in F <=> d.spec = "X"
      /\ "#" \in F <=> "#" \in d.flags /\ Base(d) # 10
      /\ "+" \in F <=> "+" \in d.flags /\ d.spec \in SignedSpecs
      /\ " " \in F <=> " " \in d.flags /\ d.spec \in SignedSpecs
  BY <1>1, <1>2 DEF IntegerFlags, Flags, Left
<1>4. FlagsOf(d) = IF Size(d) = 0 THEN F \ {"#"} ELSE F
  BY <1>2 DEF FlagsOf
<1> QED BY <1>2, <1>3, <1>4

LEMMA PrefixFacts ==
  ASSUME NEW d \in Directives, d.spec \in IntSpecs, d.spec \in SignedSpecs => d.len # "hh"
  PROVE  /\ "#" \in FlagsOf(d) =>
              /\ Prefix(d) = HashText(Base(d), FlagsOf(d))
              /\ SignOf(Negative(d), FlagsOf(d)) = <<>> /\ Room(d) = Width(d)
         /\ "#" \notin FlagsOf(d) => Prefix(d) = SignOf(Negative(d), FlagsOf(d))
         /\ IsText(Prefix(d)) /\ Base(d) \in Bases
         /\ Len(SignOf(Negative(d), FlagsOf(d)))
              = IF Negative(d) \/ FlagsOf(d) \cap {"+", " "} # {} THEN 1 ELSE 0
<1>1. PICK F : F = FlagsOf(d)
  OBVIOUS
<1>2. /\ "X" \in F <=> d.spec = "X"
      /\ "#" \in F <=> "#" \in d.flags /\ Base(d) # 10 /\ Size(d) # 0
      /\ "+" \in F <=> "+" \in d.flags /\ d.spec \in SignedSpecs
      /\ " " \in F <=> " " \in d.flags /\ d.spec \in SignedSpecs
  BY <1>1, FlagFacts
<1>3. Size(d) = 0 <=> Value(d) = 0
  BY ArgumentIsValue DEF Size
<1> DEFINE sign == SignOf(Negative(d), F)
           mark == IF "#" \notin d.flags \/ Value(d) = 0 THEN <<>>
                   ELSE CASE d.spec \in {"x", "X"} -> <<"0", d.spec>>
                          [] d.spec = "b" -> <<"0", "b">>
                          [] d.spec = "o" -> <<"0">>
                          [] OTHER -> <<>>
<1>4. Prefix(d) = sign \o mark
  <2>1. sign = SignOf(d.spec \in SignedSpecs /\ Value(d) < 0,
                      IF d.spec \in SignedSpecs THEN d.flags ELSE {})
    BY <1>2 DEF SignOf, Opt, Negative
  <2> QED BY <2>1 DEF Prefix
<1>5. IsText(sign)
  BY SignIsText
<1>6. /\ Base(d) \in Bases
      /\ Base(d) # 10 => d.spec \notin SignedSpecs
      /\ Base(d) = 10 => d.spec \notin {"x", "X", "o", "b"}
      /\ Base(d) = 16 <=> d.spec \in {"x", "X"}
      /\ Base(d) = 8 <=> d.spec = "o"
      /\ Base(d) = 2 <=> d.spec = "b"
  BY DEF Base, Bases, IntSpecs, SignedSpecs
<1>7. Len(sign) = IF Negative(d) \/ F \cap {"+", " "} # {} THEN 1 ELSE 0
  BY ShortTexts DEF SignOf, Opt
<1>8. CASE "#" \in F
  <2>1. Base(d) # 10 /\ d.spec \notin SignedSpecs /\ "+" \notin F /\ " " \notin F
        /\ ~Negative(d)
    BY <1>2, <1>6, <1>8 DEF Negative
  <2>2. sign = <<>>
    BY <2>1 DEF SignOf, Opt
  <2>3. mark = HashText(Base(d), F)
    BY <1>2, <1>3, <1>6, <1>8 DEF HashText, Bases
  <2>4. IsText(HashText(Base(d), F))
    BY <1>6, HashTextFacts
  <2>5. Prefix(d) = HashText(Base(d), F)
    <3> HIDE DEF sign, mark
    <3> QED BY <1>4, <2>2, <2>3, <2>4, ConcatEmpty
  <2>6. Room(d) = Width(d)
    BY <1>1, <2>1 DEF Room, SignedWidth
  <2> HIDE DEF sign, mark
  <2> QED BY <1>1, <1>6, <1>7, <1>8, <2>2, <2>4, <2>5, <2>6 DEF sign
<1>9. CASE "#" \notin F
  <2>1. mark = <<>>
    BY <1>2, <1>3, <1>6, <1>9 DEF IntSpecs, SignedSpecs
  <2>2. Prefix(d) = sign
    <3> HIDE DEF sign, mark
    <3> QED BY <1>4, <1>5, <2>1, ConcatEmpty
  <2> HIDE DEF mark
  <2> QED BY <1>1, <1>5, <1>6, <1>7, <1>9, <2>2
<1> QED BY <1>8, <1>9

LEMMA RoomFacts ==
  ASSUME NEW d \in Directives, d.spec \in IntSpecs, d.spec \in SignedSpecs => d.len # "hh"
  PROVE  /\ Room(d) \in Nat /\ Room(d) <= Width(d)
         /\ ~Zeros(d) => Room(d) = Width(d)
         /\ Zeros(d) <=> "0" \in FlagsOf(d) /\ "-" \notin FlagsOf(d)
         /\ Room(d) + Len(Prefix(d)) >= Width(d) /\ Len(Prefix(d)) \in Nat
         /\ "#" \notin FlagsOf(d) /\ Zeros(d) /\ Room(d) > 0
              => Room(d) + Len(Prefix(d)) = Width(d)
<1>1. PICK W \in Nat : W = Width(d)
  BY DirectiveFacts
<1>2. PICK F : F = FlagsOf(d)
  OBVIOUS
<1>3. PICK p \in Nat : p = Len(Prefix(d))
  BY PrefixFacts, TextFacts
<1>4. Zeros(d) <=> "0" \in F /\ "-" \notin F
  BY <1>2, FlagFacts DEF Zeros
<1>5. PICK x \in {0, 1} :
        x = IF Negative(d) \/ F \cap {"+", " "} # {} THEN 1 ELSE 0
  OBVIOUS
<1>6. /\ "#" \notin F => p = x
      /\ "#" \in F => Room(d) = W
  BY <1>1, <1>2, <1>3, <1>5, PrefixFacts
<1>7. Room(d) = IF Zeros(d) /\ W > 0 /\ x = 1 THEN W - 1 ELSE W
  <2>1. Room(d) = IF /\ "-" \notin F /\ "0" \in F /\ W > 0
                     /\ Negative(d) \/ F \cap {"+", " "} # {}
                  THEN W - 1 ELSE W
    BY <1>1, <1>2 DEF Room, SignedWidth
  <2>2. x = 1 <=> Negative(d) \/ F \cap {"+", " "} # {}
    <3>1. CASE Negative(d) \/ F \cap {"+", " "} # {}
      BY <1>5, <3>1
    <3>2. CASE ~(Negative(d) \/ F \cap {"+", " "} # {})
      <4>1. x = 0
        BY <1>5, <3>2, Zenon
      <4>2. x # 1
        BY <4>1
      <4> QED BY <3>2, <4>2, Zenon
    <3> QED BY <3>1, <3>2, Zenon
  <2> QED BY <1>4, <2>1, <2>2
<1> QED BY <1>1, <1>2, <1>3, <1>4, <1>6, <1>7

LEMMA FitsFacts ==
  ASSUME NEW d \in Directives, d.spec \in IntSpecs, Regular(d)
  PROVE  /\ Digits(d) + Len(Prefix(d)) <= NtoaSize /\ NtoaSize \in Nat
         /\ Precision(d) + Len(Prefix(d)) <= NtoaSize
         /\ "0" \in FlagsOf(d) => Width(d) + Len(Prefix(d)) <= NtoaSize
<1>1. PICK D \in Nat \ {0} : D = Digits(d)
  BY DigitsFacts DEF Regular
<1>2. PICK p \in Nat : p = Len(Prefix(d))
  BY RoomFacts DEF Regular
<1>3. PICK W \in Nat, c \in Nat : W = Width(d) /\ c = Precision(d)
  BY DirectiveFacts
<1>4. PICK m \in Nat : m = Max({c, W}) /\ m >= c /\ m >= W
  <2>1. c \in Int /\ W \in Int
    OBVIOUS
  <2>2. Max({c, W}) = IF c >= W THEN c ELSE W
    BY <2>1, MinMax, Zenon
  <2> QED BY <2>2
<1>5. PICK e \in Nat : e = (IF "0" \in IntegerFlags(d) THEN m ELSE c)
  OBVIOUS
<1>6. Max({D, e}) = IF D >= e THEN D ELSE e
  <2>1. D \in Int /\ e \in Int
    OBVIOUS
  <2> QED BY <2>1, MinMax, Zenon
<1>7. Max({D, e}) + p <= NtoaSize
  BY <1>1, <1>2, <1>3, <1>4, <1>5 DEF Regular, FitsBuffer
<1>8. NtoaSize \in Nat
  BY PrintfAssumption
<1>9. "0" \in IntegerFlags(d) <=> "0" \in FlagsOf(d)
  BY FlagFacts
<1> QED BY <1>1, <1>2, <1>3, <1>4, <1>5, <1>6, <1>7, <1>8, <1>9

(* The length of a number: at least what is asked for, and more only where *)
(* the digits or the flag 0 need it.                                       *)
DigitsAtFirst(d) == IF "." \in FlagsOf(d) /\ Size(d) = 0 THEN 0 ELSE Digits(d)
Padded(d)  == Filled(DigitsAtFirst(d), Precision(d), Room(d), FlagsOf(d))
Shown(d)   ==
  IF "#" \in FlagsOf(d)
  THEN Uncovered(Padded(d), Base(d), Precision(d), Room(d), FlagsOf(d))
  ELSE Padded(d)

LEMMA ShownFacts ==
  ASSUME NEW d \in Directives, d.spec \in IntSpecs, Regular(d)
  PROVE  /\ DigitsAtFirst(d) \in Nat /\ Padded(d) \in Nat /\ Padded(d) <= NtoaSize
         /\ Shown(d) \in Nat /\ Shown(d) >= DigitsAtFirst(d)
         /\ Shown(d) + Len(Prefix(d)) <= NtoaSize
         /\ Shown(d) >= Least(d)
         /\ Shown(d) > Least(d) => \/ Shown(d) = Digits(d) /\ Size(d) # 0
                                   \/ Zeros(d) /\ Shown(d) + Len(Prefix(d)) = Width(d)
         /\ Zeros(d) => Shown(d) + Len(Prefix(d)) >= Width(d)
<1>1. d.spec \in SignedSpecs => d.len # "hh"
  BY DEF Regular
<1>2. PICK D \in Nat \ {0} : D = Digits(d)
  BY <1>1, DigitsFacts
<1>3. PICK p \in Nat : p = Len(Prefix(d))
  BY <1>1, RoomFacts
<1>4. PICK W \in Nat, c \in Nat, w \in Nat : W = Width(d) /\ c = Precision(d) /\ w = Room(d)
  BY <1>1, DirectiveFacts, RoomFacts
<1>5. PICK F : F = FlagsOf(d)
  OBVIOUS
<1>6. /\ D + p <= NtoaSize /\ c + p <= NtoaSize /\ NtoaSize \in Nat
      /\ "0" \in F => W + p <= NtoaSize
  BY <1>2, <1>3, <1>4, <1>5, FitsFacts
<1>7. /\ w <= W /\ (~Zeros(d) => w = W) /\ (Zeros(d) <=> "0" \in F /\ "-" \notin F)
      /\ w + p >= W /\ ("#" \notin F /\ Zeros(d) /\ w > 0 => w + p = W)
  BY <1>1, <1>3, <1>4, <1>5, RoomFacts
<1>8. /\ "-" \in F <=> Left(d)
      /\ "0" \in F <=> "0" \in d.flags /\ ~HasPrec(d)
      /\ "." \in F <=> HasPrec(d)
      /\ "#" \in F <=> "#" \in d.flags /\ Base(d) # 10 /\ Size(d) # 0
  BY <1>5, FlagFacts
<1>9. ~HasPrec(d) => c = 0
  BY <1>4, DirectiveFacts
<1>10. PICK v \in Nat : v = Size(d)
  BY <1>1, MagnitudeIsSize
<1>11. PICK n \in Nat : n = DigitsAtFirst(d) /\ n = IF HasPrec(d) /\ v = 0 THEN 0 ELSE D
  BY <1>2, <1>5, <1>8, <1>10 DEF DigitsAtFirst
<1>12. PICK f \in Nat : f = Padded(d) /\ f = Filled(n, c, w, F)
  BY <1>4, <1>5, <1>11 DEF Padded, Filled
<1>13. f >= n /\ f <= NtoaSize /\ f + p <= NtoaSize
  BY <1>6, <1>7, <1>11, <1>12 DEF Filled
<1>14. v = 0 => D = 1
  <2> SUFFICES ASSUME v = 0
               PROVE  D = 1
    OBVIOUS
  <2>1. \A k \in 1 .. D - 1 : Quotients(v, Base(d))[k] # 0
    BY <1>1, <1>2, <1>10, DigitsFacts
  <2>2. Base(d) \in Bases
    BY <1>1, PrefixFacts
  <2>3. Quotients(v, Base(d))[0] = 0
    BY <2>2, QuotientsFacts, SMTT(20)
  <2>4. Quotients(v, Base(d))[1] = 0
    BY <2>2, <2>3, QuotientsStayZero
  <2> QED BY <2>1, <2>4
<1>15. CASE "#" \notin F
  <2>1. Shown(d) = f
    BY <1>5, <1>12, <1>15 DEF Shown
  <2>2. CASE Left(d)
    <3>1. f = n
      BY <1>8, <1>12, <2>2 DEF Filled
    <3>2. c <= IF v = 0 THEN 0 ELSE D
      BY <1>2, <1>4, <1>10, <2>2 DEF Regular
    <3>3. ~Zeros(d)
      BY <2>2 DEF Zeros
    <3>4. n >= Least(d) /\ (n > Least(d) => n = D /\ v # 0)
      BY <1>4, <1>9, <1>11, <1>14, <3>2 DEF Least
    <3> QED BY <1>2, <1>3, <1>4, <1>10, <1>11, <1>12, <1>13, <2>1, <3>1, <3>3, <3>4
  <2>3. CASE ~Left(d) /\ HasPrec(d)
    <3>1. f = IF c > n THEN c ELSE n
      BY <1>8, <1>12, <2>3 DEF Filled
    <3>2. ~Zeros(d) /\ Least(d) = c
      BY <1>4, <2>3 DEF Zeros, Least
    <3>3. f >= c /\ (f > c => f = D /\ v # 0)
      BY <1>11, <2>3, <3>1
    <3> QED BY <1>2, <1>3, <1>4, <1>10, <1>11, <1>12, <1>13, <2>1, <3>2, <3>3
  <2>4. CASE ~Left(d) /\ ~HasPrec(d)
    <3>1. c = 0 /\ n = D /\ Least(d) = 1
      BY <1>9, <1>11, <2>4 DEF Least
    <3>2. f = IF "0" \in F /\ w > D THEN w ELSE D
      BY <1>8, <1>12, <2>4, <3>1 DEF Filled
    <3>3. Zeros(d) <=> "0" \in F
      BY <1>7, <1>8, <2>4
    <3>4. f >= 1 /\ (f > 1 => (f = D /\ v # 0) \/ (Zeros(d) /\ f + p = W))
      BY <1>7, <1>14, <1>15, <3>2, <3>3
    <3>5. Zeros(d) => f + p >= W
      BY <1>7, <3>2, <3>3
    <3> QED BY <1>2, <1>3, <1>4, <1>10, <1>11, <1>12, <1>13, <2>1, <3>1, <3>4, <3>5
  <2> QED BY <2>2, <2>3, <2>4
<1>16. CASE "#" \in F
  <2>1. /\ v # 0 /\ n = D /\ w = W /\ Base(d) \in {2, 8, 16}
        /\ p = IF Base(d) = 8 THEN 1 ELSE 2
    <3>1. Base(d) \in Bases /\ Prefix(d) = HashText(Base(d), F) /\ w = W
      BY <1>1, <1>4, <1>5, <1>16, PrefixFacts
    <3>2. Len(HashText(Base(d), F)) = IF Base(d) \in {2, 16} THEN 2 ELSE 1
      BY <3>1, HashTextFacts
    <3> QED BY <1>3, <1>8, <1>10, <1>11, <1>16, <3>1, <3>2 DEF Bases
  <2>2. PICK x \in {0, 1, 2} :
          /\ x = Dropped(f, Base(d), c, w, F)
          /\ x = IF ~HasPrec(d) /\ f > 0 /\ f \in {c, W}
                 THEN IF f > 1 /\ Base(d) = 16 THEN 2 ELSE 1
                 ELSE 0
    BY <1>8, <2>1 DEF Dropped
  <2>3. Shown(d) = f - x
    BY <1>4, <1>5, <1>12, <1>16, <2>2 DEF Shown, Uncovered
  <2>4. CASE HasPrec(d)
    <3>1. x = 0 /\ ~Zeros(d) /\ Least(d) = c
      BY <1>4, <2>2, <2>4 DEF Zeros, Least
    <3>2. Left(d) => c <= D
      BY <1>2, <1>4, <1>10, <2>1 DEF Regular
    <3>3. f = IF ~Left(d) /\ c > n THEN c ELSE n
      BY <1>8, <1>12, <2>4 DEF Filled
    <3>4. f >= c /\ (f > c => f = D)
      BY <2>1, <3>2, <3>3
    <3>5. Shown(d) = f
      BY <2>3, <3>1
    <3> QED BY <1>2, <1>3, <1>10, <1>11, <1>12, <1>13, <2>1, <3>1, <3>4, <3>5
  <2>5. CASE ~HasPrec(d)
    <3>1. c = 0 /\ Least(d) = 1
      BY <1>9, <2>5 DEF Least
    <3>2. f = IF Zeros(d) /\ W > D THEN W ELSE D
      BY <1>7, <1>8, <1>12, <2>1, <2>5, <3>1 DEF Filled
    <3>3. Prefix(d) # <<>>
      <4>1. Len(<<>>) = 0 /\ p # 0
        BY <2>1
      <4> QED BY <1>3, <4>1
    <3>4. IF Zeros(d) THEN Base(d) # 2 /\ W \notin D .. D + p - 1 ELSE W # D
      BY <1>2, <1>3, <1>4, <2>5, <3>3 DEF Regular, HashFits, Zeros
    <3>5. CASE f # W
      <4>1. x = 0 /\ f = D
        BY <1>13, <2>2, <3>1, <3>2, <3>5
      <4>2. Zeros(d) => f + p >= W
        BY <3>2, <4>1
      <4>3. Shown(d) = f
        BY <2>3, <4>1
      <4> QED BY <1>2, <1>3, <1>4, <1>10, <1>11, <1>12, <1>13, <2>1, <3>1, <4>1, <4>2, <4>3
    <3>6. CASE f = W
      <4>1. Zeros(d) /\ W >= D + p /\ Base(d) \in {8, 16}
        BY <2>1, <3>2, <3>4, <3>6
      <4>2. x = p
        BY <2>1, <2>2, <2>5, <3>6, <4>1
      <4>3. f - x \in Nat /\ f - x >= D /\ (f - x) + p = W
        BY <3>6, <4>1, <4>2
      <4>4. PICK k \in Nat : k = Shown(d) /\ k >= D /\ k + p = W /\ k <= f
        BY <2>2, <2>3, <4>3
      <4>5. n = D /\ k + p <= NtoaSize /\ k >= 1 /\ Zeros(d)
        BY <1>6, <1>13, <2>1, <4>1, <4>4
      <4> QED BY <1>3, <1>4, <1>11, <1>12, <1>13, <3>1, <4>4, <4>5
    <3> QED BY <3>5, <3>6
  <2> QED BY <2>4, <2>5
<1> QED BY <1>15, <1>16

----------------------------------------------------------------------------
(* An integer, as it is written.                                           *)
Figures(d) == Numeral(Size(d), Base(d), FlagsOf(d), Shown(d))

LEMMA ReverseShort ==
  ASSUME NEW s, IsText(s), Len(s) \in {0, 1}
  PROVE  Reverse(s) = s
<1>1. IsText(Reverse(s)) /\ Len(Reverse(s)) = Len(s)
      /\ \A i \in 1 .. Len(s) : Reverse(s)[i] = s[Len(s) - i + 1]
  BY ReverseFacts
<1>2. ASSUME NEW i \in 1 .. Len(s)
      PROVE  Reverse(s)[i] = s[i]
  <2>1. PICK n \in {0, 1} : n = Len(s)
    OBVIOUS
  <2>2. i \in 1 .. n
    BY <1>2, <2>1
  <2>3. i = 1 /\ n - i + 1 = i
    BY <2>2
  <2> QED BY <1>1, <1>2, <2>1, <2>3
<1> QED BY <1>1, <1>2, SameText

(* The buffer holds the digits and the prefix, the last character first.   *)
LEMMA NumberInBuffer ==
  ASSUME NEW d \in Directives, d.spec \in IntSpecs, Regular(d)
  PROVE  /\ Ntoa(Magnitude(d), d.spec \in SignedSpecs /\ Argument(d) < 0,
                 Base(d), Precision(d), Width(d), IntegerFlags(d))
              = OutRev(Figures(d) \o Reverse(Prefix(d)), Room(d), FlagsOf(d))
         /\ Quotients(Size(d), Base(d))[Shown(d)] = 0
<1>1. d.spec \in SignedSpecs => d.len # "hh"
  BY DEF Regular
<1>2. PICK v \in Nat : v = Size(d) /\ Magnitude(d) = v
  BY <1>1, MagnitudeIsSize
<1>3. PICK base \in Bases : base = Base(d)
  BY <1>1, PrefixFacts
<1>4. PICK F : F = FlagsOf(d)
  OBVIOUS
<1>5. PICK c \in Nat, w \in Nat : c = Precision(d) /\ w = Room(d)
  BY <1>1, DirectiveFacts, RoomFacts
<1>6. PICK n \in Nat : n = DigitsAtFirst(d)
  BY ShownFacts
<1>7. PICK f \in Nat : f = Padded(d) /\ f = Filled(n, c, w, F) /\ f <= NtoaSize
  BY <1>4, <1>5, <1>6, ShownFacts DEF Padded
<1>8. PICK k \in Nat : k = Shown(d) /\ k >= n /\ k + Len(Prefix(d)) <= NtoaSize
  BY <1>6, ShownFacts
<1>9. (d.spec \in SignedSpecs /\ Argument(d) < 0) = Negative(d)
  BY <1>1, ArgumentIsValue DEF Negative
<1> DEFINE padded == LeadingZeros(NtoaDigits(v, base, F), c, w, F)
           hashed == Hash(padded, base, c, w, F)
<1>10. Ntoa(Magnitude(d), d.spec \in SignedSpecs /\ Argument(d) < 0,
            Base(d), Precision(d), Width(d), IntegerFlags(d))
         = OutRev(Push(hashed, SignOf(Negative(d), F)), w, F)
  BY <1>2, <1>3, <1>4, <1>5, <1>9 DEF Ntoa, NtoaFormat, FlagsOf, Room
<1>11. NtoaDigits(v, base, F) = Numeral(v, base, F, n) /\ Quotients(v, base)[n] = 0
  <2>1. PICK D \in Nat \ {0} : D = Digits(d)
    BY <1>1, DigitsFacts
  <2>2. Quotients(v, base)[D] = 0 /\ \A j \in 1 .. D - 1 : Quotients(v, base)[j] # 0
    BY <1>1, <1>2, <1>3, <2>1, DigitsFacts
  <2>3. D \in 1 .. NtoaSize
    <3>1. D + Len(Prefix(d)) <= NtoaSize /\ NtoaSize \in Nat /\ Len(Prefix(d)) \in Nat
      BY <1>1, <2>1, FitsFacts, RoomFacts
    <3> QED BY <3>1
  <2>4. n = IF "." \in F /\ v = 0 THEN 0 ELSE D
    BY <1>2, <1>4, <1>6, <2>1 DEF DigitsAtFirst
  <2>5. NtoaDigits(v, base, F) = Numeral(v, base, F, IF "." \in F /\ v = 0 THEN 0 ELSE D)
    BY <2>2, <2>3, DigitsAreNumeral
  <2>6. Quotients(v, base)[0] = v
    BY QuotientsFacts
  <2> QED BY <2>2, <2>4, <2>5, <2>6
<1>12. padded = Numeral(v, base, F, f)
  BY <1>7, <1>11, ZerosAreNumeral
<1>13. Quotients(v, base)[k] = 0
  BY <1>8, <1>11, QuotientsStayZero
<1>14. PICK e : e = Numeral(v, base, F, k) /\ IsText(e) /\ Len(e) = k
  BY NumeralIsText
<1>15. PICK p : p = Prefix(d) /\ IsText(p) /\ Len(p) \in Nat
  BY <1>1, PrefixFacts, TextFacts
<1>16. IsText(Reverse(p)) /\ Len(Reverse(p)) = Len(p)
  BY <1>15, ReverseFacts
<1>17. CASE "#" \in F
  <2>1. p = HashText(base, F) /\ SignOf(Negative(d), F) = <<>>
    BY <1>1, <1>3, <1>4, <1>15, <1>17, PrefixFacts
  <2>2. k = Uncovered(f, base, c, w, F)
    BY <1>3, <1>4, <1>5, <1>7, <1>8, <1>17 DEF Shown
  <2>3. hashed = e \o Reverse(p)
    <3>1. k + Len(HashText(base, F)) <= NtoaSize
      BY <1>8, <1>15, <2>1
    <3>2. Hash(Numeral(v, base, F, f), base, c, w, F)
            = Numeral(v, base, F, k) \o Reverse(HashText(base, F))
      <4>1. /\ base \in Bases /\ v \in Nat /\ "#" \in F /\ f \in Nat /\ c \in Nat
            /\ w \in Nat /\ k \in Nat
        BY <1>17
      <4> HIDE DEF padded, hashed
      <4>2. Prefixed(v, base, F, f, c, w, k)
        BY <2>2, <3>1, <4>1, HashNumeral
      <4> QED BY <4>2 DEF Prefixed
    <3> HIDE DEF padded
    <3> QED BY <1>12, <1>14, <2>1, <3>2
  <2>4. Push(e \o Reverse(p), <<>>) = e \o Reverse(p)
    <3>1. IsText(e \o Reverse(p)) /\ Len(e \o Reverse(p)) = k + Len(p)
      BY <1>14, <1>16, ConcatFacts
    <3>2. IsText(<<>>) /\ Len(<<>>) = 0
      BY ShortTexts
    <3>3. Len(e \o Reverse(p)) + Len(<<>>) <= NtoaSize
      BY <1>8, <1>15, <3>1, <3>2
    <3>4. Push(e \o Reverse(p), <<>>) = (e \o Reverse(p)) \o <<>>
      BY <3>1, <3>2, <3>3, PushFits
    <3> QED BY <3>1, <3>4, ConcatEmpty
  <2> HIDE DEF padded, hashed
  <2> QED BY <1>2, <1>3, <1>4, <1>5, <1>8, <1>10, <1>13, <1>14, <1>15, <2>1, <2>3, <2>4
          DEF Figures
<1>18. CASE "#" \notin F
  <2>1. p = SignOf(Negative(d), F) /\ Len(p) \in {0, 1}
    BY <1>1, <1>4, <1>15, <1>18, PrefixFacts
  <2>2. Reverse(p) = p
    BY <1>15, <2>1, ReverseShort
  <2>3. k = f
    BY <1>4, <1>7, <1>8, <1>18 DEF Shown
  <2>4. hashed = e
    <3>1. hashed = padded
      BY <1>18 DEF Hash
    <3> HIDE DEF hashed, padded
    <3> QED BY <1>12, <1>14, <2>3, <3>1
  <2>5. Push(e, p) = e \o p
    <3>1. Len(e) + Len(p) <= NtoaSize
      BY <1>8, <1>14, <1>15
    <3> QED BY <1>14, <1>15, <3>1, PushFits
  <2> HIDE DEF padded, hashed
  <2> QED BY <1>2, <1>3, <1>4, <1>5, <1>8, <1>10, <1>13, <1>14, <1>15, <2>1, <2>2, <2>4, <2>5
          DEF Figures
<1> QED BY <1>17, <1>18

(* _out_rev: spaces, the buffer backwards, spaces.                         *)
LEMMA OutRevFacts ==
  ASSUME NEW buf, IsText(buf), NEW width \in Nat, NEW flags
  PROVE  \E lead, trail \in Nat :
           /\ OutRev(buf, width, flags)
                = (Times(lead, " ") \o Reverse(buf)) \o Times(trail, " ")
           /\ lead = IF "-" \notin flags /\ "0" \notin flags /\ width > Len(buf)
                     THEN width - Len(buf) ELSE 0
           /\ trail = IF "-" \in flags /\ width > Len(buf) THEN width - Len(buf) ELSE 0
<1>1. PICK n \in Nat : n = Len(buf)
  BY TextFacts
<1>2. PICK r \in Nat : r = IF width > n THEN width - n ELSE 0
  <2>1. (IF width > n THEN width - n ELSE 0) \in Nat
    OBVIOUS
  <2> QED BY <2>1
<1>3. r = Max({width - Len(buf), 0})
  <2>1. width - n \in Int
    OBVIOUS
  <2>2. Max({width - n, 0}) = IF width - n >= 0 THEN width - n ELSE 0
    BY <2>1, MinMax
  <2> QED BY <1>1, <1>2, <2>2
<1>4. PICK lead \in Nat : lead = IF "-" \notin flags /\ "0" \notin flags THEN r ELSE 0
  <2>1. CASE "-" \notin flags /\ "0" \notin flags
    BY <2>1
  <2>2. CASE ~("-" \notin flags /\ "0" \notin flags)
    BY <2>2
  <2> QED BY <2>1, <2>2
<1>5. PICK trail \in Nat : trail = IF "-" \in flags THEN r ELSE 0
  OBVIOUS
<1>6. Times(0, " ") = <<>>
  BY DEF Times
<1>7. /\ Opt("-" \notin flags /\ "0" \notin flags, Times(r, " ")) = Times(lead, " ")
      /\ Opt("-" \in flags, Times(r, " ")) = Times(trail, " ")
  BY <1>4, <1>5, <1>6 DEF Opt
<1>8. OutRev(buf, width, flags) = (Times(lead, " ") \o Reverse(buf)) \o Times(trail, " ")
  BY <1>3, <1>7 DEF OutRev
<1> QED BY <1>1, <1>2, <1>4, <1>5, <1>8

LEMMA MiddlePart ==
  ASSUME NEW r, IsText(r), NEW s, IsText(s), NEW t, IsText(t)
  PROVE  /\ Len((r \o s) \o t) = Len(r) + Len(s) + Len(t)
         /\ SubSeq((r \o s) \o t, Len(r) + 1, Len((r \o s) \o t) - Len(t)) = s
<1>1. PICK u : u = (r \o s) \o t
  OBVIOUS
<1>2. PICK a \in Nat, b \in Nat, c \in Nat : a = Len(r) /\ b = Len(s) /\ c = Len(t)
  BY TextFacts
<1>3. PICK x : x = r \o s
  OBVIOUS
<1>4. /\ IsText(x) /\ Len(x) = a + b
      /\ \A i \in 1 .. b : x[a + i] = s[i]
  BY <1>2, <1>3, ConcatFacts
<1>5. /\ IsText(u) /\ Len(u) = a + b + c
      /\ \A i \in 1 .. a + b : u[i] = x[i]
  <2>1. IsText(x)
    BY <1>4
  <2>2. /\ IsText(x \o t) /\ Len(x \o t) = Len(x) + Len(t)
        /\ \A i \in 1 .. Len(x) : (x \o t)[i] = x[i]
    BY <2>1, ConcatFacts
  <2> QED BY <1>1, <1>2, <1>3, <1>4, <2>2
<1>6. PICK e : e = SubSeq(u, a + 1, a + b)
  OBVIOUS
<1>7. /\ IsText(e) /\ Len(e) = b
      /\ \A i \in 1 .. b : e[i] = u[a + i]
  <2>1. PICK m \in Nat \ {0} : m = a + 1
    OBVIOUS
  <2>2. PICK n \in Nat : n = a + b
    OBVIOUS
  <2>3. m <= n + 1 /\ n <= Len(u)
    BY <1>5, <2>1, <2>2
  <2>4. /\ IsText(SubSeq(u, m, n)) /\ Len(SubSeq(u, m, n)) = n + 1 - m
        /\ \A i \in 1 .. n + 1 - m : SubSeq(u, m, n)[i] = u[m + i - 1]
    BY <1>5, <2>3, SliceFacts
  <2>5. n + 1 - m = b /\ \A i \in 1 .. b : m + i - 1 = a + i
    BY <2>1, <2>2
  <2> QED BY <1>6, <2>1, <2>2, <2>4, <2>5
<1>8. ASSUME NEW i \in 1 .. b
      PROVE  e[i] = s[i]
  <2>1. a + i \in 1 .. a + b
    OBVIOUS
  <2> QED BY <1>4, <1>5, <1>7, <2>1
<1>9. e = s
  BY <1>2, <1>7, <1>8, SameText
<1>10. Len(u) - c = a + b
  BY <1>5
<1> QED BY <1>1, <1>2, <1>5, <1>6, <1>9, <1>10

LEMMA ReverseTwice ==
  ASSUME NEW s, IsText(s)
  PROVE  Reverse(Reverse(s)) = s
<1>1. PICK n \in Nat : n = Len(s)
  BY TextFacts
<1>2. PICK r : r = Reverse(s)
  OBVIOUS
<1>3. /\ IsText(r) /\ Len(r) = n /\ \A i \in 1 .. n : r[i] = s[n - i + 1]
  BY <1>1, <1>2, ReverseFacts
<1>4. PICK u : u = Reverse(r)
  OBVIOUS
<1>5. /\ IsText(u) /\ Len(u) = n /\ \A i \in 1 .. n : u[i] = r[n - i + 1]
  <2>1. /\ IsText(Reverse(r)) /\ Len(Reverse(r)) = Len(r)
        /\ \A i \in 1 .. Len(r) : Reverse(r)[i] = r[Len(r) - i + 1]
    BY <1>3, ReverseFacts
  <2> QED BY <1>3, <1>4, <2>1
<1>6. ASSUME NEW i \in 1 .. n
      PROVE  u[i] = s[i]
  <2>1. n - i + 1 \in 1 .. n /\ n - (n - i + 1) + 1 = i
    OBVIOUS
  <2> QED BY <1>3, <1>5, <2>1
<1> QED BY <1>1, <1>2, <1>4, <1>5, <1>6, SameText

LEMMA TimesLength ==
  ASSUME NEW n \in Nat, NEW c
  PROVE  Len(Times(n, c)) = n
BY DEF Times

LEMMA AlphabetsAreTexts ==
  IsText(Lower) /\ Len(Lower) = 16 /\ IsText(Upper) /\ Len(Upper) = 16
<1>1. Len(Lower) = 16 /\ Len(Upper) = 16
  BY DEF Lower, Upper
<1>2. ASSUME NEW s, s = [i \in 1 .. 16 |-> s[i]]
      PROVE  s \in Seq({s[i] : i \in 1 .. 16})
  <2>1. [i \in 1 .. 16 |-> s[i]] \in Seq({s[i] : i \in 1 .. 16})
    OBVIOUS
  <2> QED BY <1>2, <2>1, Zenon
<1>3. Lower = [i \in 1 .. 16 |-> Lower[i]]
  BY DEF Lower
<1>4. Upper = [i \in 1 .. 16 |-> Upper[i]]
  BY DEF Upper
<1>5. IsText(Lower) /\ IsText(Upper)
  BY <1>2, <1>3, <1>4, Zenon DEF IsText
<1> QED BY <1>1, <1>5

(* The characters between the prefix and the spaces.                       *)
LEMMA FiguresFacts ==
  ASSUME NEW d \in Directives, d.spec \in IntSpecs, Regular(d)
  PROVE  /\ IsText(Reverse(Figures(d))) /\ Len(Reverse(Figures(d))) = Shown(d)
         /\ Shown(d) \in Nat
         /\ NumberOf(Reverse(Figures(d)), Base(d)) = Size(d)
         /\ ToSet(Reverse(Figures(d)))
              \subseteq ToSet(SubSeq(IF d.spec = "X" THEN Upper ELSE Lower, 1, Base(d)))
         /\ Shown(d) = Digits(d) /\ Size(d) # 0 => Reverse(Figures(d))[1] # "0"
<1>1. d.spec \in SignedSpecs => d.len # "hh"
  BY DEF Regular
<1>2. PICK v \in Nat : v = Size(d)
  BY <1>1, MagnitudeIsSize
<1>3. PICK base \in Bases : base = Base(d)
  BY <1>1, PrefixFacts
<1>4. PICK F : F = FlagsOf(d)
  OBVIOUS
<1>5. PICK k \in Nat : k = Shown(d)
  BY ShownFacts
<1>6. PICK e : e = Numeral(v, base, F, k)
  OBVIOUS
<1>7. e = Figures(d)
  BY <1>2, <1>3, <1>4, <1>5, <1>6 DEF Figures
<1>8. IsText(e) /\ Len(e) = k
  BY <1>6, NumeralIsText
<1>9. PICK s : s = Reverse(e)
  OBVIOUS
<1>10. IsText(s) /\ Len(s) = k /\ \A i \in 1 .. k : s[i] = e[k - i + 1]
  BY <1>8, <1>9, ReverseFacts
<1>11. PICK q : q = Quotients(v, base)
  OBVIOUS
<1>12. q[k] = 0
  BY <1>2, <1>3, <1>5, <1>11, NumberInBuffer
<1>13. NumberOf(s, base) = v
  BY <1>6, <1>9, <1>11, <1>12, NumeralIsNumber
<1>14. ASSUME NEW i \in 1 .. k
       PROVE  s[i] \in ToSet(SubSeq(Alphabet(F), 1, base))
  <2>1. PICK j \in 1 .. k : j = k - i + 1
    OBVIOUS
  <2>2. PICK r \in 0 .. 15 : r = q[j - 1] % base /\ r < base /\ e[j] = Alphabet(F)[r + 1]
    <3>1. /\ Quotients(v, base)[j - 1] % base \in 0 .. 15
          /\ Quotients(v, base)[j - 1] % base < base
          /\ Numeral(v, base, F, k)[j]
               = Alphabet(F)[(Quotients(v, base)[j - 1] % base) + 1]
      BY NumeralFacts
    <3> QED BY <1>6, <1>11, <3>1
  <2>3. PICK a : a = Alphabet(F)
    OBVIOUS
  <2>4. IsText(a) /\ Len(a) = 16
    <3> QED BY <2>3, AlphabetsAreTexts DEF Alphabet
  <2>5. PICK u : u = SubSeq(a, 1, base)
    OBVIOUS
  <2>6. base \in Nat /\ 1 <= base + 1 /\ base <= 16
    BY DEF Bases
  <2>7. /\ IsText(SubSeq(a, 1, base)) /\ Len(SubSeq(a, 1, base)) = base + 1 - 1
        /\ \A h \in 1 .. base + 1 - 1 : SubSeq(a, 1, base)[h] = a[1 + h - 1]
    <3>1. PICK x \in Nat \ {0}, y \in Nat : x = 1 /\ y = base
      BY <2>6
    <3>2. IsText(a) /\ x <= y + 1 /\ y <= Len(a)
      BY <2>4, <2>6, <3>1
    <3>3. /\ IsText(SubSeq(a, x, y)) /\ Len(SubSeq(a, x, y)) = y + 1 - x
          /\ \A h \in 1 .. y + 1 - x : SubSeq(a, x, y)[h] = a[x + h - 1]
      BY <3>2, SliceFacts
    <3> QED BY <3>1, <3>3
  <2>8. r + 1 \in 1 .. base /\ base + 1 - 1 = base /\ 1 + (r + 1) - 1 = r + 1
    BY <2>2, <2>6
  <2>9. u[r + 1] = a[r + 1] /\ IsText(u) /\ Len(u) = base
    BY <2>5, <2>7, <2>8
  <2>10. \E C : u \in Seq(C)
    BY <2>9 DEF IsText
  <2>11. r + 1 \in DOMAIN u
    BY <2>8, <2>9, <2>10
  <2>12. u[r + 1] \in ToSet(u)
    BY <2>11 DEF ToSet
  <2> QED BY <1>10, <2>1, <2>2, <2>3, <2>5, <2>9, <2>12
<1>15. Alphabet(F) = IF d.spec = "X" THEN Upper ELSE Lower
  BY <1>4, FlagFacts DEF Alphabet
<1>16. ToSet(s) \subseteq ToSet(SubSeq(Alphabet(F), 1, base))
  <2>1. PICK C : s \in Seq(C)
    BY <1>10 DEF IsText
  <2>2. DOMAIN s = 1 .. k
    BY <1>10, <2>1
  <2> QED BY <1>14, <2>2 DEF ToSet
<1>17. ASSUME k = Digits(d), v # 0
       PROVE  s[1] # "0"
  <2>1. k \in Nat \ {0} /\ \A j \in 1 .. k - 1 : q[j] # 0
    BY <1>1, <1>2, <1>3, <1>11, <1>17, DigitsFacts
  <2>2. q[0] = v
    BY <1>11, QuotientsFacts
  <2>3. q[k - 1] # 0
    <3>1. CASE k = 1
      BY <1>17, <2>2, <3>1
    <3>2. CASE k # 1
      <4>1. k - 1 \in 1 .. k - 1
        BY <2>1, <3>2
      <4> QED BY <2>1, <4>1
    <3> QED BY <3>1, <3>2
  <2>4. k \in 1 .. k
    BY <2>1
  <2>5. e[k] # "0"
    BY <1>6, <1>11, <1>12, <2>3, <2>4, NumeralZeros
  <2>6. s[1] = e[k]
    <3>1. 1 \in 1 .. k /\ k - 1 + 1 = k
      BY <2>1
    <3> QED BY <1>10, <3>1
  <2> QED BY <2>5, <2>6
<1> QED BY <1>2, <1>3, <1>5, <1>7, <1>9, <1>10, <1>13, <1>15, <1>16, <1>17

(* How the directive is filled up on the left and on the right.            *)
LEMMA FillingFacts ==
  ASSUME NEW d \in Directives, d.spec \in IntSpecs, Regular(d),
         NEW n \in Nat, n = Shown(d) + Len(Prefix(d)),
         NEW lead \in Nat,
         lead = IF "-" \notin FlagsOf(d) /\ "0" \notin FlagsOf(d) /\ Room(d) > n
                THEN Room(d) - n ELSE 0,
         NEW trail \in Nat,
         trail = IF "-" \in FlagsOf(d) /\ Room(d) > n THEN Room(d) - n ELSE 0,
         NEW len \in Nat, len = lead + n + trail
  PROVE  /\ IF Left(d) THEN lead = 0 ELSE trail = 0
         /\ len >= Width(d)
         /\ lead + trail > 0 => len = Width(d)
         /\ Zeros(d) => lead = 0 /\ len = n
<1>1. d.spec \in SignedSpecs => d.len # "hh"
  BY DEF Regular
<1>2. PICK w \in Nat, W \in Nat : w = Room(d) /\ W = Width(d)
  BY <1>1, RoomFacts, DirectiveFacts
<1>3. PICK F : F = FlagsOf(d)
  OBVIOUS
<1>4. /\ ~Zeros(d) => w = W
      /\ Zeros(d) <=> "0" \in F /\ "-" \notin F
  BY <1>1, <1>2, <1>3, RoomFacts
<1>5. Zeros(d) => n >= W
  BY <1>2, ShownFacts
<1>6. "-" \in F <=> Left(d)
  BY <1>3, FlagFacts
<1>7. CASE Zeros(d)
  <2>1. lead = 0 /\ trail = 0
    BY <1>3, <1>4, <1>7
  <2> QED BY <1>2, <1>5, <1>7, <2>1
<1>8. CASE ~Zeros(d) /\ Left(d)
  <2>1. lead = 0 /\ trail = IF W > n THEN W - n ELSE 0
    BY <1>2, <1>3, <1>4, <1>6, <1>8
  <2> QED BY <1>2, <1>8, <2>1
<1>9. CASE ~Zeros(d) /\ ~Left(d)
  <2>1. trail = 0 /\ lead = IF W > n THEN W - n ELSE 0
    BY <1>2, <1>3, <1>4, <1>6, <1>9
  <2> QED BY <1>2, <1>9, <2>1
<1> QED BY <1>7, <1>8, <1>9

(* What an integer conversion writes is the integer.                       *)
LEMMA IntegerIsRendered ==
  ASSUME NEW d \in Directives, d.spec \in IntSpecs, Regular(d)
  PROVE  RendersInteger(d, Ntoa(Magnitude(d), d.spec \in SignedSpecs /\ Argument(d) < 0,
                                Base(d), Precision(d), Width(d), IntegerFlags(d)))
<1>1. d.spec \in SignedSpecs => d.len # "hh"
  BY DEF Regular
<1>2. PICK s : s = Ntoa(Magnitude(d), d.spec \in SignedSpecs /\ Argument(d) < 0,
                        Base(d), Precision(d), Width(d), IntegerFlags(d))
  OBVIOUS
<1>3. PICK p : p = Prefix(d) /\ IsText(p)
  BY <1>1, PrefixFacts
<1>4. PICK f : f = Figures(d)
  OBVIOUS
<1>5. IsText(f)
  <2>1. Size(d) \in Nat /\ Base(d) \in Bases /\ Shown(d) \in Nat
    BY <1>1, MagnitudeIsSize, PrefixFacts, ShownFacts
  <2> QED BY <1>4, <2>1, NumeralIsText DEF Figures
<1>6. PICK body : body = Reverse(f)
  OBVIOUS
<1>7. PICK k \in Nat : k = Shown(d)
  BY ShownFacts
<1>8. /\ IsText(body) /\ Len(body) = k
      /\ NumberOf(body, Base(d)) = Size(d)
      /\ ToSet(body) \subseteq ToSet(SubSeq(IF d.spec = "X" THEN Upper ELSE Lower, 1, Base(d)))
      /\ k = Digits(d) /\ Size(d) # 0 => body[1] # "0"
  BY <1>4, <1>6, <1>7, FiguresFacts
<1>9. PICK core : core = p \o body
  OBVIOUS
<1>10. PICK n \in Nat : n = Len(p) + k /\ n = Shown(d) + Len(Prefix(d))
  BY <1>3, <1>7, TextFacts
<1>11. IsText(core) /\ Len(core) = n
  BY <1>3, <1>8, <1>9, <1>10, TextFacts, ConcatFacts
<1>12. PICK buf : buf = f \o Reverse(p)
  OBVIOUS
<1>13. IsText(buf) /\ Len(buf) = n /\ Reverse(buf) = core
  <2>1. PICK r : r = Reverse(p)
    OBVIOUS
  <2>2. IsText(r) /\ Len(r) = Len(p) /\ Reverse(r) = p
    BY <1>3, <2>1, ReverseFacts, ReverseTwice
  <2>3. Len(f) = k
    BY <1>5, <1>6, <1>8, ReverseFacts
  <2>4. IsText(f \o r) /\ Len(f \o r) = Len(f) + Len(r)
    BY <1>5, <2>2, TextFacts, ConcatFacts
  <2>5. Reverse(f \o r) = Reverse(r) \o Reverse(f)
    BY <1>5, <2>2, ReverseConcat
  <2>6. buf = f \o r
    BY <1>12, <2>1
  <2>7. Len(buf) = n
    BY <1>3, <1>10, <2>2, <2>3, <2>4, <2>6, TextFacts
  <2> QED BY <1>6, <1>9, <2>2, <2>4, <2>5, <2>6, <2>7
<1>14. PICK lead \in Nat, trail \in Nat :
         /\ s = (Times(lead, " ") \o core) \o Times(trail, " ")
         /\ lead = IF "-" \notin FlagsOf(d) /\ "0" \notin FlagsOf(d) /\ Room(d) > n
                   THEN Room(d) - n ELSE 0
         /\ trail = IF "-" \in FlagsOf(d) /\ Room(d) > n THEN Room(d) - n ELSE 0
  <2>1. PICK w \in Nat : w = Room(d)
    BY <1>1, RoomFacts
  <2>2. PICK F : F = FlagsOf(d)
    OBVIOUS
  <2>3. s = OutRev(buf, w, F)
    BY <1>2, <1>3, <1>4, <1>12, <2>1, <2>2, NumberInBuffer
  <2>4. \E lead, trail \in Nat :
           /\ OutRev(buf, w, F) = (Times(lead, " ") \o Reverse(buf)) \o Times(trail, " ")
           /\ lead = IF "-" \notin F /\ "0" \notin F /\ w > Len(buf)
                     THEN w - Len(buf) ELSE 0
           /\ trail = IF "-" \in F /\ w > Len(buf) THEN w - Len(buf) ELSE 0
    BY <1>13, OutRevFacts
  <2> QED BY <1>13, <2>1, <2>2, <2>3, <2>4
<1>15. PICK a : a = Times(lead, " ")
  OBVIOUS
<1>16. PICK t : t = Times(trail, " ")
  OBVIOUS
<1>17. IsText(a) /\ Len(a) = lead /\ IsText(t) /\ Len(t) = trail
  BY <1>15, <1>16, TimesIsText, TimesLength
<1>18. PICK len \in Nat : len = lead + n + trail
  OBVIOUS
<1>19. Len(s) = len /\ SubSeq(s, lead + 1, Len(s) - trail) = core
  <2>1. s = (a \o core) \o t
    BY <1>14, <1>15, <1>16
  <2>2. /\ Len((a \o core) \o t) = Len(a) + Len(core) + Len(t)
        /\ SubSeq((a \o core) \o t, Len(a) + 1, Len((a \o core) \o t) - Len(t)) = core
    BY <1>11, <1>17, MiddlePart
  <2> QED BY <1>11, <1>17, <1>18, <2>1, <2>2
<1>20. SubSeq(core, Len(p) + 1, Len(core)) = body /\ IsPrefix(p, core)
  BY <1>3, <1>8, <1>9, BackPart, FrontPart
<1>21. /\ IF Left(d) THEN lead = 0 ELSE trail = 0
       /\ len >= Width(d)
       /\ lead + trail > 0 => len = Width(d)
       /\ Zeros(d) => lead = 0 /\ len = n
  <2>1. /\ n = Shown(d) + Len(Prefix(d))
        /\ lead = IF "-" \notin FlagsOf(d) /\ "0" \notin FlagsOf(d) /\ Room(d) > n
                  THEN Room(d) - n ELSE 0
        /\ trail = IF "-" \in FlagsOf(d) /\ Room(d) > n THEN Room(d) - n ELSE 0
        /\ len = lead + n + trail
    BY <1>10, <1>14, <1>18
  <2> QED BY <2>1, FillingFacts
<1>22. /\ k >= Least(d)
       /\ k > Least(d) => \/ k = Digits(d) /\ Size(d) # 0
                          \/ Zeros(d) /\ n = Width(d)
  BY <1>7, <1>10, ShownFacts
<1>23. lead \in 0 .. Len(s) /\ trail \in 0 .. Len(s) /\ lead + trail <= Len(s)
  BY <1>18, <1>19
<1> DEFINE Parts(l, r) ==
      LET zeros == "0" \in d.flags /\ ~Left(d) /\ ~HasPrec(d)
          c     == SubSeq(s, l + 1, Len(s) - r)
          b     == SubSeq(c, Len(Prefix(d)) + 1, Len(c))
          least == IF HasPrec(d) THEN Precision(d) ELSE 1
      IN  /\ l + r <= Len(s)
          /\ IF Left(d) THEN l = 0 ELSE r = 0
          /\ s = Times(l, " ") \o c \o Times(r, " ")
          /\ IsPrefix(Prefix(d), c)
          /\ ToSet(b) \subseteq ToSet(SubSeq(IF d.spec = "X" THEN Upper ELSE Lower,
                                             1, Base(d)))
          /\ NumberOf(b, Base(d)) = Size(d)
          /\ Len(b) >= least
          /\ Len(b) > least => b[1] # "0" \/ (zeros /\ Len(s) = Width(d))
          /\ Len(s) >= Width(d)
          /\ l + r > 0 => Len(s) = Width(d)
          /\ zeros => l = 0
<1>24. Parts(lead, trail)
  <2>1. SubSeq(s, lead + 1, Len(s) - trail) = core
    BY <1>19
  <2>2. SubSeq(core, Len(Prefix(d)) + 1, Len(core)) = body
    BY <1>3, <1>20
  <2>3. s = Times(lead, " ") \o core \o Times(trail, " ") /\ IsPrefix(Prefix(d), core)
    BY <1>3, <1>14, <1>20
  <2>4. Len(body) > Least(d) => body[1] # "0" \/ (Zeros(d) /\ Len(s) = Width(d))
    BY <1>8, <1>19, <1>21, <1>22
  <2>5. /\ Len(body) >= Least(d) /\ Len(s) >= Width(d)
        /\ lead + trail > 0 => Len(s) = Width(d)
        /\ Zeros(d) => lead = 0
    BY <1>8, <1>19, <1>21, <1>22
  <2> QED BY <1>8, <1>21, <1>23, <2>1, <2>2, <2>3, <2>4, <2>5, Zenon DEF Zeros, Least
<1>25. RendersInteger(d, s) <=> \E l, r \in 0 .. Len(s) : Parts(l, r)
  BY DEF RendersInteger
<1> HIDE DEF Parts
<1> QED BY <1>2, <1>23, <1>24, <1>25

----------------------------------------------------------------------------
(* Strings and characters.                                                 *)
LEMMA StringPartFacts ==
  ASSUME NEW d \in Directives, HasPrec(d) => d.prec[1] >= 0
  PROVE  StringPart(d) = IF HasPrec(d) /\ d.prec[1] < Len(d.text)
                         THEN SubSeq(d.text, 1, d.prec[1]) ELSE d.text
<1>1. IsText(d.text) /\ Len(d.text) \in Nat
  BY DirectiveFacts, TextFacts
<1>2. SubSeq(d.text, 1, Len(d.text)) = d.text
  <2>1. PICK C : d.text \in Seq(C)
    BY <1>1 DEF IsText
  <2> QED BY <2>1
<1>3. CASE HasPrec(d)
  <2>1. PICK c \in Nat : c = d.prec[1] /\ c = Precision(d)
    <3>1. d.prec[1] \in Nat /\ d.prec[1] >= 0
      BY <1>3, DirectiveFacts
    <3> QED BY <1>3, <3>1 DEF Precision
  <2>2. PICK k \in Nat : k = Len(d.text)
    BY <1>1
  <2>3. Min({k, c}) = IF k <= c THEN k ELSE c
    <3>1. k \in Int /\ c \in Int
      OBVIOUS
    <3> QED BY <3>1, MinMax, Zenon
  <2>4. StringPart(d) = SubSeq(d.text, 1, Min({k, c}))
    BY <1>3, <2>1, <2>2 DEF StringPart
  <2>5. StringPart(d) = IF c < k THEN SubSeq(d.text, 1, c) ELSE d.text
    <3>1. CASE c < k
      <4>1. Min({k, c}) = c
        BY <2>3, <3>1
      <4> QED BY <2>4, <3>1, <4>1
    <3>2. CASE ~(c < k)
      <4>1. Min({k, c}) = k
        BY <2>3, <3>2
      <4> QED BY <1>2, <2>2, <2>4, <3>2, <4>1
    <3> QED BY <3>1, <3>2
  <2> QED BY <1>3, <2>1, <2>2, <2>5
<1>4. CASE ~HasPrec(d)
  BY <1>4 DEF StringPart
<1> QED BY <1>3, <1>4

LEMMA FieldFacts ==
  ASSUME NEW body, IsText(body), NEW d \in Directives, NEW s, s = Field(body, d)
  PROVE  /\ IsText(s)
         /\ Len(s) - Len(body) > 0 => Len(s) = Width(d)
         /\ Len(s) >= Width(d)
         /\ IF Left(d) THEN IsPrefix(body, s) ELSE IsSuffix(body, s)
         /\ \A i \in 1 .. Len(s) :
              s[i] = " " \/ IF Left(d) THEN i <= Len(body) ELSE i > Len(s) - Len(body)
<1>1. PICK W \in Nat : W = Width(d)
  BY DirectiveFacts
<1>2. PICK k \in Nat : k = Len(body)
  BY TextFacts
<1>3. PICK r \in Nat : r = Max({W - k, 0}) /\ r = IF W >= k THEN W - k ELSE 0
  <2>1. W - k \in Int
    OBVIOUS
  <2>2. Max({W - k, 0}) = IF W - k >= 0 THEN W - k ELSE 0
    BY <2>1, MinMax
  <2> QED BY <2>2
<1>4. PICK room : room = Times(r, " ")
  OBVIOUS
<1>5. IsText(room) /\ Len(room) = r /\ \A i \in 1 .. r : room[i] = " "
  BY <1>4, TimesIsText, TimesLength DEF Times
<1>6. s = IF Left(d) THEN body \o room ELSE room \o body
  BY <1>1, <1>2, <1>3, <1>4 DEF Field
<1>7. PICK m \in Nat : m = k + r
  OBVIOUS
<1>8. CASE Left(d)
  <2>1. s = body \o room
    BY <1>6, <1>8
  <2>2. IsText(s) /\ Len(s) = m /\ \A i \in 1 .. r : s[k + i] = room[i]
    <3>1. /\ IsText(body \o room) /\ Len(body \o room) = Len(body) + Len(room)
          /\ \A i \in 1 .. Len(room) : (body \o room)[Len(body) + i] = room[i]
      <4>1. IsText(body) /\ IsText(room)
        BY <1>5
      <4> QED BY <4>1, TextFacts, ConcatFacts
    <3> QED BY <1>2, <1>5, <1>7, <2>1, <3>1
  <2>3. IsPrefix(body, s)
    <3>1. IsText(body) /\ IsText(room)
      BY <1>5
    <3> QED BY <2>1, <3>1, FrontPart
  <2>4. ASSUME NEW i \in 1 .. m
        PROVE  s[i] = " " \/ i <= k
    <3>1. CASE i > k
      <4>1. i - k \in 1 .. r /\ k + (i - k) = i
        BY <1>7, <3>1
      <4>2. s[i] = room[i - k]
        BY <2>2, <4>1
      <4> QED BY <1>5, <4>1, <4>2
    <3>2. i > k \/ i <= k
      OBVIOUS
    <3> QED BY <3>1, <3>2, Zenon
  <2>5. m >= W /\ (m - k > 0 => m = W)
    BY <1>3, <1>7
  <2> QED BY <1>1, <1>2, <1>8, <2>2, <2>3, <2>4, <2>5
<1>9. CASE ~Left(d)
  <2>1. s = room \o body
    BY <1>6, <1>9
  <2>2. IsText(s) /\ Len(s) = m /\ \A i \in 1 .. r : s[i] = room[i]
    <3>1. /\ IsText(room \o body) /\ Len(room \o body) = Len(room) + Len(body)
          /\ \A i \in 1 .. Len(room) : (room \o body)[i] = room[i]
      <4>1. IsText(body) /\ IsText(room)
        BY <1>5
      <4> QED BY <4>1, TextFacts, ConcatFacts
    <3>2. r + k = m
      BY <1>7
    <3> QED BY <1>2, <1>5, <2>1, <3>1, <3>2
  <2>3. IsSuffix(body, s)
    <3>1. PICK x : x = Reverse(body)
      OBVIOUS
    <3>2. PICK y : y = Reverse(room)
      OBVIOUS
    <3>3. IsText(body) /\ IsText(room) /\ IsText(x) /\ IsText(y)
      BY <1>5, <3>1, <3>2, ReverseFacts
    <3>4. Reverse(room \o body) = Reverse(body) \o Reverse(room)
      BY <3>3, ReverseConcat
    <3>5. IsPrefix(x, x \o y)
      BY <3>3, FrontPart
    <3> QED BY <2>1, <3>1, <3>2, <3>4, <3>5 DEF IsSuffix
  <2>4. ASSUME NEW i \in 1 .. m
        PROVE  s[i] = " " \/ i > m - k
    <3>1. CASE i <= r
      <4>1. i \in 1 .. r
        BY <3>1
      <4> QED BY <1>5, <2>2, <4>1
    <3>2. CASE i > r
      <4>1. m - k = r
        BY <1>7
      <4> QED BY <3>2, <4>1
    <3>3. i <= r \/ i > r
      OBVIOUS
    <3> QED BY <3>1, <3>2, <3>3, Zenon
  <2>5. m >= W /\ (m - k > 0 => m = W)
    BY <1>3, <1>7
  <2> QED BY <1>1, <1>2, <1>9, <2>2, <2>3, <2>4, <2>5
<1> QED BY <1>8, <1>9

LEMMA TextIsRendered ==
  ASSUME NEW d \in Directives, HasPrec(d) => d.prec[1] >= 0, NEW s,
         \/ d.spec = "s" /\ s = Field(StringPart(d), d)
         \/ d.spec = "c" /\ s = Field(d.text, d)
  PROVE  IsText(s) /\ RendersText(d, s)
<1> DEFINE cut == d.spec = "s" /\ HasPrec(d) /\ d.prec[1] < Len(d.text)
<1>1. PICK body : body = IF cut THEN SubSeq(d.text, 1, d.prec[1]) ELSE d.text
  OBVIOUS
<1>2. s = Field(body, d)
  BY <1>1, StringPartFacts
<1>3. IsText(body)
  <2>1. IsText(d.text) /\ Precision(d) \in Int
    BY DirectiveFacts
  <2>2. IsText(StringPart(d))
    BY <2>1, StringPartIsText
  <2>3. body = StringPart(d) \/ body = d.text
    BY <1>1, StringPartFacts
  <2> QED BY <2>1, <2>2, <2>3
<1>4. /\ IsText(s)
      /\ Len(s) - Len(body) > 0 => Len(s) = Width(d)
      /\ Len(s) >= Width(d)
      /\ IF Left(d) THEN IsPrefix(body, s) ELSE IsSuffix(body, s)
      /\ \A i \in 1 .. Len(s) :
           s[i] = " " \/ IF Left(d) THEN i <= Len(body) ELSE i > Len(s) - Len(body)
  BY <1>2, <1>3, FieldFacts
<1> QED BY <1>1, <1>4 DEF RendersText

----------------------------------------------------------------------------
(* An address.                                                             *)
LEMMA PowersOf16 ==
  ASSUME NEW n \in Nat
  PROVE  Powers(16)[n] = Powers(2)[n * 4]
<1>1. PICK p : p = Powers(2)
  OBVIOUS
<1>2. PICK r : r = Powers(16)
  OBVIOUS
<1>3. p \in [Nat -> Nat \ {0}] /\ r \in [Nat -> Nat \ {0}]
  BY <1>1, <1>2, PowersFacts DEF Bases
<1>4. p[0] = 1 /\ \A k \in Nat : p[k + 1] = 2 * p[k]
  <2>1. 2 \in Bases
    BY DEF Bases
  <2> QED BY <1>1, <2>1, PowersFacts
<1>5. r[0] = 1 /\ \A k \in Nat : r[k + 1] = 16 * r[k]
  <2>1. 16 \in Bases
    BY DEF Bases
  <2> QED BY <1>2, <2>1, PowersFacts
<1> DEFINE S == {k \in Nat : r[k] = p[k * 4]}
<1>6. 0 \in S
  BY <1>4, <1>5
<1>7. ASSUME NEW k \in Nat, k \in S
      PROVE  k + 1 \in S
  <2>1. PICK m \in Nat : m = k * 4
    OBVIOUS
  <2>2. p[m] \in Nat /\ p[m + 1] = 2 * p[m]
    BY <1>3, <1>4
  <2>3. p[m + 1 + 1] = 2 * p[m + 1] /\ p[m + 1 + 1 + 1] = 2 * p[m + 1 + 1]
        /\ p[m + 1 + 1 + 1 + 1] = 2 * p[m + 1 + 1 + 1]
    BY <1>4
  <2>4. (k + 1) * 4 = m + 1 + 1 + 1 + 1
    BY <2>1
  <2>5. r[k + 1] = 16 * r[k] /\ r[k] = p[m]
    BY <1>5, <1>7, <2>1
  <2> QED BY <2>2, <2>3, <2>4, <2>5
<1>8. n \in S
  <2> HIDE DEF S
  <2> QED BY <1>6, <1>7, Induction
<1> QED BY <1>1, <1>2, <1>8

LEMMA PointerIsRendered ==
  ASSUME NEW d \in Directives, d.flags = {}, ~Left(d), ~HasPrec(d), NEW s,
         s = Ntoa(Modulo(d.arg, LongBits), FALSE, 16, Precision(d),
                  PointerDigits, Flags(d) \cup {"0", "X"})
  PROVE  /\ IsText(s) /\ Len(s) = PointerDigits
         /\ NumberOf(s, 16) = Modulo(d.arg, LongBits)
<1>1. PICK n \in Nat \ {0} : n = PointerDigits /\ n <= NtoaSize /\ NtoaSize \in Nat
  BY PrintfAssumption
<1>2. PICK v \in Nat : v = Modulo(d.arg, LongBits) /\ v < Powers(16)[n]
  <2>1. LongBits = n * 4 /\ n * 4 \in Nat
    BY <1>1, PrintfAssumption
  <2>2. PICK m : m = Powers(16)[n]
    OBVIOUS
  <2>3. m \in Nat \ {0}
    BY <2>2, PowersFacts DEF Bases
  <2>4. Modulo(d.arg, LongBits) = d.arg % m
    BY <2>1, <2>2, PowersOf16 DEF Modulo
  <2>5. d.arg \in Int
    BY DEF Directives
  <2>6. d.arg % m \in 0 .. m - 1
    BY <2>3, <2>5, ModuloFacts
  <2> QED BY <2>2, <2>3, <2>4, <2>6
<1>3. PICK F : F = {"0", "X"}
  OBVIOUS
<1>4. Flags(d) \cup {"0", "X"} = F
  BY <1>3 DEF Flags
<1>5. Precision(d) = 0
  BY DEF Precision
<1>6. 16 \in Bases
  BY DEF Bases
<1>7. PICK q : q = Quotients(v, 16)
  OBVIOUS
<1>8. q[n] = 0
  BY <1>2, <1>6, <1>7, QuotientsEnd
<1>9. PICK k \in 1 .. n : q[k] = 0 /\ \A j \in 1 .. k - 1 : q[j] # 0
  <2> DEFINE S == {k \in Nat : k >= 1 /\ q[k] = 0}
  <2>1. n \in S /\ S \in SUBSET Nat
    BY <1>8
  <2>2. PICK k \in S : \A j \in S : ~(j < k)
    <3> HIDE DEF S
    <3> QED BY <2>1, LeastNatural
  <2>3. k \in 1 .. n
    BY <2>1, <2>2
  <2>4. \A j \in 1 .. k - 1 : j \in Nat /\ j >= 1 /\ j < k
    BY <2>3
  <2> QED BY <2>2, <2>3, <2>4
<1>10. NtoaDigits(v, 16, F) = Numeral(v, 16, F, k)
  <2>1. k \in 1 .. NtoaSize /\ "." \notin F
    BY <1>1, <1>3
  <2>2. NtoaDigits(v, 16, F) = Numeral(v, 16, F, IF "." \in F /\ v = 0 THEN 0 ELSE k)
    BY <1>6, <1>7, <1>9, <2>1, DigitsAreNumeral
  <2> QED BY <2>1, <2>2
<1>11. PICK e : e = Numeral(v, 16, F, n) /\ IsText(e) /\ Len(e) = n
  BY <1>6, NumeralIsText
<1>12. LeadingZeros(Numeral(v, 16, F, k), 0, n, F) = e
  <2>1. Filled(k, 0, n, F) = n
    BY <1>3 DEF Filled
  <2>2. k \in Nat /\ 0 \in Nat /\ n \in Nat /\ Filled(k, 0, n, F) <= NtoaSize
        /\ Quotients(v, 16)[k] = 0
    BY <1>1, <1>7, <1>9, <2>1
  <2>3. LeadingZeros(Numeral(v, 16, F, k), 0, n, F) = Numeral(v, 16, F, Filled(k, 0, n, F))
    BY <1>6, <2>2, ZerosAreNumeral
  <2> QED BY <1>11, <2>1, <2>3
<1>13. Hash(e, 16, 0, n, F) = e /\ SignOf(FALSE, F) = <<>> /\ SignedWidth(FALSE, n, F) = n
  BY <1>3 DEF Hash, SignOf, Opt, SignedWidth
<1>14. Push(e, <<>>) = e
  <2>1. IsText(<<>>) /\ Len(<<>>) = 0
    BY ShortTexts
  <2>2. Len(e) + Len(<<>>) <= NtoaSize
    BY <1>1, <1>11, <2>1
  <2> QED BY <1>11, <2>1, <2>2, PushFits, ConcatEmpty
<1>15. s = OutRev(e, n, F)
  <2>1. (IF v = 0 THEN F \ {"#"} ELSE F) = F
    BY <1>3
  <2>2. s = Ntoa(v, FALSE, 16, 0, n, F)
    BY <1>1, <1>2, <1>4, <1>5
  <2>3. s = NtoaFormat(NtoaDigits(v, 16, F), FALSE, 16, 0, n, F)
    BY <2>1, <2>2 DEF Ntoa
  <2> QED BY <1>10, <1>12, <1>13, <1>14, <2>3 DEF NtoaFormat
<1>16. PICK x : x = Reverse(e) /\ IsText(x) /\ Len(x) = n
  BY <1>11, ReverseFacts
<1>17. OutRev(e, n, F) = x
  <2>1. PICK room : room = Times(Max({n - Len(e), 0}), " ")
    OBVIOUS
  <2>2. room = <<>>
    <3>1. n - Len(e) = 0
      BY <1>11
    <3>2. Max({0, 0}) = 0
      BY MinMax
    <3>3. room = Times(0, " ")
      BY <2>1, <3>1, <3>2, Zenon
    <3> QED BY <3>3 DEF Times
  <2>3. OutRev(e, n, F) = <<>> \o x \o <<>>
    BY <1>3, <1>16, <2>1, <2>2 DEF OutRev, Opt
  <2> QED BY <1>16, <2>3, ConcatEmpty
<1>18. NumberOf(x, 16) = v
  BY <1>6, <1>7, <1>8, <1>11, <1>16, NumeralIsNumber
<1> QED BY <1>1, <1>2, <1>15, <1>16, <1>17, <1>18

----------------------------------------------------------------------------
(* How much a directive writes.                                            *)
LEMMA PushLength ==
  ASSUME NEW buf, IsText(buf), NEW more, IsText(more), Len(buf) <= NtoaSize
  PROVE  IsText(Push(buf, more)) /\ Len(Push(buf, more)) <= NtoaSize
<1>1. PICK a \in Nat, b \in Nat, c \in Nat : a = Len(buf) /\ b = Len(more) /\ c = NtoaSize
  BY TextFacts, PrintfAssumption
<1>2. PICK m \in Nat : m = Min({b, c - a}) /\ m <= b /\ a + m <= c
  <2>1. b \in Int /\ c - a \in Int /\ a <= c
    BY <1>1
  <2>2. Min({b, c - a}) = IF b <= c - a THEN b ELSE c - a
    BY <2>1, MinMax, Zenon
  <2> QED BY <2>1, <2>2
<1>3. PICK x : x = SubSeq(more, 1, m)
  OBVIOUS
<1>4. IsText(x) /\ Len(x) = m
  <2>1. PICK u \in Nat \ {0} : u = 1
    OBVIOUS
  <2>2. u <= m + 1 /\ m <= Len(more)
    BY <1>1, <1>2, <2>1
  <2>3. IsText(SubSeq(more, u, m)) /\ Len(SubSeq(more, u, m)) = m + 1 - u
    BY <2>2, SliceFacts
  <2> QED BY <1>3, <2>1, <2>3
<1>5. Push(buf, more) = buf \o x
  BY <1>1, <1>2, <1>3 DEF Push
<1>6. IsText(buf \o x) /\ Len(buf \o x) = Len(buf) + Len(x)
  BY <1>4, ConcatFacts
<1> QED BY <1>1, <1>2, <1>4, <1>5, <1>6

LEMMA PadLength ==
  ASSUME NEW buf, IsText(buf), NEW n \in Int, Len(buf) <= NtoaSize
  PROVE  IsText(PadZeros(buf, n)) /\ Len(PadZeros(buf, n)) <= NtoaSize
<1>1. n - Len(buf) \in Int
  BY TextFacts
<1>2. PICK z : z = Times(Max({n - Len(buf), 0}), "0")
  OBVIOUS
<1>3. IsText(z)
  BY <1>1, <1>2, RoomIsText
<1>4. IsText(Push(buf, z)) /\ Len(Push(buf, z)) <= NtoaSize
  BY <1>3, PushLength
<1> QED BY <1>2, <1>4 DEF PadZeros

LEMMA HashLength ==
  ASSUME NEW buf, IsText(buf), NEW base, NEW prec, NEW width, NEW flags,
         Len(buf) <= NtoaSize
  PROVE  /\ IsText(Hash(buf, base, prec, width, flags))
         /\ Len(Hash(buf, base, prec, width, flags)) <= NtoaSize
<1>1. PICK n \in Nat : n = Len(buf)
  BY TextFacts
<1>2. PICK k \in Nat : k = n - Dropped(n, base, prec, width, flags) /\ k <= n
  BY DEF Dropped
<1>3. PICK x : x = SubSeq(buf, 1, k)
  OBVIOUS
<1>4. IsText(x) /\ Len(x) <= NtoaSize
  <2>1. PICK u \in Nat \ {0} : u = 1
    OBVIOUS
  <2>2. u <= k + 1 /\ k <= Len(buf)
    BY <1>1, <1>2, <2>1
  <2>3. IsText(SubSeq(buf, u, k)) /\ Len(SubSeq(buf, u, k)) = k + 1 - u
    BY <2>2, SliceFacts
  <2>4. k <= NtoaSize
    BY <1>1, <1>2, PrintfAssumption
  <2> QED BY <1>3, <2>1, <2>3, <2>4
<1>5. PICK m : m = HashMark(base, flags) /\ IsText(m)
  <2>1. IsText(<<>>) /\ \A c : IsText(<<c>>)
    BY ShortTexts
  <2>2. HashMark(base, flags) \in {<<>>, <<"b">>, <<"x">>, <<"X">>}
    BY DEF HashMark
  <2>3. IsText(HashMark(base, flags))
    BY <2>1, <2>2, Zenon
  <2> QED BY <2>3
<1>6. PICK z : z = <<"0">> /\ IsText(z)
  BY ShortTexts
<1>7. Hash(buf, base, prec, width, flags) = IF "#" \in flags THEN Push(Push(x, m), z) ELSE buf
  BY <1>1, <1>2, <1>3, <1>5, <1>6 DEF Hash, Dropped, HashMark
<1>8. PICK y : y = Push(x, m) /\ IsText(y) /\ Len(y) <= NtoaSize
  BY <1>4, <1>5, PushLength
<1>9. IsText(Push(y, z)) /\ Len(Push(y, z)) <= NtoaSize
  BY <1>6, <1>8, PushLength
<1> QED BY <1>7, <1>8, <1>9

LEMMA OutRevLength ==
  ASSUME NEW buf, IsText(buf), NEW width \in Nat, NEW flags
  PROVE  \/ Len(OutRev(buf, width, flags)) = Len(buf)
         \/ Len(OutRev(buf, width, flags)) = width
<1>1. PICK n \in Nat : n = Len(buf)
  BY TextFacts
<1>2. PICK lead \in Nat, trail \in Nat :
        /\ OutRev(buf, width, flags) = (Times(lead, " ") \o Reverse(buf)) \o Times(trail, " ")
        /\ lead = IF "-" \notin flags /\ "0" \notin flags /\ width > n
                  THEN width - n ELSE 0
        /\ trail = IF "-" \in flags /\ width > n THEN width - n ELSE 0
  <2>1. PICK lead \in Nat, trail \in Nat :
          /\ OutRev(buf, width, flags) = (Times(lead, " ") \o Reverse(buf)) \o Times(trail, " ")
          /\ lead = IF "-" \notin flags /\ "0" \notin flags /\ width > Len(buf)
                    THEN width - Len(buf) ELSE 0
          /\ trail = IF "-" \in flags /\ width > Len(buf) THEN width - Len(buf) ELSE 0
    BY OutRevFacts, Zenon
  <2> QED BY <1>1, <2>1
<1>3. PICK a : a = Times(lead, " ")
  OBVIOUS
<1>4. PICK t : t = Times(trail, " ")
  OBVIOUS
<1>5. PICK c : c = Reverse(buf)
  OBVIOUS
<1>6. IsText(a) /\ IsText(t) /\ IsText(c) /\ Len(a) = lead /\ Len(t) = trail /\ Len(c) = n
  BY <1>1, <1>3, <1>4, <1>5, TimesIsText, TimesLength, ReverseFacts
<1>7. Len((a \o c) \o t) = Len(a) + Len(c) + Len(t)
  <2>1. IsText(a) /\ IsText(c) /\ IsText(t)
    BY <1>6
  <2>2. PICK x : x = a \o c
    OBVIOUS
  <2>3. IsText(x) /\ Len(x) = Len(a) + Len(c)
    BY <2>1, <2>2, ConcatFacts
  <2>4. Len(x \o t) = Len(x) + Len(t)
    BY <2>1, <2>3, ConcatFacts
  <2> QED BY <2>2, <2>3, <2>4
<1>8. lead + n + trail = n \/ lead + n + trail = width
  <2>1. CASE "-" \in flags
    <3>1. lead = 0 /\ trail = IF width > n THEN width - n ELSE 0
      BY <1>2, <2>1
    <3> QED BY <3>1
  <2>2. CASE "-" \notin flags
    <3>1. trail = 0
      BY <1>2, <2>2
    <3>2. lead = 0 \/ (width > n /\ lead = width - n)
      BY <1>2
    <3> QED BY <3>1, <3>2
  <2> QED BY <2>1, <2>2
<1>9. OutRev(buf, width, flags) = (a \o c) \o t
  BY <1>2, <1>3, <1>4, <1>5
<1>10. Len(OutRev(buf, width, flags)) = lead + n + trail
  BY <1>6, <1>7, <1>9
<1> QED BY <1>1, <1>8, <1>10

LEMMA NtoaLength ==
  ASSUME NEW value, NEW negative, NEW base, NEW prec \in Int, NEW width \in Nat, NEW flags,
         NEW w \in Nat, NtoaSize <= w, width <= w
  PROVE  Len(Ntoa(value, negative, base, prec, width, flags)) <= w
<1>1. PICK F : F = IF value = 0 THEN flags \ {"#"} ELSE flags
  OBVIOUS
<1>2. PICK r \in Nat : r = SignedWidth(negative, width, F) /\ r <= w
  <2>1. SignedWidth(negative, width, F) = width
          \/ (width > 0 /\ SignedWidth(negative, width, F) = width - 1)
    BY DEF SignedWidth
  <2>2. width \in Nat /\ (width > 0 => width - 1 \in Nat /\ width - 1 <= w)
    OBVIOUS
  <2> QED BY <2>1, <2>2
<1>3. PICK digits : digits = NtoaDigits(value, base, F)
  OBVIOUS
<1>4. IsText(digits) /\ Len(digits) <= NtoaSize
  <2>1. IsText(digits)
    BY <1>3, DigitsAreText
  <2>2. PICK q : q = Quotients(value, base)
    OBVIOUS
  <2>3. PICK n \in 1 .. NtoaSize : n = DigitCount(q)
    BY DigitCountFacts
  <2>4. digits = IF "." \in F /\ value = 0 THEN <<>>
                 ELSE [i \in 1 .. n |-> Alphabet(F)[(q[i - 1] % base) + 1]]
    BY <1>3, <2>2, <2>3 DEF NtoaDigits, Alphabet
  <2>5. Len([i \in 1 .. n |-> Alphabet(F)[(q[i - 1] % base) + 1]]) = n
    BY PrintfAssumption
  <2> QED BY <2>1, <2>3, <2>4, <2>5, PrintfAssumption
<1>5. PICK p1 : p1 = PadZeros(digits, prec)
  OBVIOUS
<1>6. IsText(p1) /\ Len(p1) <= NtoaSize
  BY <1>4, <1>5, PadLength
<1>7. PICK p2 : p2 = PadZeros(p1, IF "0" \in F THEN r ELSE 0)
  OBVIOUS
<1>8. IsText(p2) /\ Len(p2) <= NtoaSize
  <2>1. (IF "0" \in F THEN r ELSE 0) \in Int
    OBVIOUS
  <2> QED BY <1>6, <1>7, <2>1, PadLength
<1>9. PICK padded : padded = LeadingZeros(digits, prec, r, F)
  OBVIOUS
<1>10. IsText(padded) /\ Len(padded) <= NtoaSize
  BY <1>4, <1>5, <1>7, <1>8, <1>9 DEF LeadingZeros
<1>11. PICK hashed : hashed = Hash(padded, base, prec, r, F)
  OBVIOUS
<1>12. IsText(hashed) /\ Len(hashed) <= NtoaSize
  BY <1>10, <1>11, HashLength
<1>13. PICK sign : sign = SignOf(negative, F) /\ IsText(sign)
  BY SignIsText
<1>14. PICK buf : buf = Push(hashed, sign)
  OBVIOUS
<1>15. IsText(buf) /\ Len(buf) <= NtoaSize
  BY <1>12, <1>13, <1>14, PushLength
<1>16. Len(OutRev(buf, r, F)) = Len(buf) \/ Len(OutRev(buf, r, F)) = r
  BY <1>15, OutRevLength
<1>17. Len(buf) <= w
  BY <1>15, TextFacts, PrintfAssumption
<1>18. Ntoa(value, negative, base, prec, width, flags) = OutRev(buf, r, F)
  BY <1>1, <1>2, <1>3, <1>9, <1>11, <1>13, <1>14 DEF Ntoa, NtoaFormat
<1> QED BY <1>2, <1>16, <1>17, <1>18

LEMMA StringPartLength ==
  ASSUME NEW d \in Directives
  PROVE  Len(StringPart(d)) <= Len(d.text)
<1>1. PICK n \in Nat, c \in Nat : n = Len(d.text) /\ c = Precision(d) /\ IsText(d.text)
  BY DirectiveFacts, TextFacts
<1>2. CASE ~HasPrec(d)
  BY <1>1, <1>2 DEF StringPart
<1>3. CASE HasPrec(d)
  <2>1. PICK m \in Nat : m = Min({n, c}) /\ m <= n
    <3>1. n \in Int /\ c \in Int
      OBVIOUS
    <3>2. Min({n, c}) = IF n <= c THEN n ELSE c
      BY <3>1, MinMax, Zenon
    <3> QED BY <3>2
  <2>2. StringPart(d) = SubSeq(d.text, 1, m)
    BY <1>1, <1>3, <2>1 DEF StringPart
  <2>3. PICK u \in Nat \ {0} : u = 1
    OBVIOUS
  <2>4. u <= m + 1 /\ m <= Len(d.text)
    BY <1>1, <2>1, <2>3
  <2>5. Len(SubSeq(d.text, u, m)) = m + 1 - u
    BY <1>1, <2>4, SliceFacts
  <2> QED BY <1>1, <2>1, <2>2, <2>3, <2>5
<1> QED BY <1>2, <1>3

LEMMA FieldLength ==
  ASSUME NEW body, IsText(body), NEW d \in Directives
  PROVE  Len(Field(body, d)) = Len(body) \/ Len(Field(body, d)) = Width(d)
<1>1. PICK s : s = Field(body, d)
  OBVIOUS
<1>2. PICK W \in Nat : W = Width(d)
  BY DirectiveFacts
<1>3. PICK k \in Nat : k = Len(body)
  BY TextFacts
<1>4. IsText(s) /\ (Len(s) - k > 0 => Len(s) = W) /\ Len(s) >= W
      /\ (IF Left(d) THEN IsPrefix(body, s) ELSE IsSuffix(body, s))
  BY <1>1, <1>2, <1>3, FieldFacts
<1>5. Len(s) >= k
  <2>1. IsText(Reverse(body)) /\ Len(Reverse(body)) = k /\ Len(Reverse(s)) = Len(s)
    BY <1>3, <1>4, ReverseFacts
  <2> QED BY <1>3, <1>4, <2>1 DEF IsPrefix, IsSuffix
<1>6. PICK n \in Nat : n = Len(s)
  BY <1>4, TextFacts
<1> QED BY <1>1, <1>2, <1>3, <1>4, <1>5, <1>6

----------------------------------------------------------------------------
(* How much the directives of a format write, and which of the characters  *)
(* _putchar sees.                                                          *)
(* f[n] follows from f[n - 1] as g says, up to L.                          *)
Unfolds(f, a, g, L) == f[0] = a /\ \A n \in 1 .. L : f[n] = g[n][f[n - 1]]

LEMMA Recursion ==
  ASSUME NEW T, NEW a \in T, NEW L \in Nat, NEW g \in [1 .. L -> [T -> T]]
  PROVE  \E f : f \in [0 .. L -> T] /\ Unfolds(f, a, g, L)
<1> USE DEF Unfolds
<1> DEFINE Long(m, f) == f \in [0 .. m -> T] /\ Unfolds(f, a, g, m)
           S == {m \in Nat : m <= L => \E f : Long(m, f)}
<1>1. 0 \in S
  <2>1. Long(0, [n \in 0 .. 0 |-> a])
    OBVIOUS
  <2> QED BY <2>1
<1>2. ASSUME NEW m \in Nat, m \in S
      PROVE  m + 1 \in S
  <2> SUFFICES ASSUME m + 1 <= L
               PROVE  \E f : Long(m + 1, f)
    OBVIOUS
  <2>1. PICK f : Long(m, f)
    BY <1>2
  <2>2. f[m] \in T /\ m + 1 \in 1 .. L
    BY <2>1
  <2>3. PICK y \in T : y = g[m + 1][f[m]]
    BY <2>2
  <2>4. PICK h : h = [n \in 0 .. m + 1 |-> IF n = m + 1 THEN y ELSE f[n]]
    OBVIOUS
  <2>5. h[m + 1] = y /\ \A n \in 0 .. m : h[n] = f[n]
    BY <2>4
  <2>6. h \in [0 .. m + 1 -> T]
    BY <2>1, <2>4
  <2>7. ASSUME NEW n \in 1 .. m + 1
        PROVE  h[n] = g[n][h[n - 1]]
    <3>1. n - 1 \in 0 .. m /\ (n = m + 1 => n - 1 = m) /\ (n # m + 1 => n \in 1 .. m)
      OBVIOUS
    <3>2. CASE n = m + 1
      BY <2>3, <2>5, <3>1, <3>2
    <3>3. CASE n # m + 1
      BY <2>1, <2>5, <3>1, <3>3
    <3> QED BY <3>2, <3>3
  <2>8. h[0] = a
    BY <2>1, <2>5
  <2> QED BY <2>6, <2>7, <2>8
<1>3. L \in S
  <2> HIDE DEF S
  <2> QED BY <1>1, <1>2, Induction
<1> QED BY <1>3

LEMMA Sums ==
  ASSUME NEW L \in Nat, NEW h \in [1 .. L -> Nat]
  PROVE  \E f \in [0 .. L -> Nat] : f[0] = 0 /\ \A n \in 1 .. L : f[n] = f[n - 1] + h[n]
<1>1. PICK g : g = [n \in 1 .. L |-> [x \in Nat |-> x + h[n]]]
  OBVIOUS
<1>2. ASSUME NEW n \in 1 .. L, NEW x \in Nat
      PROVE  g[n][x] = x + h[n]
  BY <1>1
<1>3. g \in [1 .. L -> [Nat -> Nat]]
  BY <1>1
<1>4. PICK f \in [0 .. L -> Nat] : f[0] = 0 /\ \A n \in 1 .. L : f[n] = g[n][f[n - 1]]
  <2>1. PICK N, a : a \in N /\ N = Nat /\ a = 0
    OBVIOUS
  <2>2. g \in [1 .. L -> [N -> N]]
    BY <1>3, <2>1
  <2>3. PICK f : f \in [0 .. L -> N] /\ Unfolds(f, a, g, L)
    BY <2>1, <2>2, Recursion
  <2> QED BY <2>1, <2>3 DEF Unfolds
<1>5. ASSUME NEW n \in 1 .. L
      PROVE  f[n] = f[n - 1] + h[n]
  <2>1. f[n - 1] \in Nat
    BY <1>4
  <2> QED BY <1>2, <1>4, <2>1
<1> QED BY <1>4, <1>5

LEMMA LongestFacts ==
  ASSUME NEW d \in Directives
  PROVE  /\ Longest(d) \in Nat
         /\ d.spec \in IntSpecs => NtoaSize <= Longest(d) /\ Width(d) <= Longest(d)
         /\ d.spec \in {"c", "s"} => Len(d.text) <= Longest(d) /\ Width(d) <= Longest(d)
         /\ d.spec = "p" => Longest(d) = NtoaSize
         /\ d.spec \in {"literal", "other"} => Longest(d) = Len(d.text)
<1>1. Width(d) \in Nat /\ Len(d.text) \in Nat /\ NtoaSize \in Nat
  BY DirectiveFacts, TextFacts, PrintfAssumption
<1>2. ASSUME NEW a \in Nat, NEW b \in Nat
      PROVE  Max({a, b}) \in Nat /\ a <= Max({a, b}) /\ b <= Max({a, b})
  <2>1. a \in Int /\ b \in Int
    OBVIOUS
  <2>2. Max({a, b}) = IF a >= b THEN a ELSE b
    BY <2>1, MinMax, Zenon
  <2> QED BY <2>2
<1>3. PICK m \in Nat : m = Max({NtoaSize, Width(d)}) /\ NtoaSize <= m /\ Width(d) <= m
  BY <1>1, <1>2
<1>4. PICK k \in Nat : k = Max({Len(d.text), Width(d)}) /\ Len(d.text) <= k /\ Width(d) <= k
  BY <1>1, <1>2
<1>5. Longest(d) = CASE d.spec \in IntSpecs -> m
                     [] d.spec \in {"c", "s"} -> k
                     [] d.spec = "p" -> NtoaSize
                     [] OTHER -> Len(d.text)
  BY <1>3, <1>4 DEF Longest
<1> QED BY <1>1, <1>3, <1>4, <1>5 DEF IntSpecs, SignedSpecs

LEMMA MostFacts ==
  ASSUME NEW format \in Seq(Directives), NEW L \in Nat, L = Len(format)
  PROVE  /\ MostWritten(format) \in [0 .. L -> Nat] /\ MostWritten(format)[0] = 0
         /\ \A n \in 1 .. L :
              MostWritten(format)[n] = MostWritten(format)[n - 1] + Longest(format[n])
<1> DEFINE V(m) == m = [n \in 0 .. Len(format) |->
                         IF n = 0 THEN 0 ELSE m[n - 1] + Longest(format[n])]
<1>1. PICK h : h \in [1 .. L -> Nat] /\ \A n \in 1 .. L : h[n] = Longest(format[n])
  <2>1. \A n \in 1 .. L : Longest(format[n]) \in Nat
    BY LongestFacts
  <2>2. PICK h : h = [n \in 1 .. L |-> Longest(format[n])]
    OBVIOUS
  <2>3. h \in [1 .. L -> Nat] /\ \A n \in 1 .. L : h[n] = Longest(format[n])
    BY <2>1, <2>2
  <2> QED BY <2>3
<1>2. PICK f \in [0 .. L -> Nat] : f[0] = 0 /\ \A n \in 1 .. L : f[n] = f[n - 1] + h[n]
  <2>1. L \in Nat /\ h \in [1 .. L -> Nat]
    BY <1>1
  <2> QED BY <2>1, Sums, Zenon
<1>3. ASSUME NEW n \in 1 .. L
      PROVE  f[n] = f[n - 1] + Longest(format[n])
  BY <1>1, <1>2
<1>4. V(f)
  BY <1>2, <1>3
<1>5. V(MostWritten(format))
  <2> DEFINE c == CHOOSE q : V(q)
  <2>1. V(c)
    <3> HIDE DEF V
    <3> QED BY <1>4
  <2>2. MostWritten(format) = c
    BY DEF MostWritten
  <2> HIDE DEF c
  <2> QED BY <2>1, <2>2
<1>6. PICK m : m = MostWritten(format)
  OBVIOUS
<1>7. m = [n \in 0 .. L |-> IF n = 0 THEN 0 ELSE m[n - 1] + Longest(format[n])]
  BY <1>5, <1>6
<1>8. m[0] = 0 /\ \A n \in 1 .. L : m[n] = m[n - 1] + Longest(format[n])
  BY <1>7
<1> DEFINE S == {n \in Nat : n <= L => m[n] = f[n]}
<1>9. 0 \in S
  BY <1>2, <1>8
<1>10. ASSUME NEW n \in Nat, n \in S
       PROVE  n + 1 \in S
  <2> SUFFICES ASSUME n + 1 <= L
               PROVE  m[n + 1] = f[n + 1]
    OBVIOUS
  <2>1. n + 1 \in 1 .. L /\ (n + 1) - 1 = n /\ m[n] = f[n]
    BY <1>10
  <2> QED BY <1>3, <1>8, <2>1
<1>11. Nat \subseteq S
  <2> HIDE DEF S
  <2> QED BY <1>9, <1>10, Induction
<1>12. \A n \in 0 .. L : m[n] \in Nat
  BY <1>2, <1>11
<1>13. m \in [0 .. L -> Nat]
  BY <1>7, <1>12
<1> QED BY <1>6, <1>8, <1>13

(* The sum grows with each directive.                                      *)
LEMMA MostGrows ==
  ASSUME NEW format \in Seq(Directives), NEW L \in Nat, L = Len(format), NEW k \in 0 .. L
  PROVE  MostWritten(format)[k] <= MostWritten(format)[L]
<1>1. PICK m : m = MostWritten(format)
  OBVIOUS
<1>2. m \in [0 .. L -> Nat] /\ \A n \in 1 .. L : m[n] = m[n - 1] + Longest(format[n])
  BY <1>1, MostFacts
<1>3. ASSUME NEW n \in 1 .. L
      PROVE  m[n - 1] <= m[n]
  <2>1. Longest(format[n]) \in Nat
    BY LongestFacts
  <2>2. n - 1 \in 0 .. L /\ m[n - 1] \in Nat
    BY <1>2
  <2> QED BY <1>2, <2>1, <2>2
<1> DEFINE S == {j \in Nat : k + j <= L => m[k] <= m[k + j]}
<1>4. 0 \in S
  <2>1. m[k] \in Nat /\ k + 0 = k
    BY <1>2
  <2> QED BY <2>1
<1>5. ASSUME NEW j \in Nat, j \in S
      PROVE  j + 1 \in S
  <2> SUFFICES ASSUME k + (j + 1) <= L
               PROVE  m[k] <= m[k + (j + 1)]
    OBVIOUS
  <2>1. PICK n \in 1 .. L : n = k + (j + 1) /\ n - 1 = k + j
    <3>1. k + (j + 1) \in 1 .. L /\ (k + (j + 1)) - 1 = k + j
      OBVIOUS
    <3> QED BY <3>1
  <2>2. m[k] <= m[n - 1] /\ m[n - 1] <= m[n]
    BY <1>3, <1>5, <2>1
  <2>3. m[k] \in Nat /\ m[n - 1] \in Nat /\ m[n] \in Nat
    BY <1>2, <2>1, SMTT(30)
  <2> QED BY <2>1, <2>2, <2>3
<1>6. L - k \in S
  <2> HIDE DEF S
  <2>1. L - k \in Nat
    OBVIOUS
  <2> QED BY <1>4, <1>5, <2>1, Induction
<1>7. k + (L - k) = L
  OBVIOUS
<1> QED BY <1>1, <1>6, <1>7

(* Visible goes through a text from its first character on.                *)
Seen(f, s) ==
  /\ f[0] = <<>>
  /\ \A n \in 1 .. Len(s) :
       f[n] = IF s[n] = NUL THEN f[n - 1] ELSE Append(f[n - 1], s[n])

LEMMA VisibleIs ==
  ASSUME NEW D, NEW s \in Seq(D)
  PROVE  \E f : f \in [0 .. Len(s) -> Seq(D)] /\ Seen(f, s) /\ Visible(s) = f[Len(s)]
<1> DEFINE V(v) == v = [n \in 0 .. Len(s) |->
                         IF n = 0 THEN <<>>
                         ELSE IF s[n] = NUL THEN v[n - 1] ELSE Append(v[n - 1], s[n])]
<1>1. PICK L \in Nat : L = Len(s)
  OBVIOUS
<1>2. PICK T, a : a \in T /\ T = Seq(D) /\ a = <<>>
  <2>1. <<>> \in Seq(D)
    OBVIOUS
  <2> QED BY <2>1, Zenon
<1>3. PICK g : g = [n \in 1 .. L |-> [x \in T |-> IF s[n] = NUL THEN x ELSE Append(x, s[n])]]
  OBVIOUS
<1>4. g \in [1 .. L -> [T -> T]]
  <2>1. ASSUME NEW n \in 1 .. L, NEW x \in T
        PROVE  (IF s[n] = NUL THEN x ELSE Append(x, s[n])) \in T
    <3>1. s[n] \in D /\ x \in Seq(D)
      BY <1>1, <1>2
    <3> QED BY <1>2, <3>1
  <2> QED BY <1>3, <2>1
<1>5. PICK f : f \in [0 .. L -> T] /\ Unfolds(f, a, g, L)
  BY <1>2, <1>4, Recursion
<1>6. ASSUME NEW n \in 1 .. L
      PROVE  f[n] = IF s[n] = NUL THEN f[n - 1] ELSE Append(f[n - 1], s[n])
  <2>1. f[n] = g[n][f[n - 1]] /\ f[n - 1] \in T
    BY <1>5 DEF Unfolds
  <2> QED BY <1>3, <2>1
<1>7. f[0] = <<>>
  BY <1>2, <1>5 DEF Unfolds
<1>8. V(f)
  <2>1. f = [n \in 0 .. L |-> f[n]]
    BY <1>5
  <2>2. ASSUME NEW n \in 0 .. L
        PROVE  f[n] = IF n = 0 THEN <<>>
                      ELSE IF s[n] = NUL THEN f[n - 1] ELSE Append(f[n - 1], s[n])
    BY <1>6, <1>7
  <2> QED BY <1>1, <2>1, <2>2, Zenon
<1>9. PICK v : V(v) /\ Visible(s) = v[Len(s)]
  <2> DEFINE c == CHOOSE q : V(q)
  <2>1. V(c)
    <3> HIDE DEF V
    <3> QED BY <1>8
  <2>2. Visible(s) = c[Len(s)]
    BY DEF Visible
  <2> HIDE DEF c, V
  <2> QED BY <2>1, <2>2
<1>10. v[0] = <<>> /\ \A n \in 1 .. L :
         v[n] = IF s[n] = NUL THEN v[n - 1] ELSE Append(v[n - 1], s[n])
  <2>1. v = [n \in 0 .. L |->
              IF n = 0 THEN <<>>
              ELSE IF s[n] = NUL THEN v[n - 1] ELSE Append(v[n - 1], s[n])]
    BY <1>1, <1>9, Zenon
  <2>2. v[0] = <<>>
    <3>1. 0 \in 0 .. L
      OBVIOUS
    <3> QED BY <2>1, <3>1
  <2>3. ASSUME NEW n \in 1 .. L
        PROVE  v[n] = IF s[n] = NUL THEN v[n - 1] ELSE Append(v[n - 1], s[n])
    <3>1. n \in 0 .. L /\ n # 0
      OBVIOUS
    <3> QED BY <2>1, <3>1, Zenon
  <2> QED BY <2>2, <2>3
<1> DEFINE S == {n \in Nat : n <= L => v[n] = f[n]}
<1>11. 0 \in S
  BY <1>7, <1>10
<1>12. ASSUME NEW n \in Nat, n \in S
       PROVE  n + 1 \in S
  <2> SUFFICES ASSUME n + 1 <= L
               PROVE  v[n + 1] = f[n + 1]
    OBVIOUS
  <2>1. PICK k \in 1 .. L : k = n + 1 /\ k - 1 = n
    OBVIOUS
  <2>2. v[k - 1] = f[k - 1]
    BY <1>12, <2>1
  <2> QED BY <1>6, <1>10, <2>1, <2>2
<1>13. L \in S
  <2> HIDE DEF S
  <2> QED BY <1>11, <1>12, Induction
<1>14. v[L] = f[L]
  BY <1>13
<1>15. Seen(f, s)
  BY <1>1, <1>6, <1>7 DEF Seen
<1>16. f \in [0 .. Len(s) -> Seq(D)] /\ Visible(s) = f[Len(s)]
  BY <1>1, <1>2, <1>5, <1>9, <1>14
<1> QED BY <1>15, <1>16

LEMMA AppendBehind ==
  ASSUME NEW D, NEW x \in Seq(D), NEW y \in Seq(D), NEW e \in D
  PROVE  x \o Append(y, e) = Append(x \o y, e)
OBVIOUS

(* What _putchar sees of two texts is what it sees of each.                *)
LEMMA VisibleConcat ==
  ASSUME NEW s, IsText(s), NEW t, IsText(t)
  PROVE  Visible(s \o t) = Visible(s) \o Visible(t)
<1>1. PICK A, B : s \in Seq(A) /\ t \in Seq(B)
  BY DEF IsText
<1>2. PICK D : s \in Seq(D) /\ t \in Seq(D) /\ s \o t \in Seq(D)
  <2>1. PICK D : D = A \cup B
    OBVIOUS
  <2>2. s \in Seq(D) /\ t \in Seq(D)
    BY <1>1, <2>1
  <2> QED BY <2>2
<1>3. PICK u \in Seq(D) : u = s \o t
  BY <1>2
<1>4. PICK a \in Nat, b \in Nat : a = Len(s) /\ b = Len(t) /\ Len(u) = a + b
  BY <1>2, <1>3
<1>5. /\ \A i \in 1 .. a : u[i] = s[i]
      /\ \A i \in 1 .. b : u[a + i] = t[i] /\ t[i] \in D
  BY <1>2, <1>3, <1>4
<1>6. PICK f : f \in [0 .. a -> Seq(D)] /\ Seen(f, s) /\ Visible(s) = f[a]
  BY <1>2, <1>4, VisibleIs
<1>7. PICK h : h \in [0 .. b -> Seq(D)] /\ Seen(h, t) /\ Visible(t) = h[b]
  BY <1>2, <1>4, VisibleIs
<1>8. PICK w : w \in [0 .. a + b -> Seq(D)] /\ Seen(w, u) /\ Visible(u) = w[a + b]
  BY <1>3, <1>4, VisibleIs
<1> DEFINE S == {n \in Nat : n <= a => w[n] = f[n]}
           P(n) == w[a + n] = f[a] \o h[n]
           R == {n \in Nat : n <= b => P(n)}
<1>9. 0 \in S
  BY <1>6, <1>8 DEF Seen
<1>10. ASSUME NEW n \in Nat, n \in S
       PROVE  n + 1 \in S
  <2> SUFFICES ASSUME n + 1 <= a
               PROVE  w[n + 1] = f[n + 1]
    OBVIOUS
  <2>1. PICK k \in Nat : k = n + 1 /\ k - 1 = n /\ k \in 1 .. a /\ k \in 1 .. a + b
    OBVIOUS
  <2>2. w[k - 1] = f[k - 1] /\ u[k] = s[k]
    BY <1>5, <1>10, <2>1
  <2>3. f[k] = IF s[k] = NUL THEN f[k - 1] ELSE Append(f[k - 1], s[k])
    BY <1>4, <1>6, <2>1 DEF Seen
  <2>4. w[k] = IF u[k] = NUL THEN w[k - 1] ELSE Append(w[k - 1], u[k])
    BY <1>4, <1>8, <2>1 DEF Seen
  <2> QED BY <2>1, <2>2, <2>3, <2>4
<1>11. w[a] = f[a]
  <2> HIDE DEF S
  <2>1. a \in S
    BY <1>9, <1>10, Induction
  <2> QED BY <2>1 DEF S
<1>12. P(0)
  <2>1. f[a] \in Seq(D) /\ h[0] = <<>> /\ a + 0 = a
    BY <1>6, <1>7 DEF Seen
  <2>2. f[a] = f[a] \o <<>>
    BY <2>1
  <2>3. w[a + 0] = f[a] \o h[0]
    BY <1>11, <2>1, <2>2, Zenon
  <2> QED BY <2>3
<1>13. ASSUME NEW n \in Nat, n + 1 <= b, P(n)
       PROVE  P(n + 1)
  <2> HIDE DEF P
  <2>1. PICK k \in Nat, j \in Nat : k = n + 1 /\ j = a + k
    OBVIOUS
  <2>2. k - 1 = n /\ k \in 1 .. b /\ j \in 1 .. a + b /\ j - 1 = a + n
    BY <1>13, <2>1
  <2>3. w[j - 1] = f[a] \o h[k - 1]
    BY <1>13, <2>2, Zenon DEF P
  <2>4. u[j] = t[k] /\ t[k] \in D
    BY <1>5, <2>1, <2>2
  <2>5. h[k] = IF t[k] = NUL THEN h[k - 1] ELSE Append(h[k - 1], t[k])
    BY <1>4, <1>7, <2>2 DEF Seen
  <2>6. w[j] = IF u[j] = NUL THEN w[j - 1] ELSE Append(w[j - 1], u[j])
    BY <1>4, <1>8, <2>2 DEF Seen
  <2>7. f[a] \in Seq(D) /\ h[k - 1] \in Seq(D)
    BY <1>6, <1>7, <2>2
  <2>8. f[a] \o Append(h[k - 1], t[k]) = Append(f[a] \o h[k - 1], t[k])
    <3>1. PICK x \in Seq(D), y \in Seq(D), e \in D : x = f[a] /\ y = h[k - 1] /\ e = t[k]
      BY <2>4, <2>7
    <3>2. x \o Append(y, e) = Append(x \o y, e)
      BY AppendBehind
    <3> QED BY <3>1, <3>2
  <2>9. w[j] = f[a] \o h[k]
    BY <2>3, <2>4, <2>5, <2>6, <2>8, Zenon
  <2> QED BY <2>1, <2>9, Zenon DEF P
<1> HIDE DEF P
<1>14. P(b)
  <2>1. 0 \in R
    BY <1>12
  <2>2. \A n \in Nat : n \in R => n + 1 \in R
    BY <1>13
  <2> HIDE DEF R
  <2>3. b \in R
    BY <2>1, <2>2, Induction
  <2> QED BY <2>3 DEF R
<1>15. w[a + b] = f[a] \o h[b]
  BY <1>14, Zenon DEF P
<1> QED BY <1>3, <1>6, <1>7, <1>8, <1>15

LEMMA VisibleIsText ==
  ASSUME NEW s, IsText(s)
  PROVE  IsText(Visible(s))
<1>1. PICK D : s \in Seq(D)
  BY DEF IsText
<1>2. Len(s) \in Nat
  BY TextFacts
<1>3. PICK f : f \in [0 .. Len(s) -> Seq(D)] /\ Visible(s) = f[Len(s)]
  BY <1>1, VisibleIs
<1>4. Len(s) \in 0 .. Len(s)
  BY <1>2
<1> QED BY <1>3, <1>4 DEF IsText

LEMMA VisibleEmpty == Visible(<<>>) = <<>>
<1>1. PICK D : <<>> \in Seq(D)
  BY ShortTexts DEF IsText
<1>2. Len(<<>>) = 0
  BY ShortTexts
<1>3. PICK f : Seen(f, <<>>) /\ Visible(<<>>) = f[0]
  BY <1>1, <1>2, VisibleIs
<1> QED BY <1>3 DEF Seen

LEMMA VisibleNul == Visible(<<NUL>>) = <<>>
<1>1. PICK s : s = <<NUL>> /\ Len(s) = 1 /\ s[1] = NUL
  BY ShortTexts
<1>2. PICK D : s \in Seq(D)
  BY <1>1, ShortTexts DEF IsText
<1>3. PICK f : Seen(f, s) /\ Visible(s) = f[1]
  BY <1>1, <1>2, VisibleIs
<1>4. f[0] = <<>> /\ f[1] = IF s[1] = NUL THEN f[1 - 1] ELSE Append(f[1 - 1], s[1])
  BY <1>1, <1>3 DEF Seen
<1> QED BY <1>1, <1>3, <1>4

=============================================================================
