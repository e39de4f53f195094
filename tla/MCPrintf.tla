----------------------------- MODULE MCPrintf -----------------------------
EXTENDS Printf

(* Integer conversions with every set of flags, and with arguments at the  *)
(* edges of int.                                                           *)
One(d) == [fn |-> "printf", null |-> FALSE, size |-> 0, format |-> <<d>>]

IntDirectives ==
  [spec : {"d", "u", "x", "o", "b"}, flags : SUBSET {"0", "-", "+", " ", "#"},
   width : {0, 1, 2, 3, 6, -4}, prec : {<<>>, <<0>>, <<1>>, <<2>>, <<4>>},
   len : {""}, arg : {-8, -1, 0, 5}, text : {<<>>}]

(* The lengths, with arguments that need the cast.                         *)
LengthDirectives ==
  [spec : IntSpecs, flags : {{}, {"0"}, {"#"}}, width : {0, 5}, prec : {<<>>},
   len : {"hh", "h", "", "l", "ll"}, arg : {-128, -9, -3, 2, 6, 13, 127, 200},
   text : {<<>>}]

TextDirectives ==
  [spec : {"s"}, flags : {{}, {"-"}, {"0"}}, width : {0, 2, 4, -4},
   prec : {<<>>, <<0>>, <<1>>, <<2>>, <<6>>}, len : {""}, arg : {0},
   text : {<<>>, <<"t">>, <<"t", "1">>, <<"t", "1", "f">>}]
  \cup
  [spec : {"c"}, flags : {{}, {"-"}}, width : {0, 1, 3, -3}, prec : {<<>>},
   len : {""}, arg : {0}, text : {<<"t">>, <<NUL>>}]
  \cup
  [spec : {"p"}, flags : {{}, {"-"}}, width : {0, -4}, prec : {<<>>, <<1>>}, len : {""},
   arg : {0, 9, 16, 255, -1}, text : {<<>>}]

(* Texts of 0 to 7 characters for every buffer up to 8, also with a NUL    *)
(* inside, and the calls without a buffer.                                 *)
Formats ==
  { <<>>, <<Plain("literal", <<"t">>, 0)>>,
    <<Plain("s", <<"t", "1">>, 0), Plain("d", <<>>, -7), Plain("other", <<"%">>, 0)>>,
    <<Plain("d", <<>>, 5), Plain("c", <<NUL>>, 0), Plain("p", <<>>, 77),
      Plain("s", <<"t", "1", "f">>, 0)>> }

MCRequests ==
  {One(d) : d \in IntDirectives} \cup {One(d) : d \in LengthDirectives}
  \cup {One(d) : d \in TextDirectives}
  \cup [fn : {"snprintf"}, null : {FALSE}, size : 0 .. 8, format : Formats]
  \cup [fn : {"snprintf"}, null : {TRUE}, size : {0}, format : Formats]
  \cup [fn : {"printf"}, null : {FALSE}, size : {0}, format : Formats]
  \cup {UserLine}

(* What the theorems assume of the calls.                                  *)
ASSUME RoomForTexts == CountsFit /\ ArraysFit
=============================================================================
