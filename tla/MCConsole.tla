------------------------------- MODULE MCConsole -------------------------------
(***************************************************************************)
(* A screen of two lines of three columns and a buffer of six: texts that  *)
(* end before, at and behind the last column, the last cell and the end of *)
(* the buffer, and numbers that end at each.                               *)
(***************************************************************************)
EXTENDS Console

MCFormats ==
  {<< >>, << Text(<<"a">>) >>, << Text(<<"a", "b", "\n">>) >>, << Text(<<"\n", "\n">>) >>,
   << Text(<<"a", "b", "c", "d", "e">>) >>, << Text(<<"a", "b", "c", "d", "e", "g">>) >>,
   << Text(<<"a">>), Number(0) >>, << Number(16), Text(<<"\n">>) >>, << Number(674) >>,
   << Text(<<"a", "b">>), Number(31) >>, << Text(<<"a", "b", "c", "d", "e", "f", "g">>), Number(1) >>,
   << Text(<<"a">>), Unknown >>}
MCDumps == {<<165, 0, 255, 1>>}
MCMessages == {<<"n", "o", "\n">>, << >>}
MCFatalPrefix == <<"F", ":">>
MCMemories == {[a \in Addresses |-> IF a < 2 \/ a = 6 THEN "z" ELSE "NUL"],
               [a \in Addresses |-> "NUL"]}
MCChars ==
  {DIGITS[k] : k \in DOMAIN DIGITS} \cup {"x", "g", "z", "n", "o", "F", ":", " ", "\n", "vsnprintf"}
MCScreens == {[c \in Cells |-> "o"]}
===============================================================================
