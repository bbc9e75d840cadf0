----------------------------- MODULE MCRuntime -----------------------------
(***************************************************************************)
(* The console and the string functions, either of them at a time, on      *)
(* small inputs.                                                           *)
(***************************************************************************)
EXTENDS Console, Strings, TLC

Number == [k \in 0 .. 15 |-> (7 * k + 3) % 16]

SampleGlyphs ==
  {"a", "b", "c", "%", "s", "S", "l", "L", "h", "H", "x", "X"}
    \cup {Digits[d] : d \in 1 .. 16}
SampleNumbers == {Number}
SampleStrings == {<<"b", "c">>, <<>>}
SampleModifiers == {<<>>, <<"l">>, <<"h">>, <<"l", "h">>}

SamplePieces ==
  {Literal("a"), Percent("%"), Str("s", <<"b", "c">>), Str("S", <<>>),
   Hex(<<>>, "x", Number), Hex(<<"l">>, "X", Number), Hex(<<"h">>, "x", Number),
   Hex(<<"l", "h">>, "x", Number)}

(* Up to two pieces, and a % that ends the format.                         *)
SampleTexts ==
  LET none == {Nothing, LonePercent}
      one == {Then(p, t) : p \in SamplePieces, t \in none}
  IN  none \cup one \cup {Then(p, t) : p \in SamplePieces, t \in one}

SampleOutLengths == {0, 1, 2, 3, 10, 40}

(* No mode, one, no mode 1, and a larger mode behind the end of the list.  *)
SampleModes ==
  {<<>>, 0 :> 20, 0 :> 20 @@ 1 :> 40 @@ 2 :> 30, 0 :> 20 @@ 2 :> 30 @@ 3 :> 10,
   0 :> 20 @@ 1 :> 10 @@ 3 :> 90, 0 :> 20 @@ 1 :> Fails @@ 2 :> 90 @@ 3 :> 90}

ConsoleIdle ==
  /\ text = Nothing /\ fmt = <<NUL>> /\ varargs = <<>> /\ out_length = 0
  /\ out_buffer = [k \in 0 .. OutSize - 1 |-> Untouched]
  /\ fmt_i = 0 /\ out_i = 0 /\ digit_index = 7 /\ rest = <<>> /\ print_pc = "done"
  /\ modes = <<>> /\ current_mode = 0 /\ max_area = 0 /\ selected_mode = 0
  /\ init_pc = "set"

StringsIdle ==
  dst = <<>> /\ src = <<>> /\ size = 0 /\ dest_size = 0 /\ results = <<>>

Init == (ConsoleInit /\ StringsIdle) \/ (ConsoleIdle /\ StringsInit)

Next ==
  \/ ConsoleNext /\ UNCHANGED stringVars
  \/ dst # <<>> /\ Call /\ UNCHANGED consoleVars

Spec == Init /\ [][Next]_<<consoleVars, stringVars>>
=============================================================================
