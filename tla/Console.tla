------------------------------ MODULE Console ------------------------------
(***************************************************************************)
(* print.c: the choice of the text mode, and vsnprintf.  A step is a turn  *)
(* of a loop or the jump from one case of the switch to the next.          *)
(*                                                                         *)
(* Characters are one-letter strings, a number is its sixteen hexadecimal  *)
(* digits, the lowest at 0.  The format is what text spells, so that what  *)
(* it should print is known; text itself is not read by the code.          *)
(***************************************************************************)
EXTENDS Integers, Sequences

CONSTANTS
  Glyphs,           \* the characters but NUL
  StringArguments,  \* what is passed for %s
  Numbers,          \* and for %x
  Modifiers,        \* runs of l and h before x
  Texts,            \* what is printed, see Then
  OutSize,          \* the memory from the buffer on
  OutLengths,       \* sizes of the buffer
  Modes             \* what QueryMode answers: mode -> rows * cols, or Fails

NUL == "NUL"
Untouched == "untouched"
Fails == -1
Digits == <<"0", "1", "2", "3", "4", "5", "6", "7", "8", "9",
            "A", "B", "C", "D", "E", "F">>

VARIABLES
  text, fmt, varargs, out_length,            \* the call
  out_buffer, fmt_i, out_i, digit_index,
  rest,       \* what the conversion has still to copy
  print_pc,   \* "text", "directive", "copying" or "done"
  modes, current_mode, max_area, selected_mode,
  init_pc     \* "query" or "set"

formatVars == <<text, fmt, varargs, out_length, out_buffer, fmt_i, out_i,
                digit_index, rest, print_pc>>
modeVars == <<modes, current_mode, max_area, selected_mode, init_pc>>
consoleVars == <<formatVars, modeVars>>

(* A piece of a text: how the format spells it, what is passed for it, and *)
(* what it prints.                                                         *)
Literal(c) == [spelling |-> <<c>>, arguments |-> <<>>, prints |-> <<c>>]
Percent(c) == [spelling |-> <<"%", c>>, arguments |-> <<>>, prints |-> <<c>>]
Str(c, s) == [spelling |-> <<"%", c>>, arguments |-> <<s>>, prints |-> s]

(* The last modifier counts.                                               *)
DigitCount(run) ==
  IF run = <<>> THEN 8 ELSE IF run[Len(run)] \in {"l", "L"} THEN 16 ELSE 2

HexText(n, value) == [k \in 1 .. n |-> Digits[value[n - k] + 1]]

Hex(run, c, value) ==
  [spelling |-> <<"%">> \o run \o <<c>>, arguments |-> <<value>>,
   prints |-> HexText(DigitCount(run), value)]

Pieces ==
  {Literal(c) : c \in Glyphs \ {"%"}}
    \cup {Percent(c) : c \in Glyphs \ {"s", "S", "l", "L", "h", "H", "x", "X"}}
    \cup {Str(c, s) : c \in {"s", "S"}, s \in StringArguments}
    \cup {Hex(run, c, value) : run \in Modifiers, c \in {"x", "X"}, value \in Numbers}

(* A text is nothing, a % that ends the format, or a piece and then a text. *)
Nothing == [spelling |-> <<>>, arguments |-> <<>>, prints |-> <<>>]
LonePercent == [spelling |-> <<"%">>, arguments |-> <<>>, prints |-> <<>>]
Then(piece, t) ==
  [spelling |-> piece.spelling \o t.spelling,
   arguments |-> piece.arguments \o t.arguments,
   prints |-> piece.prints \o t.prints]

Text == [spelling : Seq(Glyphs), arguments : Seq(StringArguments \cup Numbers),
         prints : Seq(Glyphs)]

(* What calls of vsnprintf look like: formats without a NUL inside,        *)
(* arguments of the types the format asks for, a buffer that exists.       *)
ASSUME FormatAssumption ==
  /\ NUL \notin Glyphs
  /\ {"%", "s", "S", "l", "L", "h", "H", "x", "X"} \subseteq Glyphs
  /\ Digits \in [1 .. 16 -> Glyphs]
  /\ StringArguments \subseteq Seq(Glyphs)
  /\ Numbers \subseteq [0 .. 15 -> 0 .. 15]
  /\ Modifiers \subseteq Seq({"l", "L", "h", "H"})
  /\ Texts \subseteq Text
  /\ \A t \in Texts :
       t \in {Nothing, LonePercent} \/ \E p \in Pieces, u \in Texts : t = Then(p, u)
  /\ OutSize \in Nat /\ OutLengths \subseteq 0 .. OutSize

(* The firmware numbers its modes, and each has an area.                   *)
ASSUME ModesAssumption ==
  \A m \in Modes : DOMAIN m \subseteq Nat /\ \A k \in DOMAIN m : m[k] \in Nat \cup {Fails}

ConsoleInit ==
  /\ text \in Texts
  /\ fmt = text.spelling \o <<NUL>>
  /\ varargs = text.arguments
  /\ out_length \in OutLengths
  /\ out_buffer = [k \in 0 .. OutSize - 1 |-> Untouched]
  /\ fmt_i = 0 /\ out_i = 0 /\ digit_index = 7 /\ rest = <<>>
  /\ print_pc = IF out_length = 0 THEN "done" ELSE "text"
  /\ modes \in Modes
  /\ current_mode = 0 /\ max_area = 0 /\ selected_mode = 0 /\ init_pc = "query"

----------------------------------------------------------------------------
FormatChar == fmt[fmt_i + 1]

Room == out_i < out_length - 1

Put(c) == out_buffer' = [out_buffer EXCEPT ![out_i] = c] /\ out_i' = out_i + 1

Terminate ==
  /\ out_buffer' = [out_buffer EXCEPT ![out_i] = NUL]
  /\ print_pc' = "done"
  /\ UNCHANGED <<fmt_i, out_i, digit_index, rest, varargs>>

(* The end of the format or of the buffer.                                 *)
EndOfText ==
  \/ print_pc = "text" /\ (~Room \/ FormatChar = NUL) /\ Terminate
  \/ print_pc = "directive" /\ FormatChar = NUL /\ Terminate

(* A character of the format, and one after % that is no conversion.       *)
PutChar ==
  /\ \/ print_pc = "text" /\ Room /\ FormatChar \notin {NUL, "%"}
     \/ /\ print_pc = "directive"
        /\ FormatChar \notin {NUL, "s", "S", "l", "L", "h", "H", "x", "X"}
  /\ Put(FormatChar)
  /\ fmt_i' = fmt_i + 1 /\ print_pc' = "text"
  /\ UNCHANGED <<digit_index, rest, varargs>>

(* % and the modifiers.                                                    *)
Directive ==
  /\ fmt_i' = fmt_i + 1 /\ print_pc' = "directive"
  /\ \/ print_pc = "text" /\ Room /\ FormatChar = "%" /\ digit_index' = 7
     \/ /\ print_pc = "directive" /\ FormatChar \in {"l", "L", "h", "H"}
        /\ digit_index' = IF FormatChar \in {"l", "L"} THEN 15 ELSE 1
  /\ UNCHANGED <<out_buffer, out_i, rest, varargs>>

(* s and x: the argument, as what is to be copied.                         *)
Convert ==
  /\ print_pc = "directive" /\ FormatChar \in {"s", "S", "x", "X"}
  /\ rest' = IF FormatChar \in {"s", "S"} THEN Head(varargs)
             ELSE HexText(digit_index + 1, Head(varargs))
  /\ varargs' = Tail(varargs)
  /\ print_pc' = "copying"
  /\ UNCHANGED <<out_buffer, fmt_i, out_i, digit_index>>

(* Faulty Copy: the end of the buffer is not looked for.                   *)
CopyAll ==
  /\ print_pc = "copying"
  /\ IF rest # <<>>
     THEN Put(Head(rest)) /\ rest' = Tail(rest) /\ UNCHANGED <<fmt_i, print_pc>>
     ELSE fmt_i' = fmt_i + 1 /\ print_pc' = "text" /\ UNCHANGED <<out_buffer, out_i, rest>>
  /\ UNCHANGED <<digit_index, varargs>>

Copy ==
  /\ print_pc = "copying"
  /\ IF rest # <<>> /\ Room
     THEN Put(Head(rest)) /\ rest' = Tail(rest) /\ UNCHANGED <<fmt_i, print_pc>>
     ELSE fmt_i' = fmt_i + 1 /\ print_pc' = "text" /\ UNCHANGED <<out_buffer, out_i, rest>>
  /\ UNCHANGED <<digit_index, varargs>>

Format ==
  /\ EndOfText \/ PutChar \/ Directive \/ Convert \/ Copy
  /\ UNCHANGED <<text, fmt, out_length, modeVars>>

(* print_init.  Mode 1 need not exist; the first other one that does not   *)
(* ends the list.                                                          *)
QueryMode(m) == IF m \in DOMAIN modes THEN modes[m] ELSE Fails

(* Faulty SelectMode: mode 1 ends the list as well.                        *)
SelectModeStops ==
  /\ init_pc = "query"
  /\ IF QueryMode(current_mode) = Fails
     THEN init_pc' = "set" /\ UNCHANGED <<current_mode, max_area, selected_mode>>
     ELSE /\ current_mode' = current_mode + 1
          /\ IF QueryMode(current_mode) > max_area
             THEN max_area' = QueryMode(current_mode) /\ selected_mode' = current_mode
             ELSE UNCHANGED <<max_area, selected_mode>>
          /\ UNCHANGED init_pc
  /\ UNCHANGED <<modes, formatVars>>

SelectMode ==
  /\ init_pc = "query"
  /\ IF QueryMode(current_mode) = Fails /\ current_mode # 1
     THEN init_pc' = "set" /\ UNCHANGED <<current_mode, max_area, selected_mode>>
     ELSE /\ current_mode' = current_mode + 1
          /\ IF QueryMode(current_mode) > max_area
             THEN max_area' = QueryMode(current_mode) /\ selected_mode' = current_mode
             ELSE UNCHANGED <<max_area, selected_mode>>
          /\ UNCHANGED init_pc
  /\ UNCHANGED <<modes, formatVars>>

ConsoleNext == SelectMode \/ (init_pc = "set" /\ Format)

ConsoleSpec == ConsoleInit /\ [][ConsoleNext]_consoleVars

----------------------------------------------------------------------------
(* vsnprintf prints the text, cut to what the buffer holds with its NUL,   *)
(* and touches nothing behind: a conversion that fills the buffer, a       *)
(* modifier left from the directive before, and a % that ends the format   *)
(* are where it could go wrong.                                            *)
PrintsText ==
  print_pc = "done" =>
    LET full == Len(text.prints)
        kept == IF full < out_length THEN full ELSE out_length - 1
    IN  /\ \A k \in 0 .. kept - 1 : out_buffer[k] = text.prints[k + 1]
        /\ out_length > 0 => out_buffer[kept] = NUL
        /\ \A k \in out_length .. OutSize - 1 : out_buffer[k] = Untouched

(* The mode print_init sets is one the console has, if it has any, and     *)
(* none that it lists is larger.                                           *)
LargestMode ==
  init_pc = "set" =>
    LET listed == {m \in DOMAIN modes : \A k \in (0 .. m) \ {1} : QueryMode(k) # Fails}
        existing == {m \in listed : QueryMode(m) # Fails}
    IN  /\ existing # {} => selected_mode \in existing
        /\ \A m \in existing : QueryMode(m) <= QueryMode(selected_mode)
=============================================================================
