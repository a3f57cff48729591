-------------------------------- MODULE Console --------------------------------
(***************************************************************************)
(* kernel/printf.c and kernel/failure.c: a text is formatted into a static *)
(* buffer and put on the screen of the video memory.                       *)
(*                                                                         *)
(* A format is a sequence of items.  The characters of the format itself   *)
(* and what %c, %s and %% stand for go through PUT_CHAR and are items      *)
(* "text"; "x" is a number; "?" is any other conversion.  The colour bytes *)
(* of the video memory, which nothing sets, are left out.                  *)
(***************************************************************************)
EXTENDS Naturals, Sequences, SequencesExt

CONSTANTS
  COLS, LINES,   \* the size of the screen (80, 25)
  BUF_SIZE,      \* the size of the static buffer (1024)
  MemSize,       \* the end of the memory seen here; the buffer is its start
  MaxDigits,     \* the digits of an unsigned long (16)
  Chars,         \* the characters a text may have
  Formats,       \* the formats printf is called with
  Dumps,         \* the sequences of bytes print_binary is called with
  Messages,      \* the messages of fatal_failure
  FatalPrefix,   \* "FATAL FAILURE: "
  Memories,      \* what the memory may hold at the start
  Screens,       \* what the screen may show at the start
  MaxCalls       \* bound on the calls

Cells == 0 .. COLS * LINES - 1
Addresses == 0 .. MemSize - 1
Text(f) == [conv |-> "text", text |-> f, num |-> 0]
Number(n) == [conv |-> "x", text |-> << >>, num |-> n]
Unknown == [conv |-> "?", text |-> << >>, num |-> 0]

DIGITS == << "0", "1", "2", "3", "4", "5", "6", "7", "8", "9", "a", "b", "c", "d", "e", "f" >>
Digit(d) == DIGITS[d + 1]

(* Each digit is worth 16 of the next: 4 bits. *)
Worth[k \in 0 .. MaxDigits] == IF k = 0 THEN 1 ELSE 16 * Worth[k - 1]

Item == [conv : {"text", "x", "?"}, text : Seq(Chars), num : 0 .. Worth[MaxDigits] - 1]

ASSUME ConsoleAssumption ==
  /\ {COLS, LINES, BUF_SIZE, MaxDigits} \subseteq Nat \ {0} /\ MemSize \in Nat /\ MemSize > BUF_SIZE
  /\ "NUL" \notin Chars /\ "x" \in Chars /\ \A d \in 0 .. 15 : Digit(d) \in Chars
  /\ Formats \subseteq Seq(Item) /\ Dumps \subseteq Seq(0 .. 255)
  /\ Messages \subseteq Seq(Chars) /\ FatalPrefix \in Seq(Chars)
  /\ {<<" ">>, <<"\n">>, <<"vsnprintf">>} \subseteq Seq(Chars)
  /\ \A s \in Screens : DOMAIN s = Cells
  /\ \A m \in Memories : DOMAIN m = Addresses
  /\ MaxCalls \in Nat

VARIABLES
  screen, x, y,  \* the characters in VIDEO_MEM, and scr_info
  mem,           \* buf and the memory behind it
  fmt, j,        \* what vsnprintf has still to format, and how far it is
  src,           \* what putstr has still to put
  pc,            \* "ready", "vsnprintf", "putstr", "fatal" or "dead"
  pending,       \* the formats a print_binary has still to print
  asked,         \* what has been asked to be printed so far
  first,         \* the screen at the start
  fits,          \* every text so far was shorter than the buffer
  calls          \* the calls so far

vars == <<screen, x, y, mem, fmt, j, src, pc, pending, asked, first, fits, calls>>

Init ==
  /\ screen \in Screens /\ first = screen
  /\ mem \in Memories
  /\ x = 0 /\ y = 0 /\ j = 0 /\ calls = 0
  /\ fmt = << >> /\ src = << >> /\ pending = << >> /\ asked = << >>
  /\ pc = "ready"
  /\ fits = TRUE

------------------------------------------------------------------------------
(* The digits of a number, by shifting it until it is 0. *)
NrDigits(n) == CHOOSE k \in 1 .. MaxDigits : n < Worth[k] /\ \A l \in 1 .. k - 1 : n >= Worth[l]

(* tmp [ len - i - 1 ] *)
DigitAt(n, i) == Digit((n \div Worth[NrDigits(n) - i - 1]) % 16)

(* The prefix is written without a look at the size. *)
number(m, n) ==
  [a \in Addresses |->
     IF a = j THEN "0" ELSE IF a = j + 1 THEN "x"
     ELSE IF \E i \in 0 .. NrDigits(n) - 1 : a = j + 2 + i /\ j + i < BUF_SIZE
     THEN DigitAt(n, a - j - 2) ELSE m[a]]

\* Faulty form: <= for <.
InBuffer_closed(a) == a <= BUF_SIZE
InBuffer(a) == a < BUF_SIZE

(* PUT_CHAR for every character of the text. *)
PUT_CHAR(m, text) ==
  [a \in Addresses |-> IF a \in j .. j + Len(text) - 1 /\ InBuffer(a) THEN text[a - j + 1] ELSE m[a]]

FormatText ==
  /\ pc = "vsnprintf" /\ fmt # << >> /\ Head(fmt).conv = "text"
  /\ mem' = PUT_CHAR(mem, Head(fmt).text)
  /\ j' = j + Len(Head(fmt).text)
  /\ fmt' = Tail(fmt)
  /\ UNCHANGED <<screen, x, y, src, pc, pending, asked, first, fits, calls>>

FormatNumber ==
  /\ pc = "vsnprintf" /\ fmt # << >> /\ Head(fmt).conv = "x"
  /\ mem' = number(mem, Head(fmt).num)
  /\ j' = j + NrDigits(Head(fmt).num) + 2
  /\ fmt' = Tail(fmt)
  /\ UNCHANGED <<screen, x, y, src, pc, pending, asked, first, fits, calls>>

Terminated(m) == IF j < BUF_SIZE THEN [m EXCEPT ![j] = "NUL"] ELSE m

(* What putstr reads: up to the first NUL, the end of a text that was longer
   than the buffer included; MemSize bounds it. *)
StringAt(m) ==
  LET end == CHOOSE n \in 0 .. MemSize :
               (n = MemSize \/ m[n] = "NUL") /\ \A k \in 0 .. n - 1 : m[k] # "NUL"
  IN [k \in 1 .. end |-> m[k - 1]]

FormatDone ==
  /\ pc = "vsnprintf" /\ fmt = << >>
  /\ mem' = Terminated(mem)
  /\ src' = StringAt(mem')
  /\ pc' = "putstr"
  /\ UNCHANGED <<screen, x, y, fmt, j, pending, asked, first, fits, calls>>

(* An unknown conversion, or a % at the end: the buffer is never printed. *)
UnknownConversion ==
  /\ pc = "vsnprintf" /\ fmt # << >> /\ Head(fmt).conv = "?"
  /\ src' = FatalPrefix \o <<"vsnprintf">>
  /\ pc' = "fatal"
  /\ UNCHANGED <<screen, x, y, mem, fmt, j, pending, asked, first, fits, calls>>

------------------------------------------------------------------------------
\* Faulty form: the last line is not blanked.
scroll_unblanked(cells) ==
  [a \in Cells |-> IF a < (LINES - 1) * COLS THEN cells[a + COLS] ELSE cells[a]]

(* The lines move up (memmove), the last one is blank. *)
scroll(cells) ==
  [a \in Cells |-> IF a < (LINES - 1) * COLS THEN cells[a + COLS] ELSE " "]

Wraps(c) == c = "\n" \/ x + 1 >= COLS
Scrolls(c) == Wraps(c) /\ y + 1 >= LINES
WithChar(c) == IF c = "\n" THEN screen ELSE [screen EXCEPT ![x + COLS * y] = c]

putstr ==
  /\ pc \in {"putstr", "fatal"} /\ src # << >>
  /\ LET c == Head(src) IN
     /\ screen' = IF Scrolls(c) THEN scroll(WithChar(c)) ELSE WithChar(c)
     /\ x' = IF Wraps(c) THEN 0 ELSE x + 1
     /\ y' = IF Wraps(c) /\ ~ Scrolls(c) THEN y + 1 ELSE y
  /\ src' = Tail(src)
  /\ UNCHANGED <<mem, fmt, j, pc, pending, asked, first, fits, calls>>

(* printf returns, or fatal_failure executes ud2. *)
PutstrDone ==
  /\ pc \in {"putstr", "fatal"} /\ src = << >>
  /\ pc' = IF pc = "putstr" THEN "ready" ELSE "dead"
  /\ UNCHANGED <<screen, x, y, mem, fmt, j, src, pending, asked, first, fits, calls>>

------------------------------------------------------------------------------
(* The text of a format: a number is 0x and its digits, the first one not 0
   unless it is the only one. *)
Hex[n \in 0 .. Worth[MaxDigits] - 1] ==
  IF n < 16 THEN << Digit(n) >> ELSE Append(Hex[n \div 16], Digit(n % 16))
ItemText(item) == IF item.conv = "x" THEN <<"0", "x">> \o Hex[item.num] ELSE item.text
TextOf(format) == FlattenSeq([k \in DOMAIN format |-> ItemText(format[k])])
IsKnown(format) == \A k \in DOMAIN format : format[k].conv # "?"

StartPrintf(format) ==
  /\ pc' = "vsnprintf" /\ fmt' = format /\ j' = 0
  /\ fits' = (fits /\ (IsKnown(format) => Len(TextOf(format)) < BUF_SIZE))
  /\ asked' = asked \o IF IsKnown(format) THEN TextOf(format) ELSE FatalPrefix \o <<"vsnprintf">>

printf ==
  /\ pc = "ready" /\ pending = << >> /\ calls < MaxCalls
  /\ \E format \in Formats : StartPrintf(format)
  /\ calls' = calls + 1
  /\ UNCHANGED <<screen, x, y, mem, src, pending, first>>

(* The bits of every byte, the lowest first, each by a printf of its own, a
   space, and a new line after every fourth byte. *)
BitOf(byte, b) == (byte \div << 1, 2, 4, 8, 16, 32, 64, 128 >>[b]) % 2
ByteFormats(byte, k) ==
  [b \in 1 .. 8 |-> << Text(<< Digit(BitOf(byte, b)) >>) >>] \o
  << << Text(<<" ">>) >> >> \o IF (k - 1) % 4 = 3 THEN << << Text(<<"\n">>) >> >> ELSE << >>
BinaryFormats(bytes) == FlattenSeq([k \in DOMAIN bytes |-> ByteFormats(bytes[k], k)])

print_binary ==
  /\ pc = "ready" /\ pending = << >> /\ calls < MaxCalls
  /\ \E bytes \in Dumps : pending' = BinaryFormats(bytes)
  /\ calls' = calls + 1
  /\ UNCHANGED <<screen, x, y, mem, fmt, j, src, pc, asked, first, fits>>

PrintBit ==
  /\ pc = "ready" /\ pending # << >>
  /\ StartPrintf(Head(pending))
  /\ pending' = Tail(pending)
  /\ UNCHANGED <<screen, x, y, mem, src, first, calls>>

fatal_failure ==
  /\ pc = "ready" /\ pending = << >> /\ calls < MaxCalls
  /\ \E msg \in Messages : src' = FatalPrefix \o msg /\ asked' = asked \o src'
  /\ pc' = "fatal" /\ calls' = calls + 1
  /\ UNCHANGED <<screen, x, y, mem, fmt, j, pending, first, fits>>

Next ==
  \/ printf \/ print_binary \/ PrintBit \/ fatal_failure
  \/ FormatText \/ FormatNumber \/ FormatDone \/ UnknownConversion
  \/ putstr \/ PutstrDone

Spec == Init /\ [][Next]_vars

------------------------------------------------------------------------------
(***************************************************************************)
(* Nothing is written behind the buffer, also when the text does not fit,  *)
(* but by a number that would end there, and then no more than two bytes:  *)
(* the prefix, and the test of the digits, leave out the two bytes of the  *)
(* prefix (printf.c:92-98, 107-113).                                       *)
(***************************************************************************)
NumberOverruns ==
  fmt # << >> /\ Head(fmt).conv = "x" /\ j + Len(ItemText(Head(fmt))) > BUF_SIZE

StaysInBuffer ==
  [][\A a \in BUF_SIZE .. MemSize - 1 :
       mem'[a] # mem[a] => NumberOverruns /\ (a < BUF_SIZE + 2 \/ a \in {j, j + 1})]_vars

(***************************************************************************)
(* Between the calls, and when the machine has stopped, the screen shows   *)
(* the last lines of all that was to be printed, nothing lost or twice     *)
(* where a line is exactly full or the last line is left: lines of old     *)
(* text scroll out, lines that come in are blank (printf.c:21-72, 166-203, *)
(* failure.c:10-19).                                                       *)
(***************************************************************************)
WithCharacter(ls, c) == [ls EXCEPT ![Len(ls)] = Append(@, c)]
NextLines(ls, c) ==
  IF c = "\n" THEN Append(ls, << >>)
  ELSE IF Len(Last(ls)) + 1 < COLS THEN WithCharacter(ls, c) ELSE Append(WithCharacter(ls, c), << >>)

LinesOf(text) ==
  LET lines[n \in 0 .. Len(text)] == IF n = 0 THEN << << >> >> ELSE NextLines(lines[n - 1], text[n])
  IN lines[Len(text)]

Shown(lines, row, col) ==
  LET line == row + IF Len(lines) > LINES THEN Len(lines) - LINES ELSE 0
  IN CASE line < Len(lines) /\ col < Len(lines[line + 1]) -> lines[line + 1][col + 1]
       [] OTHER -> IF line < LINES THEN first[col + COLS * line] ELSE " "

ScreenShowsText ==
  ((pc = "ready" /\ pending = << >>) \/ pc = "dead") /\ fits =>
    LET lines == LinesOf(asked) IN
    \A row \in 0 .. LINES - 1, col \in 0 .. COLS - 1 :
      screen[col + COLS * row] = Shown(lines, row, col)
===============================================================================
