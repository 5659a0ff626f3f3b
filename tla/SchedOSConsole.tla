--------------------------- MODULE SchedOSConsole ---------------------------
(***************************************************************************)
(* console_printf() of lib.c.  The format string is taken as the sequence  *)
(* of what the parser finds in it: characters to copy, conversions, and    *)
(* changes of colour.  One action converts an item into the characters     *)
(* that are pending; console_putc() puts them on the screen one by one.    *)
(*                                                                         *)
(* The variable tape is a history variable: all the cells written so far,  *)
(* as if the screen had no end.  No action depends on it.                  *)
(* The operators with _defect in their name are as in SchedOSKern.         *)
(***************************************************************************)
EXTENDS Integers, Sequences

CONSTANTS
  COLUMNS, ROWS,     \* of the console, 80 and 25
  Literals,          \* characters copied from the format
  Directives,        \* conversions, see Directive
  Colors

ASSUME ConsoleSize == COLUMNS \in Nat \ {0} /\ ROWS \in Nat \ {0}

(* Only %d has a negative argument; the others are of type unsigned. *)
ASSUME ConsoleDirectives ==
  /\ Directives \subseteq
       [flags : SUBSET STRING, width : Int, dot : BOOLEAN, precision : Int,
        conv : STRING, arg : Int, text : Seq(STRING)]
  /\ \A d \in Directives : d.conv \in {"u", "x", "X"} => d.arg \in Nat

VARIABLES
  cursor,       \* index of a cell; CELLS stands for CONSOLE_END
  screen,       \* console memory
  color,
  pending,      \* the characters that console_vprintf() has yet to put
  directive,    \* the conversion they come from, or NoDirective
  tape

consolevars == <<cursor, screen, color, pending, directive, tape>>

CELLS == COLUMNS * ROWS

NoDirective == [conv |-> "none"]

Cell(c) == [char |-> c, color |-> color]
Empty == [char |-> "", color |-> 0]

-----------------------------------------------------------------------------
(* console_putc() *)

(* Where a character goes: behind the last cell comes the first. *)
Here == IF cursor >= CELLS THEN 0 ELSE cursor

(* How many cells it takes: a newline fills the line with blanks. *)
Fill_defect(c, pos) == IF c = "\n" THEN (COLUMNS - pos) % COLUMNS ELSE 1

Fill(c, pos) == IF c = "\n" THEN COLUMNS - pos ELSE 1

Shape(c) == IF c = "\n" THEN Cell(" ") ELSE Cell(c)

(* What the tape records: a newline ends the line that the tape is in. *)
Typed(c) ==
  IF c = "\n" THEN [n \in 1 .. COLUMNS - (Len(tape) % COLUMNS) |-> Cell(" ")]
              ELSE <<Cell(c)>>

console_putc ==
  LET c    == Head(pending)
      next == Here + Fill(c, Here % COLUMNS)
  IN  /\ pending # <<>>
      /\ cursor' = next
      /\ screen' = [k \in DOMAIN screen |->
                      IF Here <= k /\ k < next THEN Shape(c) ELSE screen[k]]
      /\ tape' = tape \o Typed(c)
      /\ pending' = Tail(pending)
      /\ directive' = IF Tail(pending) = <<>> THEN NoDirective ELSE directive
      /\ UNCHANGED color

-----------------------------------------------------------------------------
(***************************************************************************)
(* A conversion: the flags of "#0- +" that were given, the field width or  *)
(* -1, the precision or -1 if there is no '.', and the argument: arg is    *)
(* the number for %d %u %x %X; text, for all others, the characters of the *)
(* string, of %c, or of what is no conversion.                             *)
(***************************************************************************)
Numeric == {"d", "u", "x", "X"}

lower_digits == <<"0", "1", "2", "3", "4", "5", "6", "7",
                  "8", "9", "a", "b", "c", "d", "e", "f">>
upper_digits == <<"0", "1", "2", "3", "4", "5", "6", "7",
                  "8", "9", "A", "B", "C", "D", "E", "F">>

fill_numbuf(val, base, digits, precision) ==
  LET numbuf[n \in Nat] ==
        IF n < base THEN <<digits[n + 1]>>
                    ELSE Append(numbuf[n \div base], digits[(n % base) + 1])
  IN  IF precision # 0 \/ val # 0 THEN numbuf[val] ELSE <<>>

(* A '.' with a negative number counts as precision 0. *)
Precision(d) == IF d.dot /\ d.precision < 0 THEN 0
                ELSE IF d.dot THEN d.precision ELSE -1

Data(d) ==
  CASE d.conv = "d" -> fill_numbuf(IF d.arg > 0 THEN d.arg ELSE -d.arg,
                                   10, upper_digits, Precision(d))
    [] d.conv = "u" -> fill_numbuf(d.arg, 10, upper_digits, Precision(d))
    [] d.conv = "x" -> fill_numbuf(d.arg, 16, lower_digits, Precision(d))
    [] d.conv = "X" -> fill_numbuf(d.arg, 16, upper_digits, Precision(d))
    [] OTHER -> d.text

Sign(d) ==
  CASE d.conv = "d" /\ d.arg < 0 -> <<"-">>
    [] ~(d.conv = "d" /\ d.arg < 0) /\ "+" \in d.flags -> <<"+">>
    [] ~(d.conv = "d" /\ d.arg < 0) /\ "+" \notin d.flags /\ " " \in d.flags -> <<" ">>
    [] OTHER -> <<>>

Times(c, n) == [k \in 1 .. n |-> c]

(* strnlen(data, precision) or strlen(data); numbers are cut like strings. *)
Length(d) == IF Precision(d) >= 0 /\ Precision(d) < Len(Data(d)) THEN Precision(d)
                                                                 ELSE Len(Data(d))

Zeros_defect(d) ==   \* the sign is forgotten
  CASE d.conv \in Numeric /\ Precision(d) > Length(d) -> Precision(d) - Length(d)
    [] /\ d.conv \in Numeric /\ Precision(d) < 0
       /\ "0" \in d.flags /\ "-" \notin d.flags
       /\ Length(d) < d.width -> d.width - Length(d)
    [] OTHER -> 0

Zeros(d) ==
  CASE d.conv \in Numeric /\ Precision(d) > Length(d) -> Precision(d) - Length(d)
    [] /\ d.conv \in Numeric /\ Precision(d) < 0
       /\ "0" \in d.flags /\ "-" \notin d.flags
       /\ Length(d) + Len(Sign(d)) < d.width -> d.width - Length(d) - Len(Sign(d))
    [] OTHER -> 0

Output(d) ==
  LET body   == Sign(d) \o Times("0", Zeros(d)) \o SubSeq(Data(d), 1, Length(d))
      blanks == Times(" ", d.width - Len(body))
  IN  IF "-" \in d.flags THEN body \o blanks ELSE blanks \o body

-----------------------------------------------------------------------------
(* console_vprintf(): the next item of the format. *)

Literal(c) ==
  /\ pending = <<>>
  /\ pending' = <<c>> /\ directive' = NoDirective
  /\ UNCHANGED <<cursor, screen, color, tape>>

Convert(d) ==
  /\ pending = <<>>
  /\ pending' = Output(d) /\ directive' = d
  /\ UNCHANGED <<cursor, screen, color, tape>>

(* %C, or another call of console_printf() *)
SetColor(k) ==
  /\ pending = <<>>
  /\ color' = k
  /\ UNCHANGED <<cursor, screen, pending, directive, tape>>

(* The caller's cursor "must be between CONSOLE_BEGIN and CONSOLE_END". *)
ConsoleInit ==
  /\ cursor \in 0 .. CELLS
  /\ color \in Colors
  /\ screen = [k \in 0 .. CELLS - 1 |-> Empty]
  /\ tape = [n \in 1 .. cursor |-> Empty]
  /\ pending = <<>> /\ directive = NoDirective

ConsoleNext ==
  \/ console_putc
  \/ \E c \in Literals : Literal(c)
  \/ \E d \in Directives : Convert(d)
  \/ \E k \in Colors : SetColor(k)

ConsoleSpec == ConsoleInit /\ [][ConsoleNext]_consolevars

-----------------------------------------------------------------------------

(***************************************************************************)
(* The screen always shows the end of the tape, each cell in its place:    *)
(* wrapping around at the last cell and filling lines on a newline write   *)
(* no cell too many, too few, or in another line, and the cursor is where  *)
(* the tape ends (lib.h: "returns the final position of the cursor").      *)
(***************************************************************************)
ShowsTape ==
  /\ cursor = IF tape # <<>> /\ Len(tape) % CELLS = 0 THEN CELLS ELSE Len(tape) % CELLS
  /\ \A n \in 1 .. Len(tape) :
       n + CELLS > Len(tape) => screen[(n - 1) % CELLS] = tape[n]
  /\ \A k \in DOMAIN screen : k >= Len(tape) => screen[k] = Empty

(* l blanks, the sign, z zeros, the first n characters of the data, r blanks. *)
Fields(d, l, z, n, r) ==
  Times(" ", l) \o Sign(d) \o Times("0", z) \o SubSeq(Data(d), 1, n) \o Times(" ", r)

(***************************************************************************)
(* The output of every conversion, whatever its flags, width and precision *)
(* (lib.h: "It also takes field widths and so forth"). A precision is the  *)
(* exact number of digits that a number is printed with: zeros before it   *)
(* make up for those it lacks, and of more than these only the first are   *)
(* printed, as of the characters of a string. The field is filled exactly: *)
(* with blanks on the left, or on the right with flag -, or, if it is that *)
(* of a number without flag - and without precision, with zeros between    *)
(* sign and digits if flag 0 is given.                                     *)
(***************************************************************************)
FieldsFilled ==
  LET d     == directive
      most  == IF d.precision < 0 THEN 0 ELSE d.precision
      shown == IF d.dot /\ most < Len(Data(d)) THEN most ELSE Len(Data(d))
      zeros == IF d.dot /\ d.conv \in Numeric THEN most - shown ELSE 0
      bare  == Len(Sign(d)) + zeros + shown
      pad   == IF d.width > bare THEN d.width - bare ELSE 0
      flags == IF d.dot \/ d.conv \notin Numeric THEN d.flags \ {"0"} ELSE d.flags
  IN  d # NoDirective =>
        Output(d) = CASE "-" \in flags -> Fields(d, 0, zeros, shown, pad)
                      [] {"-", "0"} \cap flags = {"0"} -> Fields(d, 0, pad, shown, 0)
                      [] OTHER -> Fields(d, pad, zeros, shown, 0)
=============================================================================
