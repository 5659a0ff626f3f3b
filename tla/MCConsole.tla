----------------------------- MODULE MCConsole -----------------------------
(* Instances of SchedOSConsole: a format ends when MaxTape cells have been  *)
(* written, which is behind the second time that the cursor wraps; the full *)
(* variety of conversions only at the start of the tape, two that stand for *)
(* the lengths of output everywhere.                                        *)
EXTENDS SchedOSConsole

CONSTANT MaxTape

MCLiterals == {"a", "\n"}

Directive(flags, width, dot, precision, conv, arg, text) ==
  [flags |-> flags, width |-> width, dot |-> dot, precision |-> precision,
   conv |-> conv, arg |-> arg, text |-> text]

Flags == SUBSET {"0", "-", "+", " "}

Fraction == {<<FALSE, -1>>, <<TRUE, -3>>, <<TRUE, 0>>, <<TRUE, 2>>, <<TRUE, 4>>}

Plain == {Directive({}, 1, FALSE, -1, "d", -1, <<>>),
          Directive({}, 3, FALSE, -1, "u", 0, <<>>)}

MCDirectives ==
  Plain \cup
  {Directive(f, w, p[1], p[2], "d", x, <<>>) :
     f \in Flags, w \in {-1, 0, 2, 6}, p \in Fraction, x \in {-345, -7, 0, 8, 120}}
  \cup {Directive({"0"}, w, p[1], p[2], b, 171, <<>>) :
          w \in {-1, 5}, p \in Fraction, b \in {"u", "x", "X"}}
  \cup {Directive(f, w, p[1], p[2], "s", 0, s) :
          f \in Flags, w \in {-1, 4}, p \in Fraction, s \in {<<>>, <<"a">>, <<"a", "b", "\n">>}}

Available == IF Len(tape) < 2 /\ directive = NoDirective THEN Directives ELSE Plain

(* On the first line, anything; then what fills the next ones. *)
Early == Len(tape) < COLUMNS

MCNext ==
  \/ console_putc
  \/ /\ Len(tape) < MaxTape
     /\ \/ \E c \in IF Early THEN Literals ELSE {"\n"} : Literal(c)
        \/ \E d \in Available : Convert(d)
        \/ Early /\ \E k \in Colors : SetColor(k)

MCSpec == ConsoleInit /\ [][MCNext]_consolevars
=============================================================================
