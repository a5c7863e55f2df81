------------------------------- MODULE Terminal ------------------------------
(***************************************************************************)
(* dev/term/term.c on the back buffer of dev/fb/fb.c.  An operator takes   *)
(* and returns the record                                                  *)
(*                                                                         *)
(*     [state, cparams:     parse_cmd_byte's statics, cparamcount being    *)
(*                          the length of cparams,                         *)
(*      fgcolor, bgcolor:   indices into ansicolors,                       *)
(*      cursor_x, cursor_y,                                                *)
(*      screen:             <<row, column>> -> <<char, fgcolor, bgcolor>>] *)
(*                                                                         *)
(* A cell stands for the pixels of a character; what is left of the screen *)
(* to the right of and below the last whole cell is left out.  A store to  *)
(* cparams behind its end makes the sequence too long.                     *)
(***************************************************************************)
EXTENDS Naturals, Sequences

CONSTANTS term_width, term_height

ASSUME TerminalAssumption == {term_width, term_height} \subseteq Nat \ {0}

Cell == (0..term_height-1) \X (0..term_width-1)

\* The characters the parser tells apart: "e" is escape.  Digits stand for
\* themselves.
ESC == "e"
Digit == [d \in {"0", "1", "3", "4"} |->
             CASE d = "0" -> 0 [] d = "1" -> 1 [] d = "3" -> 3 [] d = "4" -> 4]

DEFAULT_FGCOLOR == 7
DEFAULT_BGCOLOR == 0

Blank(bg) == <<"", bg, bg>>

term_clear(t) == [t EXCEPT !.screen = [cell \in Cell |-> Blank(t.bgcolor)],
                           !.cursor_x = 0,
                           !.cursor_y = 0]

term_init == [state |-> "READY", cparams |-> <<>>,
              fgcolor |-> DEFAULT_FGCOLOR, bgcolor |-> DEFAULT_BGCOLOR,
              cursor_x |-> 0, cursor_y |-> 0,
              screen |-> [cell \in Cell |-> Blank(DEFAULT_BGCOLOR)]]

-----------------------------------------------------------------------------
(* parse_cmd_byte *)

\* ESC [ p1 ; p2 m
Coloured(t) ==
    LET p      == t.cparams
        bright == IF Len(p) = 2 /\ p[2] = 1 THEN 8 ELSE 0
    IN  CASE p[1] = 0      -> [t EXCEPT !.fgcolor = DEFAULT_FGCOLOR, !.bgcolor = DEFAULT_BGCOLOR]
          [] p[1] \in 30..37 -> [t EXCEPT !.fgcolor = p[1] - 30 + bright]
          [] p[1] \in 40..47 -> [t EXCEPT !.bgcolor = p[1] - 40 + bright]
          [] OTHER         -> t

Reset(t) == [t EXCEPT !.state = "READY", !.cparams = <<>>]

Rejected(t) == [taken |-> FALSE, t |-> Reset(t)]
Taken(t) == [taken |-> TRUE, t |-> t]

\* Whether the byte belongs to an escape sequence, and the state after it.
parse_cmd_byte(t, byte) ==
    CASE t.state = "READY" /\ byte = ESC -> Taken([t EXCEPT !.state = "CMD_WAIT"])
      [] t.state = "CMD_WAIT" /\ byte = "[" ->
            Taken([t EXCEPT !.state = "PARAM_WAIT", !.cparams = <<0>>])
      [] t.state = "CMD_WAIT" /\ byte = "c" -> Taken(Reset(term_clear(t)))
      [] t.state = "PARAM_WAIT" /\ byte = ";" -> Taken([t EXCEPT !.cparams = Append(@, 0)])
      [] t.state = "PARAM_WAIT" /\ byte = "m" -> Taken(Reset(Coloured(t)))
      [] t.state = "PARAM_WAIT" /\ byte \in DOMAIN Digit ->
            Taken([t EXCEPT !.cparams[Len(t.cparams)] = 10*@ + Digit[byte]])
      [] OTHER -> Rejected(t)

-----------------------------------------------------------------------------
scroll(t) ==
    [t EXCEPT !.screen = [cell \in Cell |->
        IF cell[1] < term_height-1 THEN t.screen[<<cell[1]+1, cell[2]>>] ELSE Blank(t.bgcolor)]]

putchar_at(t, c) ==
    [t EXCEPT !.screen[<<t.cursor_y, t.cursor_x>>] = <<c, t.fgcolor, t.bgcolor>>,
              !.cursor_x = @ + 1]

NewLine(t) == [t EXCEPT !.cursor_x = 0, !.cursor_y = @ + 1]

Drawn(t, c) ==
    CASE c = "\n" -> NewLine(t)
      [] c = "\t" -> [t EXCEPT !.cursor_x = 4 * ((@ + 3) \div 4)]
      [] OTHER    -> putchar_at(t, c)

Wrapped(t) == IF t.cursor_x >= term_width THEN NewLine(t) ELSE t

\* Mutant: the cursor stays below the screen.
Scrolled_Below(t) == IF t.cursor_y >= term_height THEN scroll(t) ELSE t

Scrolled(t) ==
    IF t.cursor_y >= term_height
    THEN [scroll(t) EXCEPT !.cursor_y = term_height - 1]
    ELSE t

\* The byte 0, which is not drawn, is in no message.
term_putchar(t, c) ==
    LET parsed == parse_cmd_byte(t, c)
    IN  IF parsed.taken THEN parsed.t ELSE Scrolled(Wrapped(Drawn(parsed.t, c)))
=============================================================================
