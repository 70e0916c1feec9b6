---------------------------- MODULE TextScreen ----------------------------
(***************************************************************************)
(* What the display functions of ssd1306.c promise to those who call them: *)
(* a screen and a cursor.  A character appears as a whole, in one line, at *)
(* the cursor; the text goes on in the next line, and behind the last one  *)
(* in the first; a picture covers everything.                              *)
(***************************************************************************)
EXTENDS Panel

CONSTANTS
    Font(_, _),     \* the column i of a character; the gap behind them
    Logo(_)         \* the logo, cell by cell

VARIABLES screen, line, pos

vars == <<screen, line, pos>>

NextLine == IF line = MAX_LINE THEN 0 ELSE line + 1

Init ==
    /\ screen = [x \in Cells |-> Noise]
    /\ line = 0 /\ pos = 0

Goto(l, p) ==
    /\ line' = l /\ pos' = p
    /\ UNCHANGED screen

Put(c) ==
    LET fits == pos + FontSize < MAX_SEG
        l == IF fits THEN line ELSE NextLine
        p == IF fits THEN pos ELSE 0 IN
    /\ screen' = [x \in Cells |-> IF x[1] = l /\ x[2] \in p .. p + FontSize
                                  THEN Font(c, x[2] - p) ELSE screen[x]]
    /\ line' = l /\ pos' = p + FontSize + 1

Show(picture) ==
    /\ screen' = picture
    /\ line' = 0 /\ pos' = 0

Next ==
    \/ \E l \in Lines : \E p \in Segs : Goto(l, p)
    \/ Goto(NextLine, 0)
    \/ \E c \in Chars : Put(c)
    \/ Show([x \in Cells |-> Blank])
    \/ Show([x \in Cells |-> Logo(x)])

Spec == Init /\ [][Next]_vars
=============================================================================
