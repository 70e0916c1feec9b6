------------------------------- MODULE Panel -------------------------------
(***************************************************************************)
(* The SSD1306 controller behind the displays of oled_spi and oled_i2c, as *)
(* far as the drivers use it: the display RAM, one byte of eight pixels    *)
(* for each column of each line (page); the window and the pointer of the  *)
(* horizontal addressing mode; and the scroll engine, which moves the      *)
(* contents of the RAM.                                                    *)
(***************************************************************************)
EXTENDS Integers

CONSTANTS
    MAX_SEG, MAX_LINE,  \* columns, and the last line, of the display
    Chars,              \* the characters of the font, the same in both drivers
    FontSize,           \* SSD1306_FontSize
    ScrollLines         \* the last line that both drivers let scroll (2)

Segs == 0 .. MAX_SEG - 1
Lines == 0 .. MAX_LINE
Cells == Lines \X Segs
Total == MAX_SEG * (MAX_LINE + 1)

ASSUME PanelAssumption ==
    /\ MAX_SEG \in Nat \ {0}
    /\ MAX_LINE \in Nat /\ \E k \in 0 .. MAX_LINE : MAX_LINE + 1 = 2^k
    /\ FontSize \in Nat /\ FontSize < MAX_SEG
    /\ ScrollLines \in Lines

Newline == "newline"

\* What a byte of the RAM shows: the column i of something.
Blank == <<"blank", 0>>
Noise == <<"noise", 0>>     \* whatever was there before

\* Behind a reset.  The RAM survives it.
Reset(ram) ==
    [ram |-> ram, line |-> 0, col |-> 0, line0 |-> 0, line1 |-> MAX_LINE,
     col0 |-> 0, col1 |-> MAX_SEG - 1, power |-> "off", scroll |-> {}]

\* Commands 0x21 and 0x22.
SetColumns(p, first, last) ==
    [p EXCEPT !.col = first, !.col0 = first, !.col1 = last]
SetPages(p, first, last) ==
    [p EXCEPT !.line = first, !.line0 = first, !.line1 = last]

\* The pointer runs from first to last and starts again.
Step(at, first, last, max) ==
    IF at = last THEN first ELSE IF at = max THEN 0 ELSE at + 1

\* A data byte: the pointer moves to the next column, or line.
Draw(p, data) ==
    [p EXCEPT !.ram = [@ EXCEPT ![<<p.line, p.col>>] = data],
              !.col = Step(@, p.col0, p.col1, MAX_SEG - 1),
              !.line = IF p.col = p.col1 THEN Step(@, p.line0, p.line1, MAX_LINE) ELSE @]

\* The lines that scroll move on by one column.
Scrolled(p) ==
    [p EXCEPT !.ram = [x \in Cells |->
        IF x[1] \in p.scroll THEN @[<<x[1], (x[2] + 1) % MAX_SEG>>] ELSE @[x]]]

\* All it can show, and be.
Bytes == {Blank, Noise} \cup (Chars \X (0 .. FontSize - 1)) \cup ({"logo"} \X (0 .. Total - 1))

Panels ==
    [ram : [Cells -> Bytes], line : Lines, col : Segs, line0 : Lines, line1 : Lines,
     col0 : Segs, col1 : Segs, power : {"off", "on"}, scroll : SUBSET Lines]
=============================================================================
