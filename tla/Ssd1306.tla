------------------------------ MODULE Ssd1306 ------------------------------
(***************************************************************************)
(* src/oled_spi/ssd1306.c: a text screen on top of the SSD1306.  The       *)
(* driver cannot read the display back: where the next byte appears is     *)
(* known to the panel, and the driver's LineNum and CursorPos follow it in *)
(* parallel.  Characters, the blank screen and the logo go out byte after  *)
(* byte (job); what is only commands is one step.                          *)
(***************************************************************************)
EXTENDS Panel

VARIABLES
    LineNum,        \* SSD1306_LineNum
    CursorPos,      \* SSD1306_CursorPos
    job,            \* the loop that writes data bytes: what, and its counter
    display,        \* "up": initialised, with the RST and DC lines ours; or "down"
    panel           \* the display

vars == <<LineNum, CursorPos, job, display, panel>>

cursor == <<LineNum, CursorPos>>

\* The tables SSD1306_font, with the gap that PrintChar adds, and etx_logo.
Font(c, i) == IF i = FontSize THEN Blank ELSE <<c, i>>
Logo(x) == <<"logo", x[1] * MAX_SEG + x[2]>>

Idle == [what |-> "none", i |-> 0]
Fill == [what |-> "fill", i |-> 0]
Picture == [what |-> "logo", i |-> 0]
Character(c) == [what |-> "char", i |-> 0, c |-> c]

Init ==
    /\ LineNum = 0 /\ CursorPos = 0
    /\ job = Idle
    /\ display = "down"
    /\ panel = Reset([x \in Cells |-> Noise])

Callable == display = "up" /\ job = Idle
-----------------------------------------------------------------------------
(* The cursor. *)

\* Mutant: the panel's window always starts in the first column.
Window_Left(l, p) == SetPages(SetColumns(panel, 0, MAX_SEG - 1), l, MAX_LINE)

\* The six bytes that SetCursor sends.
Window(l, p) == SetPages(SetColumns(panel, p, MAX_SEG - 1), l, MAX_LINE)

MoveTo(l, p) ==
    /\ LineNum' = l /\ CursorPos' = p
    /\ panel' = Window(l, p)

\* Out of range it does nothing.
SetCursor(l, p) ==
    /\ Callable
    /\ l <= MAX_LINE /\ p < MAX_SEG
    /\ MoveTo(l, p)
    /\ UNCHANGED <<job, display>>

\* LineNum & SSD1306_MAX_LINE, which is one less than a power of two.
NextLine == IF LineNum = MAX_LINE THEN 0 ELSE LineNum + 1

GoToNextLine ==
    /\ Callable
    /\ MoveTo(NextLine, 0)
    /\ UNCHANGED <<job, display>>
-----------------------------------------------------------------------------
(* Characters. *)

\* Mutant: the gap behind a character is not counted.
LineFull_NoGap == CursorPos + FontSize > MAX_SEG

LineFull == CursorPos + FontSize >= MAX_SEG

\* A newline, also if the line is full, is one GoToNextLine.
PrintNewline == GoToNextLine

PrintChar(c) ==
    /\ Callable
    /\ IF LineFull THEN MoveTo(NextLine, 0) ELSE UNCHANGED <<cursor, panel>>
    /\ job' = Character(c)
    /\ UNCHANGED display

\* The next round of a loop, and its end behind n rounds.
Round(n) == job' = IF job.i + 1 = n THEN Idle ELSE [job EXCEPT !.i = @ + 1]

WriteColumn ==
    /\ job.what = "char"
    /\ panel' = Draw(panel, Font(job.c, job.i))
    /\ CursorPos' = CursorPos + 1
    /\ Round(FontSize + 1)
    /\ UNCHANGED <<LineNum, display>>
-----------------------------------------------------------------------------
(* The whole display. *)

\* ETX_SSD1306_fill, which leaves the cursor alone.
WriteFill ==
    /\ job.what = "fill"
    /\ panel' = Draw(panel, Blank)
    /\ Round(Total)
    /\ UNCHANGED <<cursor, display>>

ClearDisplay ==
    /\ Callable
    /\ MoveTo(0, 0)
    /\ job' = Fill
    /\ UNCHANGED display

PrintLogo ==
    /\ Callable
    /\ MoveTo(0, 0)
    /\ job' = Picture
    /\ UNCHANGED display

\* etx_logo[i].
WriteLogo ==
    /\ job.what = "logo"
    /\ panel' = Draw(panel, <<"logo", job.i>>)
    /\ Round(Total)
    /\ UNCHANGED <<cursor, display>>
-----------------------------------------------------------------------------
(* Registers.  Brightness and inversion change nothing that is modelled.   *)

SetBrightness == Callable /\ UNCHANGED vars
InvertDisplay == Callable /\ UNCHANGED vars

Scroll(lines) ==
    /\ Callable
    /\ panel' = [panel EXCEPT !.scroll = lines]
    /\ UNCHANGED <<cursor, job, display>>

\* Of a diagonal scroll only its horizontal part is modelled.
StartScrollHorizontal(start_line_no, end_line_no) == Scroll(start_line_no .. end_line_no)
StartScrollVerticalHorizontal(start_line_no, end_line_no) == Scroll(start_line_no .. end_line_no)

DeactivateScroll == Scroll({})
-----------------------------------------------------------------------------
\* The lines, the reset pulse, the commands up to "display on", and
\* ClearDisplay.  If a line cannot be had it gives up (see DriverLoad).
DisplayInit ==
    /\ display = "down"
    /\ display' = "up"
    /\ LineNum' = 0 /\ CursorPos' = 0
    /\ panel' = [Reset(panel.ram) EXCEPT !.power = "on"]
    /\ job' = Fill

\* The lines are given back; the display goes on showing what it shows.
DisplayDeInit ==
    /\ Callable
    /\ display' = "down"
    /\ UNCHANGED <<cursor, job, panel>>

Write == WriteColumn \/ WriteFill \/ WriteLogo

\* The caller calls what it likes; OledSpi is the one that there is.  (And
\* there the scroll engine moves what it is told to scroll.)
Next ==
    \/ \E l \in Lines : \E p \in Segs : SetCursor(l, p)
    \/ PrintNewline
    \/ \E c \in Chars : PrintChar(c)
    \/ ClearDisplay \/ PrintLogo
    \/ Write
    \/ SetBrightness \/ InvertDisplay
    \/ \E l \in Lines : StartScrollHorizontal(0, l) \/ StartScrollVerticalHorizontal(0, l)
    \/ DeactivateScroll
    \/ DisplayInit \/ DisplayDeInit

Spec == Init /\ [][Next]_vars
-----------------------------------------------------------------------------
(* Properties. *)

Jobs ==
    {Idle} \cup [what : {"fill", "logo"}, i : 0 .. Total - 1]
           \cup [what : {"char"}, i : 0 .. FontSize, c : Chars]

TypeOK ==
    /\ LineNum \in Lines
    /\ CursorPos \in 0 .. MAX_SEG
    /\ job \in Jobs
    /\ display \in {"down", "up"}
    /\ panel \in Panels

\* The panel's pointer is where the driver believes it is, which it can never
\* ask: at the cursor, within a character too; and while the whole display is
\* painted, at the byte of the loop's counter.  Behind a full line the panel
\* has moved on by itself, to where the window starts in the next line.
PanelFollows ==
    display = "up" =>
        /\ panel.col1 = MAX_SEG - 1 /\ panel.line1 = MAX_LINE
        /\ IF job.what \in {"fill", "logo"}
           THEN panel.line * MAX_SEG + panel.col = job.i
           ELSE IF CursorPos < MAX_SEG
           THEN panel.line = LineNum /\ panel.col = CursorPos
           ELSE /\ panel.col = panel.col0
                /\ panel.line = IF LineNum = MAX_LINE THEN panel.line0 ELSE LineNum + 1

\* The screen as the callers see it: a call shows at once.  What is still to
\* be written is there already, at the place that the driver's variables name.
Ahead(x) ==
    CASE job.what = "char" ->
            x[1] = LineNum /\ x[2] \in CursorPos .. CursorPos + FontSize - job.i
      [] job.what \in {"fill", "logo"} -> x[1] * MAX_SEG + x[2] >= job.i
      [] OTHER -> FALSE

Coming(x) ==
    CASE job.what = "char" -> Font(job.c, job.i + x[2] - CursorPos)
      [] job.what = "fill" -> Blank
      [] job.what = "logo" -> Logo(x)

screen == [x \in Cells |-> IF Ahead(x) THEN Coming(x) ELSE panel.ram[x]]

pos == IF job.what = "char" THEN CursorPos + FontSize + 1 - job.i ELSE CursorPos

Screen == INSTANCE TextScreen WITH line <- LineNum

\* The bytes land where they have to: unless the display scrolls, the driver
\* and the panel together are a text screen, on which no character is torn
\* between two lines, and nothing is touched but the character that is printed.
IsTextScreen == Screen!Init /\ [][panel.scroll = {} => Screen!Next]_(Screen!vars)
=============================================================================
