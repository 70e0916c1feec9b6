--------------------------- MODULE Displays_proofs --------------------------
(***************************************************************************)
(* Proofs about both drivers of the display, for displays and fonts of     *)
(* every size.  Ssd1306: the panel's pointer is where the driver believes  *)
(* it is, and the two together are a text screen, whoever calls.  OledSpi: *)
(* the display ends with the logo.  OledI2c: the panel is in step with     *)
(* what is sent, wherever a restart has cut it off.                        *)
(***************************************************************************)
EXTENDS OledSpi, OledI2c, TLAPS

\* A loop runs only while the display is up.  Those over the whole display
\* started at its first byte with the window open, and a character that has
\* begun fits into its line.
JobInv ==
    /\ display = "down" => job = Idle
    /\ job.what \in {"fill", "logo"} =>
           panel.line0 = 0 /\ panel.col0 = 0 /\ LineNum = 0 /\ CursorPos = 0
    /\ job.what = "char" => CursorPos + FontSize + 1 - job.i <= MAX_SEG

IInv == TypeOK /\ JobInv /\ PanelFollows
-----------------------------------------------------------------------------
(* Arithmetic. *)

LEMMA Constants ==
    MAX_SEG \in Nat \ {0} /\ MAX_LINE \in Nat /\ FontSize \in Nat /\ FontSize < MAX_SEG
BY PanelAssumption, Zenon

LEMMA TotalNat == Total \in Nat /\ Total > 0 /\ Total = MAX_LINE * MAX_SEG + MAX_SEG
BY Constants, SMT DEF Total

\* The cells of the display are numbered line by line, and the last of them is
\* the last of the last line.
LEMMA CellNumber ==
    ASSUME NEW l \in Lines, NEW c \in Segs
    PROVE  /\ l * MAX_SEG + c \in 0 .. Total - 1
           /\ l * MAX_SEG + c + 1 = Total <=> l = MAX_LINE /\ c = MAX_SEG - 1
           /\ (l + 1) * MAX_SEG = l * MAX_SEG + MAX_SEG
<1>. USE Constants, TotalNat DEF Lines, Segs
<1>1. l * MAX_SEG \in Nat
  BY SMT
<1>2. (l + 1) * MAX_SEG = l * MAX_SEG + MAX_SEG
  BY SMT
<1>3. l < MAX_LINE => l * MAX_SEG + MAX_SEG <= MAX_LINE * MAX_SEG
  <2>. SUFFICES ASSUME l < MAX_LINE
                PROVE  l * MAX_SEG + MAX_SEG <= MAX_LINE * MAX_SEG
    OBVIOUS
  <2>1. MAX_LINE - l - 1 \in Nat
    BY SMT
  <2>2. (MAX_LINE - l - 1) * MAX_SEG \in Nat
    BY <2>1, SMT
  <2>3. (MAX_LINE - l - 1) * MAX_SEG = MAX_LINE * MAX_SEG - l * MAX_SEG - MAX_SEG
    BY SMT
  <2>. QED BY <1>1, <2>2, <2>3, SMT
<1>4. CASE l = MAX_LINE
  BY <1>1, <1>2, <1>4, SMT
<1>5. CASE l < MAX_LINE
  BY <1>1, <1>2, <1>3, <1>5, SMT
<1>. QED BY <1>4, <1>5, SMT
-----------------------------------------------------------------------------
(* The panel. *)

\* What a data byte does to the pointer.
LEMMA DrawPointer ==
    ASSUME NEW data \in Bytes, NEW p \in Panels
    PROVE  /\ Draw(p, data) \in Panels
           /\ Draw(p, data).col0 = p.col0 /\ Draw(p, data).line0 = p.line0
           /\ Draw(p, data).col1 = p.col1 /\ Draw(p, data).line1 = p.line1
           /\ Draw(p, data).col = Step(p.col, p.col0, p.col1, MAX_SEG - 1)
           /\ Draw(p, data).line = IF p.col = p.col1
                  THEN Step(p.line, p.line0, p.line1, MAX_LINE) ELSE p.line
           /\ Draw(p, data).power = p.power /\ Draw(p, data).scroll = p.scroll
<1>. DEFINE q == Draw(p, data)
            c == Step(p.col, p.col0, p.col1, MAX_SEG - 1)
            l == IF p.col = p.col1 THEN Step(p.line, p.line0, p.line1, MAX_LINE) ELSE p.line
            r == [p.ram EXCEPT ![<<p.line, p.col>>] = data]
<1>1. c \in Segs /\ l \in Lines
  BY Constants, SMT DEF Panels, Step, Segs, Lines
<1>2. r \in [Cells -> Bytes]
  BY DEF Panels
<1>3. q = [p EXCEPT !.ram = r, !.col = c, !.line = l]
  BY DEF Draw
<1>. QED BY <1>1, <1>2, <1>3 DEF Panels

\* And where it goes.
LEMMA DrawCell ==
    ASSUME NEW p \in Panels, NEW data, NEW x \in Cells
    PROVE  Draw(p, data).ram[x] = IF x = <<p.line, p.col>> THEN data ELSE p.ram[x]
BY DEF Draw, Panels

\* The bytes of a picture, which fills the window of the whole display, go to
\* one cell after the other.
LEMMA DrawNumber ==
    ASSUME NEW data \in Bytes, NEW p \in Panels, NEW i \in Nat,
           p.line0 = 0, p.line1 = MAX_LINE, p.col0 = 0, p.col1 = MAX_SEG - 1,
           p.line * MAX_SEG + p.col = i
    PROVE  /\ i + 1 = Total => Draw(p, data).line = 0 /\ Draw(p, data).col = 0
           /\ i + 1 # Total =>
                  Draw(p, data).line * MAX_SEG + Draw(p, data).col = i + 1
<1>. DEFINE q == Draw(p, data)
<1>1. /\ q.col = Step(p.col, 0, MAX_SEG - 1, MAX_SEG - 1)
      /\ q.line = IF p.col = MAX_SEG - 1 THEN Step(p.line, 0, MAX_LINE, MAX_LINE) ELSE p.line
  BY DrawPointer
<1>2. p.line \in Lines /\ p.col \in Segs
  BY DEF Panels
<1>3. /\ i + 1 = Total <=> p.line = MAX_LINE /\ p.col = MAX_SEG - 1
      /\ (p.line + 1) * MAX_SEG = p.line * MAX_SEG + MAX_SEG
  BY <1>2, CellNumber
<1>4. p.line * MAX_SEG \in Int
  BY <1>2, Constants, SMT DEF Lines
<1>. HIDE DEF q
<1>5. CASE i + 1 = Total
  BY <1>1, <1>3, <1>5 DEF Step, q
<1>6. CASE i + 1 # Total /\ p.col # MAX_SEG - 1
  <2>1. q.line = p.line /\ q.col = p.col + 1
    BY <1>1, <1>6 DEF Step
  <2>2. q.line * MAX_SEG + q.col = i + 1
    BY <1>2, <1>4, <2>1, SMT DEF Segs
  <2>. QED BY <1>6, <2>2 DEF q
<1>7. CASE i + 1 # Total /\ p.col = MAX_SEG - 1
  <2>1. p.line # MAX_LINE
    BY <1>3, <1>7
  <2>2. q.line = p.line + 1 /\ q.col = 0
    BY <1>1, <1>7, <2>1 DEF Step
  <2>3. q.line * MAX_SEG + q.col = i + 1
    BY <1>3, <1>4, <1>7, <2>2, Constants, SMT
  <2>. QED BY <1>7, <2>3 DEF q
<1>. QED BY <1>5, <1>6, <1>7

\* The scroll engine moves the RAM only.
LEMMA ScrolledKeeps ==
    ASSUME NEW p \in Panels
    PROVE  /\ Scrolled(p) \in Panels
           /\ Scrolled(p).power = p.power /\ Scrolled(p).scroll = p.scroll
           /\ Scrolled(p).line = p.line /\ Scrolled(p).line0 = p.line0 /\ Scrolled(p).line1 = p.line1
           /\ Scrolled(p).col = p.col /\ Scrolled(p).col0 = p.col0 /\ Scrolled(p).col1 = p.col1
<1>. DEFINE r == [x \in Cells |->
         IF x[1] \in p.scroll THEN p.ram[<<x[1], (x[2] + 1) % MAX_SEG>>] ELSE p.ram[x]]
<1>1. r \in [Cells -> Bytes]
  <2>. SUFFICES ASSUME NEW x \in Cells
                PROVE  r[x] \in Bytes
    OBVIOUS
  <2>1. x[1] \in Lines /\ x[2] \in Segs
    BY DEF Cells
  <2>2. (x[2] + 1) % MAX_SEG \in Segs
    BY <2>1, Constants, SMT DEF Segs
  <2>3. <<x[1], (x[2] + 1) % MAX_SEG>> \in Cells
    BY <2>1, <2>2 DEF Cells
  <2>. QED BY <2>3 DEF Panels
<1>2. Scrolled(p) = [p EXCEPT !.ram = r]
  BY DEF Scrolled
<1>. HIDE DEF r
<1>. QED BY <1>1, <1>2 DEF Panels

\* What SetCursor does to it.
LEMMA WindowPointer ==
    ASSUME NEW l \in Lines, NEW p \in Segs, panel \in Panels
    PROVE  /\ Window(l, p) \in Panels
           /\ Window(l, p).line = l /\ Window(l, p).line0 = l /\ Window(l, p).line1 = MAX_LINE
           /\ Window(l, p).col = p /\ Window(l, p).col0 = p /\ Window(l, p).col1 = MAX_SEG - 1
<1>1. MAX_LINE \in Lines /\ MAX_SEG - 1 \in Segs
  BY Constants, SMT DEF Lines, Segs
<1>. QED BY <1>1 DEF Panels, Window, SetColumns, SetPages

\* A call that moves the cursor, and then starts the loop j or none.
LEMMA MoveKeeps ==
    ASSUME TypeOK, NEW l \in Lines, NEW p \in Segs, MoveTo(l, p), display' = "up",
           job' \in Jobs,
           \/ job'.what = "none"
           \/ job'.what \in {"fill", "logo"} /\ l = 0 /\ p = 0 /\ job'.i = 0
           \/ job'.what = "char" /\ p + FontSize < MAX_SEG /\ job'.i = 0
    PROVE  IInv'
<1>1. /\ panel' \in Panels
      /\ panel'.line = l /\ panel'.line0 = l /\ panel'.line1 = MAX_LINE
      /\ panel'.col = p /\ panel'.col0 = p /\ panel'.col1 = MAX_SEG - 1
      /\ LineNum' = l /\ CursorPos' = p
  BY WindowPointer DEF TypeOK, MoveTo
<1>2. TypeOK'
  BY <1>1, Constants, SMT DEF TypeOK, Segs
<1>3. JobInv'
  BY <1>1, Constants, SMT DEF JobInv, Segs
<1>4. PanelFollows'
  BY <1>1, Constants, SMT DEF PanelFollows, Segs, Lines
<1>. QED BY <1>2, <1>3, <1>4 DEF IInv
-----------------------------------------------------------------------------
(* The loops. *)

\* The round of a loop over n bytes.
LEMMA RoundJobs ==
    ASSUME job \in Jobs, job.what # "none", NEW n \in Nat, Round(n),
           n = IF job.what = "char" THEN FontSize + 1 ELSE Total
    PROVE  /\ job' \in Jobs
           /\ job.i \in 0 .. n - 1
           /\ job.i + 1 = n => job' = Idle
           /\ job.i + 1 # n => job'.what = job.what /\ job'.i = job.i + 1
<1>1. CASE job.what = "char"
  <2>1. job \in [what : {"char"}, i : 0 .. FontSize, c : Chars]
    BY <1>1 DEF Jobs, Idle
  <2>. QED BY <1>1, <2>1, Constants DEF Round, Jobs, Idle
<1>2. CASE job.what # "char"
  <2>1. job \in [what : {"fill", "logo"}, i : 0 .. Total - 1]
    BY <1>2 DEF Jobs, Idle
  <2>. QED BY <1>2, <2>1, TotalNat DEF Round, Jobs, Idle
<1>. QED BY <1>1, <1>2

\* A column of a character: the cursor and the pointer move on together, and
\* behind the end of the line the pointer goes back to where its window starts.
LEMMA WriteColumnKeeps ==
    ASSUME IInv, WriteColumn
    PROVE  IInv'
<1>. DEFINE data == Font(job.c, job.i)
<1>1. TypeOK /\ JobInv /\ PanelFollows /\ job.what = "char" /\ Round(FontSize + 1)
  BY DEF IInv, WriteColumn
<1>2. job \in [what : {"char"}, i : 0 .. FontSize, c : Chars]
  BY <1>1 DEF TypeOK, Jobs, Idle
<1>3. data \in Bytes
  BY <1>2, Constants DEF Font, Bytes
<1>4. /\ job' \in Jobs
      /\ job.i + 1 = FontSize + 1 => job' = Idle
      /\ job.i + 1 # FontSize + 1 => job'.what = "char" /\ job'.i = job.i + 1
  BY <1>1, Constants, RoundJobs DEF TypeOK
<1>5. /\ panel \in Panels /\ panel' = Draw(panel, data)
      /\ CursorPos' = CursorPos + 1 /\ LineNum' = LineNum /\ display' = display
  BY <1>1 DEF TypeOK, WriteColumn
<1>6. /\ panel' \in Panels
      /\ panel'.col0 = panel.col0 /\ panel'.line0 = panel.line0
      /\ panel'.col1 = panel.col1 /\ panel'.line1 = panel.line1
      /\ panel'.col = Step(panel.col, panel.col0, panel.col1, MAX_SEG - 1)
      /\ panel'.line = IF panel.col = panel.col1
             THEN Step(panel.line, panel.line0, panel.line1, MAX_LINE) ELSE panel.line
  BY <1>3, <1>5, DrawPointer
<1>7. /\ display = "up"
      /\ CursorPos \in 0 .. MAX_SEG - 1
      /\ CursorPos + FontSize + 1 - job.i <= MAX_SEG
      /\ panel.col1 = MAX_SEG - 1 /\ panel.line1 = MAX_LINE
      /\ panel.line = LineNum /\ panel.col = CursorPos
  <2>1. display = "up"
    BY <1>1 DEF TypeOK, JobInv, Idle
  <2>2. CursorPos + FontSize + 1 - job.i <= MAX_SEG /\ job.i \in 0 .. FontSize
    BY <1>1, <1>2 DEF JobInv
  <2>3. CursorPos \in 0 .. MAX_SEG - 1
    BY <1>1, <2>2, Constants, SMT DEF TypeOK
  <2>. QED BY <1>1, <2>1, <2>2, <2>3, Constants, SMT DEF PanelFollows
<1>8. TypeOK'
  BY <1>1, <1>4, <1>5, <1>6, <1>7, Constants, SMT DEF TypeOK
<1>9. JobInv'
  BY <1>2, <1>4, <1>5, <1>7, Constants, SMT DEF JobInv, Idle
<1>10. PanelFollows'
  <2>1. LineNum \in 0 .. MAX_LINE
    BY <1>1 DEF TypeOK, Lines
  <2>2. job'.what \notin {"fill", "logo"}
    BY <1>2, <1>4 DEF Idle
  <2>3. CASE CursorPos = MAX_SEG - 1
    <3>1. panel'.col = panel'.col0
      BY <1>6, <1>7, <2>3 DEF Step
    <3>2. panel'.line = IF LineNum = MAX_LINE THEN panel'.line0 ELSE LineNum + 1
      BY <1>6, <1>7, <2>3 DEF Step
    <3>3. ~(CursorPos' < MAX_SEG)
      BY <1>5, <2>3, Constants, SMT
    <3>. QED BY <1>5, <1>6, <1>7, <2>2, <3>1, <3>2, <3>3 DEF PanelFollows
  <2>4. CASE CursorPos # MAX_SEG - 1
    <3>1. panel'.col = CursorPos' /\ panel'.line = LineNum'
      BY <1>5, <1>6, <1>7, <2>4 DEF Step
    <3>2. CursorPos' < MAX_SEG
      BY <1>5, <1>7, <2>4, Constants, SMT
    <3>. QED BY <1>5, <1>6, <1>7, <2>2, <3>1, <3>2 DEF PanelFollows
  <2>. QED BY <2>3, <2>4
<1>. QED BY <1>8, <1>9, <1>10 DEF IInv

\* A byte of the blank screen or of the logo.
LEMMA PaintKeeps ==
    ASSUME IInv, job.what \in {"fill", "logo"}, NEW data \in Bytes,
           panel' = Draw(panel, data), Round(Total), UNCHANGED <<cursor, display>>
    PROVE  IInv'
<1>1. TypeOK /\ JobInv /\ PanelFollows
  BY DEF IInv
<1>2. /\ job' \in Jobs /\ job.i \in 0 .. Total - 1
      /\ job.i + 1 = Total => job' = Idle
      /\ job.i + 1 # Total => job'.what = job.what /\ job'.i = job.i + 1
  BY <1>1, TotalNat, RoundJobs DEF TypeOK
<1>3. /\ panel \in Panels /\ LineNum' = LineNum /\ CursorPos' = CursorPos /\ display' = display
  BY <1>1 DEF TypeOK, cursor
<1>4. /\ panel' \in Panels
      /\ panel'.col0 = panel.col0 /\ panel'.line0 = panel.line0
      /\ panel'.col1 = panel.col1 /\ panel'.line1 = panel.line1
      /\ panel'.col = Step(panel.col, panel.col0, panel.col1, MAX_SEG - 1)
      /\ panel'.line = IF panel.col = panel.col1
             THEN Step(panel.line, panel.line0, panel.line1, MAX_LINE) ELSE panel.line
  BY <1>3, DrawPointer
<1>5. display = "up"
  BY <1>1 DEF TypeOK, JobInv, Idle
<1>6. /\ panel.col1 = MAX_SEG - 1 /\ panel.line1 = MAX_LINE
      /\ panel.col0 = 0 /\ panel.line0 = 0 /\ LineNum = 0 /\ CursorPos = 0
      /\ panel.line * MAX_SEG + panel.col = job.i
  BY <1>1, <1>5 DEF PanelFollows, JobInv
<1>9. TypeOK'
  BY <1>1, <1>2, <1>3, <1>4 DEF TypeOK
<1>10. JobInv'
  BY <1>2, <1>3, <1>4, <1>5, <1>6 DEF JobInv, Idle
<1>11. PanelFollows'
  <2>1. CASE job.i + 1 = Total
    <3>1. panel'.col = 0 /\ panel'.line = 0
      BY <1>2, <1>3, <1>6, <2>1, DrawNumber
    <3>. QED BY <1>2, <1>3, <1>4, <1>6, <2>1, <3>1, Constants DEF PanelFollows, Idle
  <2>2. CASE job.i + 1 # Total
    <3>1. panel'.line * MAX_SEG + panel'.col = job.i + 1
      BY <1>2, <1>3, <1>6, <2>2, TotalNat, DrawNumber
    <3>. QED BY <1>2, <1>3, <1>4, <1>6, <2>2, <3>1 DEF PanelFollows
  <2>. QED BY <2>1, <2>2
<1>. QED BY <1>9, <1>10, <1>11 DEF IInv
-----------------------------------------------------------------------------
(* The calls. *)

LEMMA SomeJobs == Idle \in Jobs /\ Fill \in Jobs /\ Picture \in Jobs /\ \A c \in Chars : Character(c) \in Jobs
BY TotalNat, Constants, SMT DEF Jobs, Idle, Fill, Picture, Character

LEMMA NextLineLines ==
    ASSUME TypeOK
    PROVE  NextLine \in Lines /\ 0 \in Segs /\ 0 \in Lines
BY Constants, SMT DEF TypeOK, NextLine, Lines, Segs

\* A character starts at the cursor if it fits there, or in the next line.
LEMMA PrintCharKeeps ==
    ASSUME IInv, NEW c \in Chars, PrintChar(c)
    PROVE  IInv'
<1>1. TypeOK /\ JobInv /\ PanelFollows /\ display = "up" /\ display' = "up"
  BY DEF IInv, PrintChar, Callable
<1>2. job' = Character(c) /\ job' \in Jobs /\ job'.what = "char" /\ job'.i = 0 /\ job = Idle
  BY SomeJobs DEF PrintChar, Character, Callable
<1>3. CASE LineFull
  <2>1. MoveTo(NextLine, 0)
    BY <1>3 DEF PrintChar
  <2>. QED BY <1>1, <1>2, <2>1, NextLineLines, MoveKeeps, Constants
<1>4. CASE ~LineFull
  <2>1. UNCHANGED <<LineNum, CursorPos, panel>>
    BY <1>4 DEF PrintChar, cursor
  <2>2. CursorPos \in 0 .. MAX_SEG /\ CursorPos + FontSize < MAX_SEG
    BY <1>1, <1>4, Constants, SMT DEF TypeOK, LineFull
  <2>3. TypeOK'
    BY <1>1, <1>2, <2>1 DEF TypeOK
  <2>4. JobInv'
    BY <1>1, <1>2, <2>1, <2>2, Constants, SMT DEF JobInv
  <2>5. PanelFollows'
    <3>1. job.what = "none"
      BY <1>2 DEF Idle
    <3>2. CursorPos < MAX_SEG
      BY <2>2, Constants, SMT
    <3>. QED BY <1>1, <1>2, <2>1, <3>1, <3>2 DEF PanelFollows
  <2>. QED BY <2>3, <2>4, <2>5 DEF IInv
<1>. QED BY <1>3, <1>4

\* Behind the reset the whole display is blanked from its first byte on.
LEMMA DisplayInitKeeps ==
    ASSUME IInv, DisplayInit
    PROVE  IInv'
<1>1. panel \in Panels
  BY DEF IInv, TypeOK
<1>2. /\ 0 \in Lines /\ MAX_LINE \in Lines /\ 0 \in Segs /\ MAX_SEG - 1 \in Segs
  BY Constants, SMT DEF Lines, Segs
<1>3. /\ panel' \in Panels
      /\ panel'.line = 0 /\ panel'.line0 = 0 /\ panel'.line1 = MAX_LINE
      /\ panel'.col = 0 /\ panel'.col0 = 0 /\ panel'.col1 = MAX_SEG - 1
  BY <1>1, <1>2 DEF DisplayInit, Reset, Panels
<1>4. /\ display' = "up" /\ LineNum' = 0 /\ CursorPos' = 0 /\ job' = Fill
  BY DEF DisplayInit
<1>5. job' \in Jobs /\ job'.what = "fill" /\ job'.i = 0
  BY <1>4, SomeJobs DEF Fill
<1>6. TypeOK'
  BY <1>2, <1>3, <1>4, <1>5, Constants, SMT DEF TypeOK
<1>7. JobInv'
  BY <1>3, <1>4, <1>5 DEF JobInv
<1>8. PanelFollows'
  BY <1>3, <1>4, <1>5, Constants, SMT DEF PanelFollows
<1>. QED BY <1>6, <1>7, <1>8 DEF IInv

\* The registers, the lines, and nothing at all.
LEMMA QuietKeeps ==
    ASSUME IInv, UNCHANGED <<LineNum, CursorPos, job>>, display' \in {"up", "down"},
           display' # display => display' = "down" /\ job = Idle,
           panel' \in Panels,
           /\ panel'.line = panel.line /\ panel'.line0 = panel.line0 /\ panel'.line1 = panel.line1
           /\ panel'.col = panel.col /\ panel'.col0 = panel.col0 /\ panel'.col1 = panel.col1
    PROVE  IInv'
<1>1. TypeOK /\ JobInv /\ PanelFollows
  BY DEF IInv
<1>2. TypeOK'
  BY <1>1 DEF TypeOK
<1>3. JobInv'
  BY <1>1 DEF JobInv, Idle
<1>4. PanelFollows'
  BY <1>1 DEF PanelFollows
<1>. QED BY <1>2, <1>3, <1>4 DEF IInv

LEMMA InitInv == Init => IInv
<1>. SUFFICES ASSUME Init
              PROVE  IInv
  OBVIOUS
<1>1. 0 \in Lines /\ MAX_LINE \in Lines /\ 0 \in Segs /\ MAX_SEG - 1 \in Segs
  BY Constants, SMT DEF Lines, Segs
<1>2. panel \in Panels
  BY <1>1 DEF Init, Reset, Panels, Bytes
<1>3. TypeOK
  BY <1>1, <1>2, SomeJobs, Constants, SMT DEF Init, TypeOK
<1>4. JobInv /\ PanelFollows
  BY DEF Init, JobInv, PanelFollows, Idle
<1>. QED BY <1>3, <1>4 DEF IInv

LEMMA NextInv ==
    ASSUME IInv, [Next]_vars
    PROVE  IInv'
<1>1. TypeOK
  BY DEF IInv
<1>2. ASSUME NEW l \in Lines, NEW p \in Segs, SetCursor(l, p)
      PROVE  IInv'
  <2>1. MoveTo(l, p) /\ display' = "up" /\ job' = Idle
    BY <1>2 DEF SetCursor, Callable
  <2>2. job' \in Jobs /\ job'.what = "none"
    BY <2>1, SomeJobs DEF Idle
  <2>. QED BY <1>1, <2>1, <2>2, MoveKeeps
<1>3. CASE PrintNewline
  <2>1. MoveTo(NextLine, 0) /\ display' = "up" /\ job' = Idle
    BY <1>3 DEF PrintNewline, GoToNextLine, Callable
  <2>2. job' \in Jobs /\ job'.what = "none"
    BY <2>1, SomeJobs DEF Idle
  <2>. QED BY <1>1, <2>1, <2>2, NextLineLines, MoveKeeps
<1>4. ASSUME NEW c \in Chars, PrintChar(c)
      PROVE  IInv'
  BY <1>4, PrintCharKeeps
<1>5. CASE ClearDisplay \/ PrintLogo
  <2>1. MoveTo(0, 0) /\ display' = "up" /\ job' \in {Fill, Picture}
    BY <1>5 DEF ClearDisplay, PrintLogo, Callable
  <2>2. job' \in Jobs /\ job'.what \in {"fill", "logo"} /\ job'.i = 0
    BY <2>1, SomeJobs DEF Fill, Picture
  <2>. QED BY <1>1, <2>1, <2>2, NextLineLines, MoveKeeps
<1>6. CASE WriteColumn
  BY <1>6, WriteColumnKeeps
<1>7. CASE WriteFill
  <2>1. Blank \in Bytes
    BY DEF Bytes
  <2>. QED BY <1>7, <2>1, PaintKeeps DEF WriteFill
<1>8. CASE WriteLogo
  <2>1. job \in [what : {"fill", "logo"}, i : 0 .. Total - 1]
    BY <1>1, <1>8 DEF WriteLogo, TypeOK, Jobs, Idle
  <2>2. <<"logo", job.i>> \in Bytes
    BY <2>1 DEF Bytes
  <2>. QED BY <1>8, <2>2, PaintKeeps DEF WriteLogo
<1>9. CASE SetBrightness \/ InvertDisplay \/ UNCHANGED vars
  <2>1. /\ UNCHANGED <<LineNum, CursorPos, job>> /\ panel' = panel
        /\ display' = display /\ display' \in {"up", "down"}
    BY <1>1, <1>9 DEF SetBrightness, InvertDisplay, vars, TypeOK
  <2>. QED BY <1>1, <2>1, QuietKeeps DEF TypeOK
<1>10. ASSUME NEW lines \in SUBSET Lines, Scroll(lines)
       PROVE  IInv'
  <2>1. /\ UNCHANGED <<LineNum, CursorPos, job>>
        /\ panel' = [panel EXCEPT !.scroll = lines]
        /\ display' = display /\ display' \in {"up", "down"}
    BY <1>1, <1>10 DEF Scroll, cursor, TypeOK
  <2>2. /\ panel' \in Panels
        /\ panel'.line = panel.line /\ panel'.line0 = panel.line0 /\ panel'.line1 = panel.line1
        /\ panel'.col = panel.col /\ panel'.col0 = panel.col0 /\ panel'.col1 = panel.col1
    BY <1>1, <2>1 DEF TypeOK, Panels
  <2>. QED BY <2>1, <2>2, QuietKeeps
<1>11. ASSUME NEW l \in Lines, StartScrollHorizontal(0, l) \/ StartScrollVerticalHorizontal(0, l)
       PROVE  IInv'
  <2>1. 0 .. l \in SUBSET Lines
    BY Constants, SMT DEF Lines
  <2>. QED BY <1>10, <1>11, <2>1 DEF StartScrollHorizontal, StartScrollVerticalHorizontal
<1>12. CASE DeactivateScroll
  BY <1>10, <1>12 DEF DeactivateScroll
<1>13. CASE DisplayInit
  BY <1>13, DisplayInitKeeps
<1>14. CASE DisplayDeInit
  <2>1. /\ UNCHANGED <<LineNum, CursorPos, job>> /\ panel' = panel
        /\ display' = "down" /\ job = Idle
    BY <1>14 DEF DisplayDeInit, Callable, cursor
  <2>. QED BY <1>1, <2>1, QuietKeeps DEF TypeOK
<1>. QED BY <1>2, <1>3, <1>4, <1>5, <1>6, <1>7, <1>8, <1>9, <1>11, <1>12, <1>13, <1>14 DEF Next, Write

THEOREM Invariant == Spec => []IInv
<1>1. IInv /\ [Next]_vars => IInv'
  BY NextInv
<1>. QED BY InitInv, <1>1, PTL DEF Spec

\* The driver's variables, its loops and the panel keep their types: no byte
\* leaves the display RAM, whatever is printed wherever.
THEOREM TypeCorrect == Spec => []TypeOK
<1>1. IInv => TypeOK
  BY DEF IInv
<1>. QED BY Invariant, <1>1, PTL

\* The driver never loses the panel's pointer, which it cannot read.
THEOREM PointerFollows == Spec => []PanelFollows
<1>1. IInv => PanelFollows
  BY DEF IInv
<1>. QED BY Invariant, <1>1, PTL
-----------------------------------------------------------------------------
(* The screen. *)

\* The number of a cell tells it from all others.
LEMMA CellsDiffer ==
    ASSUME NEW l \in Lines, NEW c \in Segs, NEW x \in Cells,
           x[1] * MAX_SEG + x[2] = l * MAX_SEG + c
    PROVE  x[1] = l /\ x[2] = c
<1>1. x[1] \in Lines /\ x[2] \in Segs
  BY DEF Cells
<1>. USE Constants DEF Lines, Segs
<1>2. ASSUME NEW a \in Lines, NEW b \in Lines, a < b
      PROVE  a * MAX_SEG + MAX_SEG <= b * MAX_SEG
  <2>1. b - a - 1 \in Nat
    BY <1>2, SMT
  <2>2. (b - a - 1) * MAX_SEG \in Nat
    BY <2>1, SMT
  <2>3. (b - a - 1) * MAX_SEG = b * MAX_SEG - a * MAX_SEG - MAX_SEG
    BY SMT
  <2>4. a * MAX_SEG \in Int /\ b * MAX_SEG \in Int
    BY SMT
  <2>. QED BY <2>2, <2>3, <2>4, SMT
<1>3. x[1] * MAX_SEG \in Int /\ l * MAX_SEG \in Int
  BY <1>1, SMT
<1>4. ~(x[1] < l)
  <2>. SUFFICES ASSUME x[1] < l
                PROVE  FALSE
    OBVIOUS
  <2>1. x[1] * MAX_SEG + MAX_SEG <= l * MAX_SEG
    BY <1>1, <1>2
  <2>. QED BY <1>1, <1>3, <2>1, SMT
<1>5. ~(l < x[1])
  <2>. SUFFICES ASSUME l < x[1]
                PROVE  FALSE
    OBVIOUS
  <2>1. l * MAX_SEG + MAX_SEG <= x[1] * MAX_SEG
    BY <1>1, <1>2
  <2>. QED BY <1>1, <1>3, <2>1, SMT
<1>6. x[1] = l
  <2>1. \A a, b \in Int : ~(a < b) /\ ~(b < a) => a = b
    BY SMT
  <2>2. x[1] \in Int /\ l \in Int
    BY <1>1, SMT
  <2>. QED BY <1>4, <1>5, <2>1, <2>2, Zenon
<1>. QED BY <1>1, <1>3, <1>6, SMT

\* Between two jobs the screen is the RAM.
LEMMA ScreenAtRest ==
    ASSUME job = Idle, panel \in Panels
    PROVE  screen = panel.ram /\ pos = CursorPos
<1>1. \A x : ~Ahead(x)
  BY DEF Ahead, Idle
<1>2. screen = panel.ram
  BY <1>1 DEF screen, Panels
<1>3. pos = CursorPos
  BY DEF pos, Idle
<1>. QED BY <1>2, <1>3
-----------------------------------------------------------------------------
(* The steps. *)

\* A job's byte lands where the screen has it already.
LEMMA WriteColumnHides ==
    ASSUME IInv, WriteColumn
    PROVE  UNCHANGED <<screen, LineNum, pos>>
<1>1. TypeOK /\ JobInv /\ PanelFollows /\ job.what = "char" /\ Round(FontSize + 1)
  BY DEF IInv, WriteColumn
<1>2. job \in [what : {"char"}, i : 0 .. FontSize, c : Chars] /\ panel \in Panels
  BY <1>1 DEF TypeOK, Jobs, Idle
<1>3. /\ panel' = Draw(panel, Font(job.c, job.i))
      /\ CursorPos' = CursorPos + 1 /\ LineNum' = LineNum
  BY DEF WriteColumn
<1>4. /\ CursorPos \in 0 .. MAX_SEG - 1
      /\ panel.line = LineNum /\ panel.col = CursorPos
  <2>1. display = "up"
    BY <1>1 DEF TypeOK, JobInv, Idle
  <2>2. CursorPos + FontSize + 1 - job.i <= MAX_SEG /\ job.i \in 0 .. FontSize
    BY <1>1, <1>2 DEF JobInv
  <2>3. CursorPos \in 0 .. MAX_SEG - 1
    BY <1>1, <2>2, Constants, SMT DEF TypeOK
  <2>. QED BY <1>1, <2>1, <2>3, Constants, SMT DEF PanelFollows
<1>5. ASSUME NEW x \in Cells
      PROVE  /\ x[1] \in Lines /\ x[2] \in Segs
             /\ x = <<panel.line, panel.col>> <=> x[1] = LineNum /\ x[2] = CursorPos
             /\ panel'.ram[x] = IF x[1] = LineNum /\ x[2] = CursorPos
                                THEN Font(job.c, job.i) ELSE panel.ram[x]
  <2>1. x[1] \in Lines /\ x[2] \in Segs /\ x = <<x[1], x[2]>>
    BY DEF Cells
  <2>2. x = <<panel.line, panel.col>> <=> x[1] = LineNum /\ x[2] = CursorPos
    BY <1>4, <2>1
  <2>. QED BY <1>2, <1>3, <2>1, <2>2, DrawCell
<1>6. CASE job.i = FontSize
  <2>1. job' = Idle
    BY <1>1, <1>6 DEF Round
  <2>2. pos = CursorPos' /\ pos' = CursorPos'
    BY <1>2, <1>3, <1>4, <1>6, <2>1, Constants, SMT DEF pos, Idle
  <2>3. ASSUME NEW x \in Cells
        PROVE  (IF Ahead(x) THEN Coming(x) ELSE panel.ram[x])
                   = (IF Ahead(x)' THEN Coming(x)' ELSE panel'.ram[x])
    <3>1. ~Ahead(x)'
      BY <2>1 DEF Ahead, Idle
    <3>2. Ahead(x) <=> x[1] = LineNum /\ x[2] = CursorPos
      BY <1>1, <1>4, <1>5, <1>6, Constants, SMT DEF Ahead, Segs
    <3>3. Ahead(x) => Coming(x) = Font(job.c, job.i)
      <4>1. Ahead(x) => job.i + x[2] - CursorPos = job.i
        BY <1>2, <1>4, <3>2, Constants, SMT
      <4>. QED BY <1>1, <4>1 DEF Coming
    <3>. QED BY <1>5, <3>1, <3>2, <3>3
  <2>4. screen' = screen
    BY <2>3 DEF screen
  <2>. QED BY <1>3, <2>2, <2>4
<1>7. CASE job.i # FontSize
  <2>1. job' = [job EXCEPT !.i = job.i + 1]
    BY <1>1, <1>2, <1>7, Constants DEF Round
  <2>2. job'.what = "char" /\ job'.i = job.i + 1 /\ job'.c = job.c
    BY <1>2, <2>1
  <2>3. pos' = pos
    BY <1>1, <1>2, <1>3, <1>4, <2>2, Constants, SMT DEF pos
  <2>4. ASSUME NEW x \in Cells
        PROVE  (IF Ahead(x) THEN Coming(x) ELSE panel.ram[x])
                   = (IF Ahead(x)' THEN Coming(x)' ELSE panel'.ram[x])
    <3>1. Ahead(x)' <=> Ahead(x) /\ x[2] # CursorPos
      BY <1>1, <1>2, <1>3, <1>4, <1>5, <2>2, Constants, SMT DEF Ahead, Segs
    <3>2. x[1] = LineNum /\ x[2] = CursorPos => Ahead(x)
      BY <1>1, <1>2, <1>4, <1>5, Constants, SMT DEF Ahead, Segs
    <3>3. Ahead(x) => x[1] = LineNum
      BY <1>1 DEF Ahead
    <3>4. job'.i + x[2] - CursorPos' = job.i + x[2] - CursorPos
      BY <1>2, <1>3, <1>4, <1>5, <2>2, Constants, SMT DEF Segs
    <3>5. Coming(x)' = Coming(x)
      BY <1>1, <2>2, <3>4 DEF Coming
    <3>6. x[2] = CursorPos => Coming(x) = Font(job.c, job.i)
      <4>1. x[2] = CursorPos => job.i + x[2] - CursorPos = job.i
        BY <1>2, <1>4, Constants, SMT
      <4>. QED BY <1>1, <4>1 DEF Coming
    <3>. QED BY <1>5, <3>1, <3>2, <3>3, <3>5, <3>6
  <2>5. screen' = screen
    BY <2>4 DEF screen
  <2>. QED BY <1>3, <2>3, <2>5
<1>. QED BY <1>6, <1>7

\* So does a byte of the blank screen or of the logo.
LEMMA PaintHides ==
    ASSUME IInv, job.what \in {"fill", "logo"}, NEW data, panel' = Draw(panel, data),
           data = IF job.what = "fill" THEN Blank ELSE <<"logo", job.i>>,
           Round(Total), UNCHANGED cursor
    PROVE  UNCHANGED <<screen, LineNum, pos>>
<1>1. TypeOK /\ JobInv /\ PanelFollows
  BY DEF IInv
<1>2. /\ job \in [what : {"fill", "logo"}, i : 0 .. Total - 1] /\ panel \in Panels
      /\ panel.line \in Lines /\ panel.col \in Segs
  BY <1>1 DEF TypeOK, Jobs, Idle, Panels
<1>3. /\ job' = IF job.i + 1 = Total THEN Idle ELSE [job EXCEPT !.i = job.i + 1]
      /\ LineNum' = LineNum /\ CursorPos' = CursorPos
  BY DEF Round, cursor
<1>4. panel.line * MAX_SEG + panel.col = job.i
  BY <1>1 DEF TypeOK, JobInv, PanelFollows, Idle
<1>5. pos' = pos
  BY <1>2, <1>3 DEF pos, Idle
<1>6. ASSUME NEW x \in Cells
      PROVE  (IF Ahead(x) THEN Coming(x) ELSE panel.ram[x])
                 = (IF Ahead(x)' THEN Coming(x)' ELSE panel'.ram[x])
  <2>. DEFINE n == x[1] * MAX_SEG + x[2]
  <2>1. x[1] \in Lines /\ x[2] \in Segs /\ x = <<x[1], x[2]>>
    BY DEF Cells
  <2>2. n \in 0 .. Total - 1
    BY <2>1, CellNumber
  <2>3. x = <<panel.line, panel.col>> <=> n = job.i
    <3>1. n = job.i => x[1] = panel.line /\ x[2] = panel.col
      BY <1>2, <1>4, CellsDiffer
    <3>. QED BY <1>4, <2>1, <3>1
  <2>4. panel'.ram[x] = IF n = job.i THEN data ELSE panel.ram[x]
    BY <1>2, <2>3, DrawCell
  <2>5. Ahead(x) <=> n >= job.i
    BY <1>2 DEF Ahead
  <2>6. n = job.i => Coming(x) = data
    BY <1>2 DEF Coming, Logo
  <2>7. CASE job.i + 1 = Total
    <3>1. ~Ahead(x)'
      BY <1>3, <2>7 DEF Ahead, Idle
    <3>2. n >= job.i => n = job.i
      BY <1>2, <2>2, <2>7, TotalNat, SMT
    <3>3. n = job.i => n >= job.i
      BY <1>2, TotalNat, SMT
    <3>. HIDE DEF n
    <3>. QED BY <2>4, <2>5, <2>6, <3>1, <3>2, <3>3
  <2>8. CASE job.i + 1 # Total
    <3>1. job'.what = job.what /\ job'.i = job.i + 1
      BY <1>2, <1>3, <2>8
    <3>2. Ahead(x)' <=> n >= job.i + 1
      BY <1>2, <3>1 DEF Ahead
    <3>3. Coming(x)' = Coming(x)
      BY <1>2, <3>1 DEF Coming
    <3>4. (n >= job.i + 1 <=> n >= job.i /\ n # job.i) /\ (n = job.i => n >= job.i)
      BY <1>2, <2>2, TotalNat, SMT
    <3>. HIDE DEF n
    <3>. QED BY <2>4, <2>5, <2>6, <3>2, <3>3, <3>4
  <2>. QED BY <2>7, <2>8
<1>7. screen' = screen
  BY <1>6 DEF screen
<1>. QED BY <1>3, <1>5, <1>7

\* A call that moves the cursor and starts no job.
LEMMA MoveGoes ==
    ASSUME IInv, NEW l \in Lines, NEW p \in Segs, MoveTo(l, p), job = Idle, job' = Idle
    PROVE  Screen!Goto(l, p)
<1>1. panel \in Panels /\ panel' \in Panels /\ panel'.ram = panel.ram
  BY WindowPointer DEF IInv, TypeOK, MoveTo, Window, SetColumns, SetPages, Panels
<1>2. LineNum' = l /\ CursorPos' = p
  BY DEF MoveTo
<1>3. screen = panel.ram
  BY <1>1, ScreenAtRest
<1>4. screen' = panel'.ram /\ pos' = CursorPos'
  <2>1. \A x : ~Ahead(x)'
    BY DEF Ahead, Idle
  <2>2. screen' = panel'.ram
    BY <1>1, <2>1 DEF screen, Panels
  <2>. QED BY <2>2 DEF pos, Idle
<1>. QED BY <1>1, <1>2, <1>3, <1>4 DEF Screen!Goto

\* A call that paints the whole display.
LEMMA PaintShows ==
    ASSUME IInv, LineNum' = 0, CursorPos' = 0, job' \in {Fill, Picture}
    PROVE  /\ job' = Fill => Screen!Show([x \in Cells |-> Blank])
           /\ job' = Picture => Screen!Show([x \in Cells |-> Logo(x)])
<1>1. ASSUME NEW x \in Cells
      PROVE  Ahead(x)'
  <2>1. x[1] \in Lines /\ x[2] \in Segs
    BY DEF Cells
  <2>2. x[1] * MAX_SEG + x[2] >= 0
    BY <2>1, CellNumber, TotalNat, SMT
  <2>. QED BY <2>2 DEF Ahead, Fill, Picture
<1>2. pos' = 0
  BY DEF pos, Fill, Picture
<1>3. ASSUME job' = Fill
      PROVE  Screen!Show([x \in Cells |-> Blank])
  <2>1. \A x \in Cells : Coming(x)' = Blank
    BY <1>3 DEF Coming, Fill
  <2>2. screen' = [x \in Cells |-> Blank]
    BY <1>1, <2>1 DEF screen
  <2>. QED BY <1>2, <2>2 DEF Screen!Show
<1>4. ASSUME job' = Picture
      PROVE  Screen!Show([x \in Cells |-> Logo(x)])
  <2>1. \A x \in Cells : Coming(x)' = Logo(x)
    BY <1>4 DEF Coming, Picture
  <2>2. screen' = [x \in Cells |-> Logo(x)]
    BY <1>1, <2>1 DEF screen
  <2>. QED BY <1>2, <2>2 DEF Screen!Show
<1>. QED BY <1>3, <1>4

\* A character appears at once.
LEMMA PrintCharPuts ==
    ASSUME IInv, NEW c \in Chars, PrintChar(c)
    PROVE  Screen!Put(c)
<1>1. TypeOK /\ job = Idle /\ job' = Character(c) /\ panel \in Panels
  BY DEF IInv, PrintChar, Callable, TypeOK
<1>2. screen = panel.ram /\ pos = CursorPos
  BY <1>1, ScreenAtRest
<1>. DEFINE fits == pos + FontSize < MAX_SEG
            l == IF fits THEN LineNum ELSE NextLine
            p == IF fits THEN pos ELSE 0
<1>3. fits <=> ~LineFull
  BY <1>1, <1>2, Constants, SMT DEF TypeOK, LineFull
<1>4. l \in Lines /\ p \in 0 .. MAX_SEG
  BY <1>1, <1>2, NextLineLines, Constants, SMT DEF TypeOK
<1>5. LineNum' = l /\ CursorPos' = p /\ panel'.ram = panel.ram
  <2>1. CASE LineFull
    <3>1. MoveTo(NextLine, 0) /\ ~fits
      BY <1>3, <2>1 DEF PrintChar
    <3>. QED BY <1>1, <3>1 DEF MoveTo, Window, SetColumns, SetPages, Panels
  <2>2. CASE ~LineFull
    BY <1>2, <1>3, <2>2 DEF PrintChar, cursor
  <2>. QED BY <2>1, <2>2
<1>6. job'.what = "char" /\ job'.i = 0 /\ job'.c = c
  BY <1>1 DEF Character
<1>. HIDE DEF l, p
<1>7. pos' = p + FontSize + 1
  BY <1>4, <1>5, <1>6, Constants, SMT DEF pos
<1>8. ASSUME NEW x \in Cells
      PROVE  (IF Ahead(x)' THEN Coming(x)' ELSE panel'.ram[x])
                 = (IF x[1] = l /\ x[2] \in p .. p + FontSize
                    THEN Font(c, x[2] - p) ELSE screen[x])
  <2>1. x[1] \in Lines /\ x[2] \in Segs
    BY DEF Cells
  <2>2. p + FontSize - 0 = p + FontSize /\ 0 + x[2] - p = x[2] - p
    BY <1>4, <2>1, Constants, SMT DEF Segs
  <2>3. Ahead(x)' <=> x[1] = l /\ x[2] \in p .. p + FontSize
    BY <1>5, <1>6, <2>2 DEF Ahead
  <2>4. Coming(x)' = Font(c, x[2] - p)
    BY <1>5, <1>6, <2>2 DEF Coming
  <2>. QED BY <1>2, <1>5, <2>3, <2>4
<1>9. screen' = [x \in Cells |-> IF x[1] = l /\ x[2] \in p .. p + FontSize
                                 THEN Font(c, x[2] - p) ELSE screen[x]]
  BY <1>8 DEF screen
<1>10. Screen!Cells = Cells /\ Screen!NextLine = NextLine
  BY DEF Screen!Cells, Screen!Lines, Screen!Segs, Cells, Lines, Segs, Screen!NextLine, NextLine
<1>. QED BY <1>5, <1>7, <1>9, <1>10, Zenon DEF Screen!Put, l, p

\* What leaves the RAM, the cursor and the job alone.
LEMMA QuietHides ==
    ASSUME UNCHANGED <<LineNum, CursorPos, job>>, panel'.ram = panel.ram
    PROVE  UNCHANGED <<screen, LineNum, pos>>
<1>1. pos' = pos
  BY DEF pos
<1>2. \A x \in Cells : (Ahead(x)' <=> Ahead(x)) /\ Coming(x)' = Coming(x)
  BY DEF Ahead, Coming
<1>3. screen' = screen
  BY <1>2 DEF screen
<1>. QED BY <1>1, <1>3

\* Every step is one of the text screen, or none.
LEMMA ScreenStep ==
    ASSUME IInv, [Next]_vars
    PROVE  [Screen!Next]_(Screen!vars)
<1>. USE DEF Screen!vars
<1>1. TypeOK
  BY DEF IInv
<1>2. ASSUME NEW l \in Lines, NEW p \in Segs, SetCursor(l, p)
      PROVE  Screen!Next
  <2>1. MoveTo(l, p) /\ job = Idle /\ job' = Idle
    BY <1>2 DEF SetCursor, Callable
  <2>2. Screen!Goto(l, p)
    BY <2>1, MoveGoes
  <2>. QED BY <2>2, Zenon DEF Screen!Next, Screen!Lines, Screen!Segs, Lines, Segs
<1>3. CASE PrintNewline
  <2>1. MoveTo(NextLine, 0) /\ job = Idle /\ job' = Idle
    BY <1>3 DEF PrintNewline, GoToNextLine, Callable
  <2>2. Screen!Goto(NextLine, 0)
    BY <1>1, <2>1, NextLineLines, MoveGoes
  <2>. QED BY <2>2 DEF Screen!Next, Screen!NextLine, NextLine
<1>4. ASSUME NEW c \in Chars, PrintChar(c)
      PROVE  Screen!Next
  BY <1>4, PrintCharPuts DEF Screen!Next
<1>5. CASE ClearDisplay \/ PrintLogo \/ DisplayInit
  <2>1. LineNum' = 0 /\ CursorPos' = 0 /\ job' \in {Fill, Picture}
    BY <1>5 DEF ClearDisplay, PrintLogo, DisplayInit, MoveTo
  <2>. QED BY <2>1, PaintShows DEF Screen!Next, Screen!Cells, Screen!Lines, Screen!Segs,
                Screen!Blank, Cells, Lines, Segs, Blank
<1>6. CASE WriteColumn
  BY <1>6, WriteColumnHides
<1>7. CASE WriteFill
  BY <1>7, PaintHides DEF WriteFill
<1>8. CASE WriteLogo
  BY <1>8, PaintHides DEF WriteLogo
<1>9. CASE \/ SetBrightness \/ InvertDisplay \/ DisplayDeInit \/ UNCHANGED vars
           \/ \E lines \in SUBSET Lines : Scroll(lines)
  <2>1. UNCHANGED <<LineNum, CursorPos, job>> /\ panel'.ram = panel.ram
    BY <1>1, <1>9 DEF SetBrightness, InvertDisplay, DisplayDeInit, Scroll, vars, cursor, TypeOK, Panels
  <2>. QED BY <2>1, QuietHides
<1>10. ASSUME NEW l \in Lines, StartScrollHorizontal(0, l) \/ StartScrollVerticalHorizontal(0, l)
       PROVE  \E lines \in SUBSET Lines : Scroll(lines)
  <2>1. 0 .. l \in SUBSET Lines
    BY Constants, SMT DEF Lines
  <2>. QED BY <1>10, <2>1 DEF StartScrollHorizontal, StartScrollVerticalHorizontal
<1>11. DeactivateScroll => \E lines \in SUBSET Lines : Scroll(lines)
  BY DEF DeactivateScroll
<1>. QED BY <1>2, <1>3, <1>4, <1>5, <1>6, <1>7, <1>8, <1>9, <1>10, <1>11 DEF Next, Write

\* The driver and the panel together are a text screen: every call takes effect
\* on the screen at once, every byte where it has to, and nothing else changes,
\* for displays and fonts of every size.  (The scroll engine itself, which moves
\* the contents of the RAM, is OledSpi's.)
THEOREM Refinement == Spec => IsTextScreen
<1>1. Init => Screen!Init
  <2>. SUFFICES ASSUME Init
                PROVE  Screen!Init
    OBVIOUS
  <2>1. IInv /\ job = Idle
    BY InitInv DEF Init
  <2>2. screen = panel.ram /\ pos = CursorPos
    BY <2>1, ScreenAtRest DEF IInv, TypeOK
  <2>. QED BY <2>2 DEF Init, Reset, Screen!Init, Screen!Cells, Screen!Lines, Screen!Segs,
                Screen!Noise, Cells, Lines, Segs, Noise
<1>2. IInv /\ [Next]_vars => [panel.scroll = {} => Screen!Next]_(Screen!vars)
  BY ScreenStep
<1>. QED BY <1>1, <1>2, Invariant, PTL DEF Spec, IsTextScreen
-----------------------------------------------------------------------------
(* OledSpi. *)

\* A call whose arguments the functions of ssd1306.c take.
Legal(call) ==
    /\ call[1] = "SetCursor" => call[2] \in Lines /\ call[3] \in Segs
    /\ call[1] = "StartScroll" => call[2] = 0 /\ call[3] \in Lines
    /\ call[1] = "String" => call[2] \in Seq(Chars \cup {Newline})

IsSeq(s) == s \in Seq({s[i] : i \in 1 .. Len(s)})

Script(s) ==
    /\ IsSeq(s)
    /\ \A i \in 1 .. Len(s) : Legal(s[i])

LogoPicture == [x \in Cells |-> Logo(x)]
BlankPicture == [x \in Cells |-> Blank]

\* With s to do, the logo is or will be painted on a display that stands still.
LogoComes(s) ==
    /\ Len(s) = 0 => screen = LogoPicture
    /\ Len(s) <= 1 => panel.scroll = {}
    /\ Len(s) >= 1 => s[Len(s)] = <<"PrintLogo">>
    /\ Len(s) >= 2 => s[Len(s) - 1] = <<"DeactivateScroll">>

BlankComes(s) ==
    /\ panel.scroll = {}
    /\ Len(s) <= 2
    /\ Len(s) <= 1 => screen = BlankPicture
    /\ Len(s) >= 1 => s[Len(s)] = <<"DisplayDeInit">>
    /\ Len(s) = 2 => s[1] = <<"ClearDisplay">>

\* The display rests but while module_init and module_exit run, and these end
\* as they have to.
SpiInv ==
    /\ IInv
    /\ Script(script)
    /\ phase \in {"out", "init", "in", "exit"}
    /\ phase \in {"out", "in"} => script = <<>> /\ job = Idle /\ panel.scroll = {}
    /\ phase = "init" => LogoComes(script)
    /\ phase = "exit" => BlankComes(script)
    /\ PictureShown

LEMMA SpiInitInv == SpiInit => SpiInv
<1>. SUFFICES ASSUME SpiInit
              PROVE  SpiInv
  OBVIOUS
<1>1. IInv
  BY InitInv DEF SpiInit
<1>2. Script(script)
  BY SMT DEF SpiInit, Script, IsSeq
<1>3. job = Idle /\ panel.scroll = {} /\ panel.ram = [x \in Cells |-> Noise]
  BY DEF SpiInit, Init, Reset
<1>. QED BY <1>1, <1>2, <1>3 DEF SpiInit, SpiInv, PictureShown

LEMMA SeqOfItself ==
    ASSUME NEW S, NEW s \in Seq(S)
    PROVE  IsSeq(s)
BY SMT DEF IsSeq

\* The rest of a script behind its first call; and with less to print in it.
LEMMA ScriptTail ==
    ASSUME NEW s, Script(s), s # <<>>
    PROVE  /\ Script(Tail(s)) /\ Len(Tail(s)) = Len(s) - 1 /\ Len(s) \in Nat \ {0}
           /\ \A i \in 1 .. Len(s) - 1 : Tail(s)[i] = s[i + 1]
           /\ Head(s) = s[1] /\ Legal(s[1])
<1>. DEFINE S == {s[i] : i \in 1 .. Len(s)}
<1>. HIDE DEF S
<1>1. s \in Seq(S)
  BY DEF S, Script, IsSeq
<1>2. /\ Tail(s) \in Seq(S) /\ Len(Tail(s)) = Len(s) - 1 /\ Len(s) \in Nat \ {0}
      /\ \A i \in 1 .. Len(s) - 1 : Tail(s)[i] = s[i + 1]
      /\ Head(s) = s[1]
  BY <1>1, SMT
<1>3. \A i \in 1 .. Len(Tail(s)) : Legal(Tail(s)[i])
  <2>. TAKE i \in 1 .. Len(Tail(s))
  <2>1. i \in 1 .. Len(s) - 1 /\ i + 1 \in 1 .. Len(s)
    BY <1>2, SMT
  <2>. QED BY <1>2, <2>1 DEF Script
<1>4. IsSeq(Tail(s))
  BY <1>2, SeqOfItself, Zenon
<1>5. Legal(s[1])
  BY <1>2, SMT DEF Script
<1>. QED BY <1>2, <1>3, <1>4, <1>5 DEF Script

LEMMA ScriptExcept ==
    ASSUME NEW s, Script(s), s # <<>>, NEW call, Legal(call)
    PROVE  LET t == [s EXCEPT ![1] = call] IN
           Script(t) /\ Len(t) = Len(s) /\ \A i \in 2 .. Len(s) : t[i] = s[i]
<1>. DEFINE t == [s EXCEPT ![1] = call]
<1>. DEFINE S == {s[i] : i \in 1 .. Len(s)} \cup {call}
<1>. HIDE DEF S
<1>1. s \in Seq(S) /\ call \in S
  <2>1. \A i \in 1 .. Len(s) : s[i] \in S
    BY DEF S
  <2>2. s \in Seq({s[i] : i \in 1 .. Len(s)})
    BY DEF Script, IsSeq
  <2>3. s \in Seq(S)
    BY <2>1, <2>2, SMT
  <2>. QED BY <2>3 DEF S
<1>2. t \in Seq(S) /\ Len(t) = Len(s) /\ t[1] = call /\ \A i \in 2 .. Len(s) : t[i] = s[i]
  BY <1>1, SMT
<1>. HIDE DEF t
<1>3. \A i \in 1 .. Len(t) : Legal(t[i])
  <2>. TAKE i \in 1 .. Len(t)
  <2>1. i = 1 \/ i \in 2 .. Len(s)
    BY <1>1, <1>2, SMT
  <2>2. \A j \in 1 .. Len(s) : Legal(s[j])
    BY DEF Script
  <2>. QED BY <1>2, <2>1, <2>2
<1>4. IsSeq(t)
  BY <1>2, SeqOfItself, Zenon
<1>. QED BY <1>2, <1>3, <1>4, Zenon DEF Script, t

\* Every call that oled_spi makes is one that ssd1306.c allows its callers.
LEMMA CallIsNext ==
    ASSUME NEW call, Legal(call), Do(call)
    PROVE  Next
<1>1. CASE call[1] = "SetCursor" /\ SetCursor(call[2], call[3])
  BY <1>1 DEF Legal, Next
<1>2. CASE call[1] = "StartScroll" /\ StartScrollHorizontal(call[2], call[3])
  BY <1>2 DEF Legal, Next
<1>. QED BY <1>1, <1>2, Zenon DEF Do, Next

LEMMA CharIsNext ==
    ASSUME NEW string \in Seq(Chars \cup {Newline}), string # <<>>,
           IF Head(string) = Newline THEN PrintNewline ELSE PrintChar(Head(string))
    PROVE  Next /\ Legal(<<"String", Tail(string)>>)
<1>1. Head(string) \in Chars \cup {Newline} /\ Tail(string) \in Seq(Chars \cup {Newline})
  BY SMT
<1>2. Next
  BY <1>1, Zenon DEF Next
<1>. QED BY <1>1, <1>2 DEF Legal

\* What the calls do that matter at the end of module_init and module_exit.
LEMMA LastCalls ==
    ASSUME IInv
    PROVE  /\ Do(<<"PrintLogo">>) => screen' = LogoPicture /\ panel'.scroll = panel.scroll
           /\ Do(<<"DeactivateScroll">>) => panel'.scroll = {}
           /\ Do(<<"ClearDisplay">>) => screen' = BlankPicture /\ panel'.scroll = panel.scroll
           /\ Do(<<"DisplayDeInit">>) => screen' = screen /\ panel' = panel
<1>1. panel \in Panels
  BY DEF IInv, TypeOK
<1>2. ASSUME MoveTo(0, 0)
      PROVE  panel'.scroll = panel.scroll
  BY <1>1, <1>2 DEF MoveTo, Window, SetColumns, SetPages, Panels
<1>3. Fill # Picture
  BY DEF Fill, Picture
<1>4. ASSUME Do(<<"PrintLogo">>)
      PROVE  screen' = LogoPicture /\ panel'.scroll = panel.scroll
  <2>1. MoveTo(0, 0) /\ job' = Picture
    BY <1>4 DEF Do, PrintLogo
  <2>. QED BY <1>2, <2>1, PaintShows DEF MoveTo, Screen!Show, LogoPicture
<1>5. ASSUME Do(<<"ClearDisplay">>)
      PROVE  screen' = BlankPicture /\ panel'.scroll = panel.scroll
  <2>1. MoveTo(0, 0) /\ job' = Fill
    BY <1>5 DEF Do, ClearDisplay
  <2>. QED BY <1>2, <2>1, PaintShows DEF MoveTo, Screen!Show, BlankPicture
<1>6. ASSUME Do(<<"DeactivateScroll">>)
      PROVE  panel'.scroll = {}
  BY <1>1, <1>6 DEF Do, DeactivateScroll, Scroll, Panels
<1>7. ASSUME Do(<<"DisplayDeInit">>)
      PROVE  screen' = screen /\ panel' = panel
  <2>1. UNCHANGED <<LineNum, CursorPos, job, panel>>
    BY <1>7 DEF Do, DisplayDeInit, cursor
  <2>. QED BY <2>1, QuietHides
<1>. QED BY <1>4, <1>5, <1>6, <1>7

LEMMA MakeCallInv ==
    ASSUME SpiInv, MakeCall
    PROVE  SpiInv'
<1>. DEFINE n == Len(script)
<1>1. /\ script # <<>> /\ Do(script[1]) /\ script' = Tail(script) /\ phase' = phase
      /\ Script(script') /\ Len(script') = n - 1 /\ n \in Nat \ {0}
      /\ \A i \in 1 .. n - 1 : script'[i] = script[i + 1]
      /\ Legal(script[1])
  BY ScriptTail DEF SpiInv, MakeCall
<1>2. IInv /\ IInv'
  BY <1>1, CallIsNext, NextInv DEF SpiInv
<1>3. phase \in {"init", "exit"}
  BY <1>1 DEF SpiInv
<1>4. ASSUME phase = "init"
      PROVE  LogoComes(script)'
  <2>1. LogoComes(script)
    BY <1>4 DEF SpiInv
  <2>2. CASE n = 1
    <3>1. script[1] = <<"PrintLogo">> /\ panel.scroll = {}
      BY <2>1, <2>2 DEF LogoComes
    <3>2. Len(script') = 0
      BY <1>1, <2>2
    <3>3. screen' = LogoPicture /\ panel'.scroll = {}
      BY <1>1, <1>2, <3>1, LastCalls
    <3>. QED BY <3>2, <3>3 DEF LogoComes, LogoPicture
  <2>3. CASE n = 2
    <3>1. script[1] = <<"DeactivateScroll">> /\ script[2] = <<"PrintLogo">>
      BY <2>1, <2>3 DEF LogoComes
    <3>2. Len(script') = 1 /\ script'[1] = script[2]
      BY <1>1, <2>3
    <3>3. panel'.scroll = {}
      BY <1>1, <1>2, <3>1, LastCalls
    <3>. QED BY <3>1, <3>2, <3>3 DEF LogoComes
  <2>4. CASE n >= 3
    <3>1. script[n] = <<"PrintLogo">> /\ script[n - 1] = <<"DeactivateScroll">>
      BY <1>1, <2>1, <2>4 DEF LogoComes
    <3>. HIDE DEF n
    <3>2. /\ n - 1 >= 2 /\ n - 1 \in 1 .. n - 1 /\ n - 2 \in 1 .. n - 1
          /\ n - 1 + 1 = n /\ n - 2 + 1 = n - 1 /\ n - 1 - 1 = n - 2
      BY <1>1, <2>4, SMT
    <3>3. script'[n - 1] = script[n] /\ script'[n - 2] = script[n - 1]
      BY <1>1, <3>2
    <3>. QED BY <1>1, <3>1, <3>2, <3>3, SMT DEF LogoComes
  <2>. QED BY <1>1, <2>2, <2>3, <2>4, SMT
<1>5. ASSUME phase = "exit"
      PROVE  BlankComes(script)'
  <2>1. BlankComes(script)
    BY <1>5 DEF SpiInv
  <2>2. CASE n = 1
    <3>1. script[1] = <<"DisplayDeInit">> /\ screen = BlankPicture /\ panel.scroll = {}
      BY <2>1, <2>2 DEF BlankComes
    <3>2. Len(script') = 0
      BY <1>1, <2>2
    <3>3. screen' = BlankPicture /\ panel'.scroll = {}
      BY <1>1, <1>2, <3>1, LastCalls
    <3>. QED BY <3>2, <3>3 DEF BlankComes, BlankPicture
  <2>3. CASE n = 2
    <3>1. /\ script[1] = <<"ClearDisplay">> /\ script[2] = <<"DisplayDeInit">>
          /\ panel.scroll = {}
      BY <2>1, <2>3 DEF BlankComes
    <3>2. Len(script') = 1 /\ script'[1] = script[2]
      BY <1>1, <2>3
    <3>3. screen' = BlankPicture /\ panel'.scroll = {}
      BY <1>1, <1>2, <3>1, LastCalls
    <3>. QED BY <3>1, <3>2, <3>3 DEF BlankComes, BlankPicture
  <2>4. n <= 2
    BY <2>1 DEF BlankComes
  <2>. QED BY <1>1, <2>2, <2>3, <2>4, SMT
<1>6. PictureShown'
  BY <1>1, <1>3 DEF PictureShown
<1>. QED BY <1>1, <1>2, <1>3, <1>4, <1>5, <1>6, Zenon DEF SpiInv

LEMMA StringInv ==
    ASSUME SpiInv, String
    PROVE  SpiInv'
<1>. DEFINE n == Len(script)
            string == Head(script)[2]
<1>1. /\ script # <<>> /\ phase' = phase /\ script[1][1] = "String"
      /\ Script(script) /\ n \in Nat \ {0} /\ string \in Seq(Chars \cup {Newline})
      /\ Head(script) = script[1]
  <2>1. script # <<>> /\ phase' = phase /\ Head(script)[1] = "String" /\ Script(script)
    BY DEF SpiInv, String
  <2>2. n \in Nat \ {0} /\ Head(script) = script[1] /\ Legal(script[1])
    BY <2>1, ScriptTail
  <2>. QED BY <2>1, <2>2 DEF Legal
<1>2. phase = "init" /\ n >= 3
  <2>1. phase \in {"init", "exit"}
    BY <1>1 DEF SpiInv
  <2>2. phase # "exit"
    <3>. SUFFICES ASSUME phase = "exit"
                  PROVE  FALSE
      OBVIOUS
    <3>1. BlankComes(script)
      BY DEF SpiInv
    <3>2. n # 1 /\ n # 2
      BY <1>1, <3>1 DEF BlankComes
    <3>3. n <= 2
      BY <3>1 DEF BlankComes
    <3>. HIDE DEF n
    <3>. QED BY <1>1, <3>2, <3>3, SMT
  <2>3. phase = "init" => n # 1 /\ n # 2
    <3>. SUFFICES ASSUME phase = "init"
                  PROVE  n # 1 /\ n # 2
      OBVIOUS
    <3>1. LogoComes(script)
      BY DEF SpiInv
    <3>. QED BY <1>1, <3>1 DEF LogoComes
  <2>. HIDE DEF n, string
  <2>. QED BY <1>1, <2>1, <2>2, <2>3, SMT
<1>3. script[n] = <<"PrintLogo">> /\ script[n - 1] = <<"DeactivateScroll">>
  BY <1>2 DEF SpiInv, LogoComes
<1>4. IInv /\ IInv' /\ Script(script)' /\ LogoComes(script)'
  <2>1. CASE string = <<>>
    <3>1. script' = Tail(script) /\ UNCHANGED vars
      BY <2>1 DEF String
    <3>2. IInv /\ IInv'
      BY <3>1, NextInv DEF SpiInv
    <3>3. /\ Script(script') /\ Len(script') = n - 1
          /\ \A i \in 1 .. n - 1 : script'[i] = script[i + 1]
      BY <1>1, <3>1, ScriptTail
    <3>4. LogoComes(script)'
      <4>. HIDE DEF n
      <4>1. /\ n - 1 >= 2 /\ n - 1 \in 1 .. n - 1 /\ n - 2 \in 1 .. n - 1
            /\ n - 1 + 1 = n /\ n - 2 + 1 = n - 1 /\ n - 1 - 1 = n - 2
        BY <1>1, <1>2, SMT
      <4>2. script'[n - 1] = script[n] /\ script'[n - 2] = script[n - 1]
        BY <3>3, <4>1
      <4>. QED BY <1>3, <3>3, <4>1, <4>2, SMT DEF LogoComes
    <3>. QED BY <3>2, <3>3, <3>4
  <2>2. CASE string # <<>>
    <3>1. /\ script' = [script EXCEPT ![1] = <<"String", Tail(string)>>]
          /\ IF Head(string) = Newline THEN PrintNewline ELSE PrintChar(Head(string))
      BY <2>2 DEF String
    <3>2. Next /\ Legal(<<"String", Tail(string)>>)
      BY <1>1, <2>2, <3>1, CharIsNext
    <3>3. IInv /\ IInv'
      BY <3>2, NextInv DEF SpiInv
    <3>4. Script(script') /\ Len(script') = n /\ \A i \in 2 .. n : script'[i] = script[i]
      <4>. DEFINE call == <<"String", Tail(string)>>
      <4>. HIDE DEF call
      <4>1. Legal(call) /\ script' = [script EXCEPT ![1] = call]
        BY <3>1, <3>2 DEF call
      <4>. QED BY <1>1, <4>1, ScriptExcept
    <3>5. LogoComes(script)'
      <4>. HIDE DEF n
      <4>1. n \in 2 .. n /\ n - 1 \in 2 .. n
        BY <1>1, <1>2, SMT
      <4>2. script'[n] = script[n] /\ script'[n - 1] = script[n - 1]
        BY <3>4, <4>1
      <4>. QED BY <1>1, <1>2, <1>3, <3>4, <4>2, SMT DEF LogoComes
    <3>. QED BY <3>3, <3>4, <3>5
  <2>. QED BY <2>1, <2>2
<1>5. PictureShown'
  BY <1>1, <1>2 DEF PictureShown
<1>. QED BY <1>1, <1>2, <1>4, <1>5, Zenon DEF SpiInv

\* The bytes that are still to be written are on the screen already.
LEMMA WriteByteInv ==
    ASSUME SpiInv, WriteByte
    PROVE  SpiInv'
<1>1. /\ Write /\ IInv /\ IInv' /\ UNCHANGED <<phase, script>> /\ panel \in Panels
  BY NextInv DEF SpiInv, WriteByte, Next, IInv, TypeOK
<1>2. screen' = screen
  BY <1>1, WriteColumnHides, PaintHides DEF Write, WriteFill, WriteLogo
<1>3. panel'.scroll = panel.scroll
  BY <1>1 DEF Write, WriteColumn, WriteFill, WriteLogo, Draw, Panels
<1>4. phase \in {"init", "exit"}
  BY <1>1 DEF SpiInv, Write, WriteColumn, WriteFill, WriteLogo, Idle
<1>5. LogoComes(script) => LogoComes(script)'
  BY <1>1, <1>2, <1>3 DEF LogoComes, LogoPicture
<1>6. BlankComes(script) => BlankComes(script)'
  BY <1>1, <1>2, <1>3 DEF BlankComes, BlankPicture
<1>7. PictureShown'
  BY <1>1, <1>4 DEF PictureShown
<1>8. Script(script)'
  BY <1>1 DEF SpiInv
<1>. QED BY <1>1, <1>4, <1>5, <1>6, <1>7, <1>8, Zenon DEF SpiInv

\* The scroll engine runs only where the picture does not matter yet.
LEMMA TickInv ==
    ASSUME SpiInv, Tick
    PROVE  SpiInv'
<1>1. /\ IInv /\ panel \in Panels /\ panel.scroll # {} /\ panel' = Scrolled(panel)
      /\ UNCHANGED <<LineNum, CursorPos, job, display, phase, script>>
  BY DEF SpiInv, IInv, TypeOK, Tick, cursor
<1>4. /\ panel' \in Panels /\ panel'.scroll = panel.scroll
      /\ panel'.line = panel.line /\ panel'.line0 = panel.line0 /\ panel'.line1 = panel.line1
      /\ panel'.col = panel.col /\ panel'.col0 = panel.col0 /\ panel'.col1 = panel.col1
  BY <1>1, ScrolledKeeps
<1>5. IInv'
  <2>1. display' \in {"up", "down"} /\ display' = display
    BY <1>1 DEF IInv, TypeOK
  <2>. QED BY <1>1, <1>4, <2>1, QuietKeeps
<1>6. phase = "init" /\ LogoComes(script)
  BY <1>1 DEF SpiInv, BlankComes
<1>7. LogoComes(script)'
  <2>1. Len(script) \in Nat /\ ~(Len(script) <= 1) /\ ~(Len(script) = 0)
    <3>1. Len(script) \in Nat
      BY SMT DEF SpiInv, Script, IsSeq
    <3>2. ~(Len(script) <= 1)
      BY <1>1, <1>6 DEF LogoComes
    <3>. DEFINE n == Len(script)
    <3>. HIDE DEF n
    <3>3. n \in Nat /\ ~(n <= 1) => ~(n = 0)
      BY SMT
    <3>. QED BY <3>1, <3>2, <3>3 DEF n
  <2>. QED BY <1>1, <1>6, <2>1 DEF LogoComes
<1>8. PictureShown'
  BY <1>1, <1>6 DEF PictureShown
<1>9. Script(script)'
  BY <1>1 DEF SpiInv
<1>. QED BY <1>1, <1>5, <1>6, <1>7, <1>8, <1>9, Zenon DEF SpiInv

\* The texts are what the functions of ssd1306.c take.
LEMMA ShowTextScript ==
    /\ IsSeq(ShowText) /\ Len(ShowText) \in Nat
    /\ \A i \in 1 .. Len(ShowText) : Legal(ShowText[i])
<1>. DEFINE n == 2 * Len(Texts)
<1>1. Len(Texts) \in Nat /\ n \in Nat
  BY OledSpiAssumption, SMT
<1>2. \A k \in 1 .. Len(Texts) : /\ Texts[k].line \in Lines /\ Texts[k].col \in Segs
                                  /\ Texts[k].text \in Seq(Chars \cup {Newline})
  <2>. DEFINE R == [line : Lines, col : Segs, text : Seq(Chars \cup {Newline})]
  <2>1. Texts \in Seq(R)
    BY OledSpiAssumption
  <2>2. \A r \in R : /\ r.line \in Lines /\ r.col \in Segs
                      /\ r.text \in Seq(Chars \cup {Newline})
    OBVIOUS
  <2>. HIDE DEF R
  <2>3. \A k \in 1 .. Len(Texts) : Texts[k] \in R
    BY <2>1
  <2>. QED BY <2>2, <2>3
<1>5. ShowText = [k \in 1 .. n |-> ShowText[k]]
  BY Zenon DEF ShowText
<1>. DEFINE S == {ShowText[k] : k \in 1 .. n}
<1>3. ShowText \in Seq(S) /\ Len(ShowText) = n
  <2>. HIDE DEF n
  <2>1. \A k \in 1 .. n : ShowText[k] \in S
    OBVIOUS
  <2>. HIDE DEF S
  <2>2. [k \in 1 .. n |-> ShowText[k]] \in Seq(S) /\ Len([k \in 1 .. n |-> ShowText[k]]) = n
    BY <1>1, <2>1, SMT
  <2>. QED BY <1>5, <2>2, Zenon
<1>4. ASSUME NEW i \in 1 .. n
      PROVE  Legal(ShowText[i])
  <2>1. CASE i % 2 = 1
    <3>. DEFINE k == (i + 1) \div 2
    <3>1. k \in 1 .. Len(Texts)
      BY <1>1, <2>1, SMT
    <3>2. ShowText[i] = <<"SetCursor", Texts[k].line, Texts[k].col>>
      BY <2>1 DEF ShowText
    <3>3. Texts[k].line \in Lines /\ Texts[k].col \in Segs
      <4>. HIDE DEF k
      <4>. QED BY <1>2, <3>1
    <3>. QED BY <3>2, <3>3 DEF Legal
  <2>2. CASE i % 2 # 1
    <3>. DEFINE k == i \div 2
    <3>1. k \in 1 .. Len(Texts)
      BY <1>1, <2>2, SMT
    <3>2. ShowText[i] = <<"String", Texts[k].text>>
      BY <2>2 DEF ShowText
    <3>3. Texts[k].text \in Seq(Chars \cup {Newline})
      <4>. HIDE DEF k
      <4>. QED BY <1>2, <3>1
    <3>. QED BY <3>2, <3>3 DEF Legal
  <2>. QED BY <2>1, <2>2
<1>. HIDE DEF n
<1>. QED BY <1>1, <1>3, <1>4, SeqOfItself, Zenon

LEMMA SeqIn ==
    ASSUME NEW S, NEW s, IsSeq(s), \A i \in 1 .. Len(s) : s[i] \in S
    PROVE  s \in Seq(S)
<1>1. s \in Seq({s[i] : i \in 1 .. Len(s)})
  BY DEF IsSeq
<1>. QED BY <1>1, SMT

LEMMA Concat ==
    ASSUME NEW S, NEW b \in Seq(S), NEW z \in Seq(S)
    PROVE  /\ b \o z \in Seq(S) /\ Len(b) \in Nat /\ Len(b \o z) = Len(b) + Len(z)
           /\ \A i \in 1 .. Len(b) + Len(z) :
                  (b \o z)[i] = IF i <= Len(b) THEN b[i] ELSE z[i - Len(b)]
BY SMT

LEMMA EndsAlike ==
    ASSUME NEW S, NEW b \in Seq(S), NEW z \in Seq(S), Len(z) = 3
    PROVE  /\ b \o z \in Seq(S) /\ Len(b) \in Nat /\ Len(b \o z) = Len(b) + 3
           /\ (b \o z)[Len(b) + 3] = z[3] /\ (b \o z)[Len(b) + 2] = z[2]
<1>. DEFINE n == Len(b)
            m == Len(z)
            t == b \o z
<1>1. /\ t \in Seq(S) /\ n \in Nat /\ Len(t) = n + m
      /\ \A i \in 1 .. n + m : t[i] = IF i <= n THEN b[i] ELSE z[i - n]
  BY Concat, Zenon
<1>2. m = 3
  OBVIOUS
<1>. HIDE DEF n, m, t
<1>3. /\ n + 3 \in 1 .. n + m /\ ~(n + 3 <= n) /\ n + 3 - n = 3
      /\ n + 2 \in 1 .. n + m /\ ~(n + 2 <= n) /\ n + 2 - n = 2
  BY <1>1, <1>2, SMT
<1>4. t[n + 3] = z[n + 3 - n] /\ t[n + 2] = z[n + 2 - n]
  BY <1>1, <1>3
<1>5. t[n + 3] = z[3] /\ t[n + 2] = z[2]
  BY <1>3, <1>4, Zenon
<1>. QED BY <1>1, <1>2, <1>5, Zenon DEF n, m, t

\* A script between some calls that need no care.
LEMMA Between ==
    ASSUME NEW a, NEW s, NEW z, IsSeq(a), IsSeq(s), IsSeq(z), Len(z) = 3,
           \A i \in 1 .. Len(a) : Legal(a[i]), \A i \in 1 .. Len(s) : Legal(s[i]),
           \A i \in 1 .. 3 : Legal(z[i])
    PROVE  LET t == (a \o s) \o z IN
           /\ Script(t) /\ Len(t) \in Nat /\ Len(t) >= 3
           /\ t[Len(t)] = z[3] /\ t[Len(t) - 1] = z[2]
<1>. DEFINE S == {a[i] : i \in 1 .. Len(a)} \cup {s[i] : i \in 1 .. Len(s)}
                    \cup {z[i] : i \in 1 .. Len(z)}
            t == (a \o s) \o z
<1>1. \A c \in S : Legal(c)
  OBVIOUS
<1>2. a \in Seq(S) /\ s \in Seq(S) /\ z \in Seq(S)
  <2>1. /\ \A i \in 1 .. Len(a) : a[i] \in S
        /\ \A i \in 1 .. Len(s) : s[i] \in S
        /\ \A i \in 1 .. Len(z) : z[i] \in S
    OBVIOUS
  <2>. HIDE DEF S
  <2>. QED BY <2>1, SeqIn, Zenon
<1>. HIDE DEF S
<1>3. /\ t \in Seq(S) /\ Len(t) \in Nat /\ Len(t) >= 3
      /\ t[Len(t)] = z[3] /\ t[Len(t) - 1] = z[2]
  <2>. DEFINE b == a \o s
  <2>1. b \in Seq(S)
    BY <1>2, SMT
  <2>. HIDE DEF b
  <2>2. /\ b \o z \in Seq(S) /\ Len(b) \in Nat /\ Len(b \o z) = Len(b) + 3
        /\ (b \o z)[Len(b) + 3] = z[3] /\ (b \o z)[Len(b) + 2] = z[2]
    BY <1>2, <2>1, EndsAlike, Zenon
  <2>3. Len(b) + 3 - 1 = Len(b) + 2 /\ Len(b) + 3 \in Nat /\ Len(b) + 3 >= 3
    BY <2>2, SMT
  <2>. QED BY <2>2, <2>3 DEF b
<1>. HIDE DEF t
<1>4. \A i \in 1 .. Len(t) : Legal(t[i])
  BY <1>1, <1>3
<1>5. IsSeq(t)
  BY <1>3, SeqOfItself, Zenon
<1>. QED BY <1>3, <1>4, <1>5, Zenon DEF Script, t

LEMMA InitScript ==
    /\ Script(EtxSpiInit) /\ Len(EtxSpiInit) \in Nat /\ Len(EtxSpiInit) >= 3
    /\ EtxSpiInit[Len(EtxSpiInit)] = <<"PrintLogo">>
    /\ EtxSpiInit[Len(EtxSpiInit) - 1] = <<"DeactivateScroll">>
<1>. DEFINE a == <<<<"DisplayInit">>, <<"SetBrightness">>, <<"InvertDisplay">>,
                   <<"StartScroll", 0, ScrollLines>>>>
            z == <<<<"ClearDisplay">>, <<"DeactivateScroll">>, <<"PrintLogo">>>>
<1>0. ScrollLines \in Lines
  BY PanelAssumption
<1>1. IsSeq(a) /\ \A i \in 1 .. Len(a) : Legal(a[i])
  BY <1>0, SMT DEF IsSeq, Legal
<1>2. /\ IsSeq(z) /\ Len(z) = 3 /\ \A i \in 1 .. 3 : Legal(z[i])
      /\ z[3] = <<"PrintLogo">> /\ z[2] = <<"DeactivateScroll">>
  BY SMT DEF IsSeq, Legal
<1>3. EtxSpiInit = (a \o ShowText) \o z
  BY Zenon DEF EtxSpiInit
<1>. HIDE DEF a, z
<1>. QED BY <1>1, <1>2, <1>3, ShowTextScript, Between, Zenon

LEMMA ExitScript ==
    /\ Script(EtxSpiExit) /\ Len(EtxSpiExit) = 2
    /\ EtxSpiExit[1] = <<"ClearDisplay">> /\ EtxSpiExit[2] = <<"DisplayDeInit">>
BY SMT DEF EtxSpiExit, Script, IsSeq, Legal

\* The module turns to another program when the display rests.
LEMMA TurnInv ==
    ASSUME SpiInv, Insmod \/ Loaded \/ Rmmod \/ Unloaded
    PROVE  SpiInv'
<1>1. IInv /\ panel \in Panels /\ script = <<>> /\ job = Idle /\ UNCHANGED vars
  BY DEF SpiInv, IInv, TypeOK, Insmod, Loaded, Rmmod, Unloaded, Turn
<1>2. IInv' /\ panel' = panel /\ job' = job /\ screen = panel.ram
  BY <1>1, NextInv, ScreenAtRest DEF vars
<1>3. screen' = screen
  BY <1>1, QuietHides DEF vars
<1>4. Script(<<>>) /\ Len(<<>>) = 0
  BY SMT DEF Script, IsSeq
<1>5. CASE Insmod
  <2>1. phase' = "init" /\ script' = EtxSpiInit
    BY <1>5 DEF Insmod, Turn
  <2>2. LogoComes(script)'
    <3>. DEFINE n == Len(EtxSpiInit)
    <3>. HIDE DEF n
    <3>1. n \in Nat /\ n >= 3 => ~(n = 0) /\ ~(n <= 1)
      BY SMT
    <3>2. ~(Len(EtxSpiInit) = 0) /\ ~(Len(EtxSpiInit) <= 1)
      BY <3>1, InitScript DEF n
    <3>. QED BY <2>1, <3>2, InitScript, Zenon DEF LogoComes
  <2>3. PictureShown'
    BY <2>1 DEF PictureShown
  <2>. QED BY <1>2, <2>1, <2>2, <2>3, InitScript DEF SpiInv
<1>6. CASE Loaded
  <2>1. phase = "init" /\ phase' = "in" /\ script' = <<>>
    BY <1>6 DEF Loaded, Turn
  <2>2. screen = LogoPicture /\ panel.scroll = {}
    BY <1>1, <1>4, <2>1 DEF SpiInv, LogoComes
  <2>3. PictureShown'
    BY <1>2, <2>1, <2>2 DEF PictureShown, LogoPicture
  <2>. QED BY <1>1, <1>2, <1>4, <2>1, <2>2, <2>3 DEF SpiInv
<1>7. CASE Rmmod
  <2>1. phase = "in" /\ phase' = "exit" /\ script' = EtxSpiExit
    BY <1>7 DEF Rmmod, Turn
  <2>2. panel'.scroll = {}
    BY <1>2, <2>1 DEF SpiInv
  <2>3. BlankComes(script)'
    BY <2>1, <2>2, ExitScript DEF BlankComes
  <2>4. PictureShown'
    BY <2>1 DEF PictureShown
  <2>. QED BY <1>2, <2>1, <2>3, <2>4, ExitScript DEF SpiInv
<1>8. CASE Unloaded
  <2>1. phase = "exit" /\ phase' = "out" /\ script' = <<>>
    BY <1>8 DEF Unloaded, Turn
  <2>2. screen = BlankPicture /\ panel.scroll = {}
    BY <1>1, <1>4, <2>1 DEF SpiInv, BlankComes
  <2>3. PictureShown'
    BY <1>2, <2>1, <2>2 DEF PictureShown, BlankPicture
  <2>. QED BY <1>1, <1>2, <1>4, <2>1, <2>2, <2>3 DEF SpiInv
<1>. QED BY <1>5, <1>6, <1>7, <1>8

LEMMA SpiNextInv ==
    ASSUME SpiInv, [SpiNext]_allvars
    PROVE  SpiInv'
<1>1. CASE UNCHANGED allvars
  <2>1. UNCHANGED vars /\ phase' = phase /\ script' = script
    BY <1>1 DEF allvars
  <2>2. IInv' /\ IInv
    BY <2>1, NextInv DEF SpiInv
  <2>3. panel' = panel /\ job' = job /\ screen' = screen
    BY <2>1, QuietHides DEF vars
  <2>4. LogoComes(script) => LogoComes(script)'
    BY <2>1, <2>3 DEF LogoComes, LogoPicture
  <2>5. BlankComes(script) => BlankComes(script)'
    BY <2>1, <2>3 DEF BlankComes, BlankPicture
  <2>6. PictureShown'
    BY <2>1, <2>3 DEF SpiInv, PictureShown
  <2>. QED BY <2>1, <2>2, <2>3, <2>4, <2>5, <2>6, Zenon DEF SpiInv
<1>. QED BY <1>1, TurnInv, MakeCallInv, StringInv, WriteByteInv, TickInv, Zenon DEF SpiNext

\* Under oled_spi's calls and the scroll engine the pointer is followed, every
\* variable keeps its type, and the calls yet to be made end as they have to.
THEOREM SpiInvariant == SpiSpec => []SpiInv
<1>1. SpiInv /\ [SpiNext]_allvars => SpiInv'
  BY SpiNextInv
<1>. QED BY SpiInitInv, <1>1, PTL DEF SpiSpec

\* While oled_spi is loaded the display shows the logo, whole and unmoved, and
\* when it has been unloaded nothing, whatever it printed before, and whenever
\* the scroll engine moved it, for displays and fonts of every size.
THEOREM LogoShown == SpiSpec => []PictureShown
<1>1. SpiInv => PictureShown
  BY DEF SpiInv
<1>. QED BY <1>1, SpiInvariant, PTL
-----------------------------------------------------------------------------
(* OledI2c: the inductive invariant. *)

Sendings ==
    {Nothing}
        \cup [what : {"commands"}, i : 0 .. 25] \cup [what : {"SetCursor"}, i : 0 .. 5]
        \cup [what : {"StartScrollHorizontal"}, i : 0 .. 7] \cup [what : {"off"}, i : {0}]
        \cup [what : {"Fill"}, i : 0 .. Total - 1]
        \cup [what : {"char"}, i : 0 .. FontSize, c : Chars]

I2cTypeOK ==
    /\ driver \in {"unbound", "probe", "bound", "remove"}
    /\ text \in Seq(Chars \cup {Newline})
    /\ SSD1306_LineNum \in Lines /\ SSD1306_CursorPos \in 0 .. MAX_SEG
    /\ sending \in Sendings
    /\ oled \in Panels /\ area \in SUBSET Lines
    /\ command \in Seq(Nat)
    /\ tidy \in BOOLEAN

\* Where probe and remove are while they send what.
PlaceInv ==
    /\ driver \in {"unbound", "bound"} => at = 1 /\ sending = Nothing
    /\ driver = "probe" =>
           /\ sending = Nothing => at \in 1 .. 6
           /\ sending.what = "commands" => at = 2
           /\ sending.what = "Fill" => at = 3
           /\ sending.what = "SetCursor" => at \in {4, 5}
           /\ sending.what \in {"StartScrollHorizontal", "char"} => at = 5
           /\ sending.what # "off"
    /\ driver = "remove" =>
           /\ sending = Nothing => at \in 1 .. 5
           /\ sending.what = "char" => at = 1
           /\ sending.what = "SetCursor" => at \in {1, 3}
           /\ sending.what = "Fill" => at = 4
           /\ sending.what = "off" => at = 5
           /\ sending.what \notin {"commands", "StartScrollHorizontal"}

\* The panel has what was sent from byte k + 1 on, and waits for the rest.
Since(k) ==
    /\ Len(command) = sending.i - k
    /\ \A n \in 1 .. Len(command) : command[n] = CommandBytes[k + n]

\* The bytes of InitBytes behind which an argument comes.
OneArg == {2, 4, 6, 9, 11, 15, 17, 19, 21}

\* The panel takes the first bytes for arguments of what a restart has cut off,
\* or one of the arguments for a command; which is a command without arguments.
Late ==
    \/ command # <<>> /\ sending.i + Args(command[1]) + 1 - Len(command) <= 6
    \/ command = <<>> /\ sending.i \in {2, 4, 6}

DecoderInv ==
    /\ command # <<>> => Len(command) <= Args(command[1])
    /\ IF driver = "unbound" \/ (driver = "probe" /\ at = 1)
       THEN tidy => command = <<>>
       ELSE IF sending.what = "commands"
       THEN \/ Since(IF sending.i \in OneArg THEN sending.i - 1 ELSE sending.i)
            \/ ~tidy /\ Late
       ELSE IF sending.what = "SetCursor"
       THEN Since(IF sending.i < 3 THEN 0 ELSE 3)
       ELSE IF sending.what = "StartScrollHorizontal"
       THEN Since(IF sending.i < 7 THEN 0 ELSE 7)
       ELSE command = <<>>

\* The display stands still, or scrolls, and is on.
ScrollInv ==
    /\ driver = "probe" /\ sending.what = "commands" /\ sending.i = 25 => oled.scroll = {}
    /\ driver = "probe" /\ sending.what # "commands" /\ at > 1 =>
           /\ oled.power = "on"
           /\ oled.scroll = IF at < 5 \/ sending.what = "StartScrollHorizontal"
                            THEN {} ELSE 0 .. ScrollLines
           /\ sending.what = "StartScrollHorizontal" /\ sending.i = 7 => area = 0 .. ScrollLines
    /\ driver = "bound" => oled.power = "on" /\ oled.scroll = 0 .. ScrollLines

\* The window is the whole display, and the pointer at its byte i.
Home(i) ==
    /\ oled.line0 = 0 /\ oled.line1 = MAX_LINE /\ oled.col0 = 0 /\ oled.col1 = MAX_SEG - 1
    /\ oled.line * MAX_SEG + oled.col = i

HomeInv ==
    /\ tidy /\ (driver = "unbound" \/ (driver = "probe" /\ at <= 2)) => Home(0)
    /\ sending.what = "Fill" /\ (tidy \/ driver = "remove") => Home(sending.i)
    /\ driver = "remove" /\ at >= 3 =>
           /\ sending.what = "SetCursor" => SSD1306_LineNum = 0 /\ SSD1306_CursorPos = 0
           /\ sending.what \in {"none", "off"} => Home(0)

BlankInv ==
    tidy /\ driver = "probe" /\ at = 3 =>
        \A x \in Cells : sending = Nothing \/ x[1] * MAX_SEG + x[2] < sending.i =>
            oled.ram[x] = Blank

\* From the first SetCursor of probe to the text of remove.
Printing == (driver = "probe" /\ at >= 4) \/ driver = "bound" \/ (driver = "remove" /\ at = 1)

\* The pointer is at the cursor, but for the bytes of SetCursor.
CursorInv ==
    /\ sending.what = "SetCursor" =>
           /\ SSD1306_CursorPos < MAX_SEG
           /\ sending.i >= 3 => /\ oled.col = SSD1306_CursorPos /\ oled.col0 = SSD1306_CursorPos
                                /\ oled.col1 = MAX_SEG - 1
    /\ sending.what = "char" => SSD1306_CursorPos + FontSize + 1 - sending.i <= MAX_SEG
    /\ sending.what # "SetCursor" /\ Printing =>
           /\ oled.line1 = MAX_LINE /\ oled.col1 = MAX_SEG - 1
           /\ SSD1306_CursorPos < MAX_SEG =>
                  oled.line = SSD1306_LineNum /\ oled.col = SSD1306_CursorPos

I2cInv ==
    /\ I2cTypeOK /\ PlaceInv /\ DecoderInv /\ ScrollInv /\ HomeInv /\ BlankInv /\ CursorInv
-----------------------------------------------------------------------------
(* The panel's decoder. *)

\* A column or line is its own address.
LEMMA Addresses ==
    ASSUME NEW n \in Nat
    PROVE  /\ n % MAX_SEG \in Segs /\ (n \in Segs => n % MAX_SEG = n)
           /\ n % (MAX_LINE + 1) \in Lines /\ (n \in Lines => n % (MAX_LINE + 1) = n)
<1>1. ASSUME NEW k \in Nat \ {0}
      PROVE  n % k \in 0 .. k - 1 /\ (n < k => n % k = n)
  BY SMT
<1>2. ASSUME NEW k \in Nat
      PROVE  n % (k + 1) \in 0 .. k /\ (n < k + 1 => n % (k + 1) = n)
  BY SMT
<1>3. n % MAX_SEG \in 0 .. MAX_SEG - 1 /\ (n < MAX_SEG => n % MAX_SEG = n)
  BY <1>1, Constants
<1>4. n % (MAX_LINE + 1) \in 0 .. MAX_LINE /\ (n < MAX_LINE + 1 => n % (MAX_LINE + 1) = n)
  BY <1>2, Constants
<1>5. (n \in Segs => n < MAX_SEG) /\ (n \in Lines => n < MAX_LINE + 1)
  BY Constants, SMT DEF Segs, Lines
<1>. QED BY <1>3, <1>4, <1>5, Zenon DEF Segs, Lines

\* Whatever the arguments are, the panel is one.
LEMMA ExecuteKeeps ==
    ASSUME NEW cmd \in Seq(Nat), Len(cmd) = Args(cmd[1]) + 1, Execute(cmd),
           oled \in Panels, area \in SUBSET Lines
    PROVE  /\ oled' \in Panels /\ area' \in SUBSET Lines
           /\ oled'.ram = oled.ram
<1>1. \A n \in Nat : n % MAX_SEG \in Segs /\ n % (MAX_LINE + 1) \in Lines
  BY Addresses
<1>0. \A n \in 1 .. Len(cmd) : cmd[n] \in Nat
  BY SMT
<1>2. CASE cmd[1] \in {\h21, \h22}
  <2>0. Len(cmd) = 3
    BY <1>2, SMT DEF Args
  <2>1. cmd[2] \in Nat /\ cmd[3] \in Nat
    BY <1>0, <2>0
  <2>2. /\ cmd[2] % MAX_SEG \in Segs /\ cmd[3] % MAX_SEG \in Segs
        /\ cmd[2] % (MAX_LINE + 1) \in Lines /\ cmd[3] % (MAX_LINE + 1) \in Lines
    BY <1>1, <2>1
  <2>3. area' = area
    BY <1>2, SMT DEF Execute
  <2>4. CASE cmd[1] = \h21
    <3>1. oled' = SetColumns(oled, cmd[2] % MAX_SEG, cmd[3] % MAX_SEG)
      BY <2>4, SMT DEF Execute
    <3>. QED BY <2>2, <2>3, <3>1 DEF SetColumns, Panels
  <2>5. CASE cmd[1] = \h22
    <3>1. oled' = SetPages(oled, cmd[2] % (MAX_LINE + 1), cmd[3] % (MAX_LINE + 1))
      BY <2>5, SMT DEF Execute
    <3>. QED BY <2>2, <2>3, <3>1 DEF SetPages, Panels
  <2>. QED BY <1>2, <2>4, <2>5
<1>3. CASE cmd[1] \in {\h26, \h27}
  <2>1. cmd[3] \in Nat /\ cmd[5] \in Nat
    BY <1>3, SMT DEF Args
  <2>2. cmd[3] % (MAX_LINE + 1) \in Lines /\ cmd[5] % (MAX_LINE + 1) \in Lines
    BY <1>1, <2>1
  <2>3. area' = (cmd[3] % (MAX_LINE + 1)) .. (cmd[5] % (MAX_LINE + 1))
    BY <1>3 DEF Execute
  <2>4. oled' = oled
    BY <1>3, SMT DEF Execute
  <2>5. \A a, b \in Lines : a .. b \in SUBSET Lines
    BY Constants, SMT DEF Lines
  <2>. QED BY <2>2, <2>3, <2>4, <2>5
<1>4. CASE cmd[1] \notin {\h21, \h22, \h26, \h27}
  <2>1. area' = area
    BY <1>4 DEF Execute
  <2>2. \/ oled' = oled
        \/ oled' = [oled EXCEPT !.power = "off"] \/ oled' = [oled EXCEPT !.power = "on"]
        \/ oled' = [oled EXCEPT !.scroll = {}] \/ oled' = [oled EXCEPT !.scroll = area]
    BY <1>4, Zenon DEF Execute
  <2>. QED BY <2>1, <2>2 DEF Panels
<1>. QED BY <1>2, <1>3, <1>4

\* One more byte for the panel: it is a command, or an argument of the one that
\* the panel waits with.
LEMMA DecodeByte ==
    ASSUME NEW byte \in Nat, Decode(byte), command \in Seq(Nat),
           command # <<>> => Len(command) <= Args(command[1])
    PROVE  LET op == IF command = <<>> THEN byte ELSE command[1]
               got == Append(command, byte)
           IN  /\ got \in Seq(Nat) /\ Len(got) = Len(command) + 1 /\ got[1] = op
               /\ got[Len(command) + 1] = byte
               /\ \A n \in 1 .. Len(command) : got[n] = command[n]
               /\ Len(command) < Args(op) =>
                      command' = got /\ oled' = oled /\ area' = area
               /\ ~(Len(command) < Args(op)) =>
                      Len(command) = Args(op) /\ command' = <<>> /\ Execute(got)
<1>. DEFINE op == IF command = <<>> THEN byte ELSE command[1]
            got == Append(command, byte)
<1>1. /\ got \in Seq(Nat) /\ Len(got) = Len(command) + 1 /\ got[Len(command) + 1] = byte
      /\ \A n \in 1 .. Len(command) : got[n] = command[n]
      /\ Len(command) \in Nat
  BY SMT
<1>2. command = <<>> <=> Len(command) = 0
  BY SMT
<1>3. got[1] = op
  BY <1>1, <1>2, SMT
<1>4. Args(op) \in Nat
  BY SMT DEF Args
<1>5. Len(command) <= Args(op)
  BY <1>1, <1>2, <1>4, SMT
<1>6. /\ Len(got) <= Args(got[1]) => command' = got /\ oled' = oled /\ area' = area
      /\ ~(Len(got) <= Args(got[1])) => command' = <<>> /\ Execute(got)
  BY DEF Decode
<1>. HIDE DEF got, op
<1>7. Len(got) <= Args(got[1]) <=> Len(command) < Args(op)
  BY <1>1, <1>3, <1>4, SMT
<1>8. ~(Len(command) < Args(op)) => Len(command) = Args(op)
  BY <1>1, <1>4, <1>5, SMT
<1>. QED BY <1>1, <1>3, <1>6, <1>7, <1>8, Zenon DEF got, op

\* What probe begins with: the commands, which take an argument or none, and
\* what they do.
LEMMA InitByte ==
    ASSUME NEW i \in 0 .. 25
    PROVE  LET byte == InitBytes[i + 1] IN
           /\ byte \in Nat
           /\ i \notin OneArg => /\ Args(byte) = IF i + 1 \in OneArg THEN 1 ELSE 0
                                 /\ byte = \hAE <=> i = 0
                                 /\ byte = \h2E <=> i = 24
                                 /\ byte = \hAF <=> i = 25
           /\ i \in {2, 4, 6} => Args(byte) = 0 /\ byte \notin {\hAE, \hAF, \h2E}
           /\ byte = \h20 \/ byte \notin {\h21, \h22, \h26, \h27, \h2F}
<1>1. \/ i = 0 \/ i = 1 \/ i = 2 \/ i = 3 \/ i = 4 \/ i = 5 \/ i = 6 \/ i = 7 \/ i = 8
      \/ i = 9 \/ i = 10 \/ i = 11 \/ i = 12 \/ i = 13 \/ i = 14 \/ i = 15 \/ i = 16
      \/ i = 17 \/ i = 18 \/ i = 19 \/ i = 20 \/ i = 21 \/ i = 22 \/ i = 23 \/ i = 24 \/ i = 25
  BY SMT
<1>. QED BY <1>1, SMTT(60) DEF InitBytes, Args, OneArg
-----------------------------------------------------------------------------
(* The loop that sends. *)

Length ==
    IF sending.what = "commands" THEN 26 ELSE IF sending.what = "SetCursor" THEN 6
    ELSE IF sending.what = "StartScrollHorizontal" THEN 8 ELSE IF sending.what = "off" THEN 1
    ELSE IF sending.what = "Fill" THEN Total ELSE FontSize + 1

LEMMA SendingIs ==
    ASSUME sending \in Sendings
    PROVE  /\ sending.what \in {"none", "commands", "SetCursor", "StartScrollHorizontal",
                                "off", "Fill", "char"}
           /\ sending.what = "none" <=> sending = Nothing
           /\ sending # Nothing => sending.i \in 0 .. Length - 1
           /\ sending.what = "char" => sending.c \in Chars
           /\ Length \in Nat
BY TotalNat, Constants, SMT DEF Sendings, Nothing, Length

LEMMA SentNext ==
    ASSUME sending \in Sendings, sending # Nothing, Sent(Length)
    PROVE  /\ sending' \in Sendings
           /\ sending.i \in 0 .. Length - 1
           /\ sending.i + 1 = Length => sending' = Nothing
           /\ sending.i + 1 # Length => /\ sending' # Nothing /\ sending'.what = sending.what
                                        /\ sending'.i = sending.i + 1
<1>1. sending.i \in 0 .. Length - 1 /\ Length \in Nat
  BY SendingIs
<1>2. CASE sending.i + 1 = Length
  BY <1>1, <1>2 DEF Sent, Sendings
<1>3. CASE sending.i + 1 # Length
  <2>1. sending' = [sending EXCEPT !.i = sending.i + 1] /\ sending.i + 1 \in 0 .. Length - 1
    BY <1>1, <1>3, SMT DEF Sent
  <2>2. sending' \in Sendings /\ sending'.what = sending.what /\ sending'.i = sending.i + 1
    <3>1. CASE sending.what = "char"
      <4>1. sending.i + 1 \in 0 .. FontSize
        BY <2>1, <3>1, Constants, SMT DEF Length
      <4>2. sending \in [what : {"char"}, i : 0 .. FontSize, c : Chars]
        BY <3>1 DEF Sendings, Nothing
      <4>. QED BY <2>1, <4>1, <4>2 DEF Sendings
    <3>2. CASE sending.what = "Fill"
      <4>1. sending.i + 1 \in 0 .. Total - 1
        BY <2>1, <3>2 DEF Length
      <4>2. sending \in [what : {"Fill"}, i : 0 .. Total - 1]
        BY <3>2 DEF Sendings, Nothing
      <4>. QED BY <2>1, <4>1, <4>2 DEF Sendings
    <3>3. CASE sending.what = "commands"
      <4>1. sending.i + 1 \in 0 .. 25
        BY <2>1, <3>3, SMT DEF Length
      <4>2. sending \in [what : {"commands"}, i : 0 .. 25]
        BY <3>3 DEF Sendings, Nothing
      <4>. QED BY <2>1, <4>1, <4>2 DEF Sendings
    <3>4. CASE sending.what = "SetCursor"
      <4>1. sending.i + 1 \in 0 .. 5
        BY <2>1, <3>4, SMT DEF Length
      <4>2. sending \in [what : {"SetCursor"}, i : 0 .. 5]
        BY <3>4 DEF Sendings, Nothing
      <4>. QED BY <2>1, <4>1, <4>2 DEF Sendings
    <3>5. CASE sending.what = "StartScrollHorizontal"
      <4>1. sending.i + 1 \in 0 .. 7
        BY <2>1, <3>5, SMT DEF Length
      <4>2. sending \in [what : {"StartScrollHorizontal"}, i : 0 .. 7]
        BY <3>5 DEF Sendings, Nothing
      <4>. QED BY <2>1, <4>1, <4>2 DEF Sendings
    <3>6. sending.what # "off"
      BY <1>1, <1>3, SMT DEF Length
    <3>. QED BY <3>1, <3>2, <3>3, <3>4, <3>5, <3>6, SendingIs
  <2>3. sending' # Nothing
    BY <2>2, SendingIs DEF Nothing
  <2>. QED BY <1>1, <1>3, <2>2, <2>3
<1>. QED BY <1>2, <1>3

\* The panel has one byte more.
LEMMA SinceGoesOn ==
    ASSUME NEW k \in Nat, Since(k), command \in Seq(Nat), sending.i \in Nat,
           command' = Append(command, CommandBytes[sending.i + 1]),
           sending'.what = sending.what, sending'.i = sending.i + 1, UNCHANGED i2ccursor
    PROVE  Since(k)'
<1>1. CommandBytes' = CommandBytes
  BY DEF CommandBytes, CursorBytes, i2ccursor
<1>. DEFINE b == CommandBytes  n == Len(command)
<1>2. n = sending.i - k /\ n \in Nat /\ \A m \in 1 .. n : command[m] = b[k + m]
  BY SMT DEF Since
<1>. HIDE DEF b
<1>3. /\ Len(command') = n + 1 /\ command'[n + 1] = b[sending.i + 1]
      /\ \A m \in 1 .. n : command'[m] = command[m]
  BY SMT DEF b
<1>4. b[k + (n + 1)] = b[sending.i + 1] /\ n + 1 = sending.i + 1 - k
  BY <1>2, SMT
<1>. HIDE DEF n
<1>5. ASSUME NEW m \in 1 .. n + 1
      PROVE  command'[m] = b[k + m]
  <2>1. m = n + 1 \/ m \in 1 .. n
    BY <1>2, SMT
  <2>. QED BY <1>2, <1>3, <1>4, <2>1
<1>. QED BY <1>1, <1>3, <1>4, <1>5 DEF Since, b

LEMMA SinceNone ==
    ASSUME Since(sending.i), sending.i \in Nat, command \in Seq(Nat)
    PROVE  command = <<>>
BY SMT DEF Since

\* The panel has executed a command, and the next byte is the next command.
LEMMA SinceNow ==
    ASSUME command' = <<>>, sending'.i \in Nat
    PROVE  Since(sending.i)'
BY SMT DEF Since

\* The bytes of the other commands.
LEMMA OtherBytes ==
    ASSUME I2cTypeOK
    PROVE  /\ sending.what = "commands" => CommandBytes = InitBytes
           /\ sending.what = "SetCursor" =>
                  /\ CommandBytes[1] = \h21 /\ CommandBytes[2] = SSD1306_CursorPos
                  /\ CommandBytes[3] = MAX_SEG - 1 /\ CommandBytes[4] = \h22
                  /\ CommandBytes[5] = SSD1306_LineNum /\ CommandBytes[6] = MAX_LINE
           /\ sending.what = "StartScrollHorizontal" =>
                  /\ CommandBytes[1] = \h27 /\ CommandBytes[2] = 0 /\ CommandBytes[3] = 0
                  /\ CommandBytes[4] = 0 /\ CommandBytes[5] = ScrollLines /\ CommandBytes[6] = 0
                  /\ CommandBytes[7] = \hFF /\ CommandBytes[8] = \h2F
           /\ sending.what = "off" => CommandBytes[1] = \hAE
           /\ sending.what \in {"commands", "SetCursor", "StartScrollHorizontal", "off"} =>
                  Len(CommandBytes) = Length
<1>1. sending.what = "commands" => CommandBytes = InitBytes /\ Len(CommandBytes) = 26
  BY SMT DEF CommandBytes, InitBytes
<1>2. sending.what = "SetCursor" =>
          /\ CommandBytes[1] = \h21 /\ CommandBytes[2] = SSD1306_CursorPos
          /\ CommandBytes[3] = MAX_SEG - 1 /\ CommandBytes[4] = \h22
          /\ CommandBytes[5] = SSD1306_LineNum /\ CommandBytes[6] = MAX_LINE
          /\ Len(CommandBytes) = 6
  BY SMT DEF CommandBytes, CursorBytes
<1>3. sending.what = "StartScrollHorizontal" =>
          /\ CommandBytes[1] = \h27 /\ CommandBytes[2] = 0 /\ CommandBytes[3] = 0
          /\ CommandBytes[4] = 0 /\ CommandBytes[5] = ScrollLines /\ CommandBytes[6] = 0
          /\ CommandBytes[7] = \hFF /\ CommandBytes[8] = \h2F
          /\ Len(CommandBytes) = 8
  BY SMT DEF CommandBytes, ScrollBytes
<1>4. sending.what = "off" => CommandBytes[1] = \hAE /\ Len(CommandBytes) = 1
  BY SMT DEF CommandBytes
<1>. QED BY <1>1, <1>2, <1>3, <1>4 DEF Length
-----------------------------------------------------------------------------
(* The commands. *)

LEMMA CommandByte ==
    ASSUME I2cInv, WriteCommand
    PROVE  LET byte == CommandBytes[sending.i + 1]
               op == IF command = <<>> THEN byte ELSE command[1]
               got == Append(command, byte)
           IN  /\ byte \in Nat /\ Decode(byte)
               /\ got \in Seq(Nat) /\ Len(got) = Len(command) + 1 /\ got[1] = op
               /\ got[Len(command) + 1] = byte
               /\ \A n \in 1 .. Len(command) : got[n] = command[n]
               /\ Len(command) < Args(op) =>
                      command' = got /\ oled' = oled /\ area' = area
               /\ ~(Len(command) < Args(op)) =>
                      Len(command) = Args(op) /\ command' = <<>> /\ Execute(got)
<1>1. /\ I2cTypeOK /\ sending \in Sendings /\ sending # Nothing
      /\ sending.what \in {"commands", "SetCursor", "StartScrollHorizontal", "off"}
      /\ Decode(CommandBytes[sending.i + 1])
      /\ command \in Seq(Nat) /\ (command # <<>> => Len(command) <= Args(command[1]))
  BY DEF I2cInv, I2cTypeOK, DecoderInv, WriteCommand, Nothing
<1>2. CommandBytes[sending.i + 1] \in Nat
  <2>1. sending.i \in 0 .. Length - 1
    BY <1>1, SendingIs
  <2>2. CASE sending.what = "commands"
    <3>1. sending.i \in 0 .. 25
      BY <2>1, <2>2, SMT DEF Length
    <3>. QED BY <1>1, <2>2, <3>1, InitByte, OtherBytes
  <2>3. CASE sending.what = "SetCursor"
    <3>1. sending.i \in 0 .. 5
      BY <2>1, <2>3, SMT DEF Length
    <3>2. sending.i + 1 \in {1, 2, 3, 4, 5, 6}
      BY <3>1, SMT
    <3>3. /\ SSD1306_CursorPos \in Nat /\ SSD1306_LineNum \in Nat
          /\ MAX_SEG - 1 \in Nat /\ MAX_LINE \in Nat
      <4>1. SSD1306_CursorPos \in 0 .. MAX_SEG /\ SSD1306_LineNum \in Lines
        BY <1>1 DEF I2cTypeOK
      <4>. QED BY <4>1, Constants, SMT DEF Lines
    <3>4. \A n \in {1, 2, 3, 4, 5, 6} : CommandBytes[n] \in Nat
      <4>1. /\ CommandBytes[1] = \h21 /\ CommandBytes[2] = SSD1306_CursorPos
            /\ CommandBytes[3] = MAX_SEG - 1 /\ CommandBytes[4] = \h22
            /\ CommandBytes[5] = SSD1306_LineNum /\ CommandBytes[6] = MAX_LINE
        BY <1>1, <2>3, OtherBytes
      <4>. QED BY <3>3, <4>1, SMT
    <3>. QED BY <3>2, <3>4
  <2>4. CASE sending.what = "StartScrollHorizontal"
    <3>1. sending.i \in 0 .. 7
      BY <2>1, <2>4, SMT DEF Length
    <3>2. sending.i + 1 \in {1, 2, 3, 4, 5, 6, 7, 8}
      BY <3>1, SMT
    <3>3. ScrollLines \in Nat
      <4>1. ScrollLines \in Lines
        BY PanelAssumption
      <4>. QED BY <4>1, Constants, SMT DEF Lines
    <3>4. \A n \in {1, 2, 3, 4, 5, 6, 7, 8} : CommandBytes[n] \in Nat
      <4>1. /\ CommandBytes[1] = \h27 /\ CommandBytes[2] = 0 /\ CommandBytes[3] = 0
            /\ CommandBytes[4] = 0 /\ CommandBytes[5] = ScrollLines /\ CommandBytes[6] = 0
            /\ CommandBytes[7] = \hFF /\ CommandBytes[8] = \h2F
        BY <1>1, <2>4, OtherBytes
      <4>. QED BY <3>3, <4>1, SMT
    <3>. QED BY <3>2, <3>4
  <2>5. CASE sending.what = "off"
    <3>1. sending.i = 0
      BY <2>1, <2>5, SMT DEF Length
    <3>. QED BY <1>1, <2>5, <3>1, OtherBytes
  <2>. QED BY <1>1, <2>2, <2>3, <2>4, <2>5
<1>3. \A byte \in Nat : Decode(byte) =>
        LET op == IF command = <<>> THEN byte ELSE command[1]
            got == Append(command, byte)
        IN  /\ got \in Seq(Nat) /\ Len(got) = Len(command) + 1 /\ got[1] = op
            /\ got[Len(command) + 1] = byte
            /\ \A n \in 1 .. Len(command) : got[n] = command[n]
            /\ Len(command) < Args(op) => command' = got /\ oled' = oled /\ area' = area
            /\ ~(Len(command) < Args(op)) =>
                   Len(command) = Args(op) /\ command' = <<>> /\ Execute(got)
  BY <1>1, DecodeByte
<1>. QED BY <1>1, <1>2, <1>3, Zenon

\* What all of them keep.
LEMMA CommandKeeps ==
    ASSUME I2cInv, WriteCommand
    PROVE  /\ I2cTypeOK'
           /\ command' # <<>> => Len(command') <= Args(command'[1])
           /\ oled'.ram = oled.ram
           /\ sending # Nothing /\ sending.i \in 0 .. Length - 1
           /\ sending.i + 1 = Length => sending' = Nothing
           /\ sending.i + 1 # Length => /\ sending' # Nothing /\ sending'.what = sending.what
                                        /\ sending'.i = sending.i + 1
           /\ UNCHANGED <<driver, at, text, SSD1306_LineNum, SSD1306_CursorPos, tidy>>
<1>1. /\ I2cTypeOK /\ sending \in Sendings /\ sending # Nothing
      /\ sending.what \in {"commands", "SetCursor", "StartScrollHorizontal", "off"}
      /\ Sent(Len(CommandBytes))
      /\ UNCHANGED <<driver, at, text, SSD1306_LineNum, SSD1306_CursorPos, tidy>>
  BY DEF I2cInv, I2cTypeOK, WriteCommand, Nothing, called, i2ccursor
<1>2. Sent(Length)
  BY <1>1, OtherBytes
<1>3. /\ sending' \in Sendings /\ sending.i \in 0 .. Length - 1
      /\ sending.i + 1 = Length => sending' = Nothing
      /\ sending.i + 1 # Length => /\ sending' # Nothing /\ sending'.what = sending.what
                                   /\ sending'.i = sending.i + 1
  BY <1>1, <1>2, SentNext
<1>. DEFINE byte == CommandBytes[sending.i + 1]
            op == IF command = <<>> THEN byte ELSE command[1]
            got == Append(command, byte)
<1>4. /\ byte \in Nat
      /\ got \in Seq(Nat) /\ Len(got) = Len(command) + 1 /\ got[1] = op
      /\ Len(command) < Args(op) => command' = got /\ oled' = oled /\ area' = area
      /\ ~(Len(command) < Args(op)) =>
             Len(command) = Args(op) /\ command' = <<>> /\ Execute(got)
  BY CommandByte, Zenon
<1>. HIDE DEF op, got
<1>5. /\ command' \in Seq(Nat) /\ (command' # <<>> => Len(command') <= Args(command'[1]))
      /\ oled' \in Panels /\ area' \in SUBSET Lines /\ oled'.ram = oled.ram
  <2>0. oled \in Panels /\ area \in SUBSET Lines /\ command \in Seq(Nat)
    BY <1>1 DEF I2cTypeOK
  <2>1. CASE Len(command) < Args(op)
    <3>1. Len(command) \in Nat /\ Args(op) \in Nat
      BY <2>0, SMT DEF Args
    <3>2. Len(got) <= Args(op)
      BY <1>4, <2>1, <3>1, SMT
    <3>. QED BY <1>4, <2>0, <2>1, <3>2
  <2>2. CASE ~(Len(command) < Args(op))
    <3>1. Len(got) = Args(got[1]) + 1 /\ Execute(got) /\ command' = <<>>
      BY <1>4, <2>2
    <3>2. oled' \in Panels /\ area' \in SUBSET Lines /\ oled'.ram = oled.ram
      BY <1>4, <2>0, <3>1, ExecuteKeeps
    <3>. QED BY <3>1, <3>2
  <2>. QED BY <2>1, <2>2
<1>6. I2cTypeOK'
  BY <1>1, <1>3, <1>5 DEF I2cTypeOK
<1>. QED BY <1>1, <1>3, <1>5, <1>6

\* The commands of probe.  If a restart has cut off another command, the panel
\* is in step again within the first seven bytes; if not, it is all along.
LEMMA InitCommand ==
    ASSUME I2cInv, WriteCommand, sending.what = "commands"
    PROVE  /\ sending.i + 1 = 26 => command' = <<>>
           /\ sending.i + 1 # 26 =>
                \/ Since(IF sending.i \in OneArg THEN sending.i - 1 ELSE sending.i)'
                \/ ~tidy /\ Late'
           /\ sending.i = 24 => oled'.scroll = {}
           /\ sending.i = 25 => oled'.power = "on" /\ oled'.scroll = oled.scroll
           /\ tidy => /\ oled'.line = oled.line /\ oled'.line0 = oled.line0
                      /\ oled'.line1 = oled.line1 /\ oled'.col = oled.col
                      /\ oled'.col0 = oled.col0 /\ oled'.col1 = oled.col1
<1>. DEFINE i == sending.i
            byte == CommandBytes[i + 1]
            op == IF command = <<>> THEN byte ELSE command[1]
            got == Append(command, byte)
<1>1. /\ byte \in Nat
      /\ got \in Seq(Nat) /\ Len(got) = Len(command) + 1 /\ got[1] = op
      /\ got[Len(command) + 1] = byte
      /\ Len(command) < Args(op) => command' = got /\ oled' = oled /\ area' = area
      /\ ~(Len(command) < Args(op)) =>
             Len(command) = Args(op) /\ command' = <<>> /\ Execute(got)
  BY CommandByte, Zenon
<1>2. /\ I2cTypeOK /\ command \in Seq(Nat) /\ oled \in Panels
      /\ command # <<>> => Len(command) <= Args(command[1])
  BY DEF I2cInv, I2cTypeOK, DecoderInv
<1>3. /\ i \in 0 .. 25
      /\ i + 1 = 26 => sending' = Nothing
      /\ i + 1 # 26 => sending'.what = "commands" /\ sending'.i = i + 1
      /\ UNCHANGED i2ccursor
  BY CommandKeeps DEF Length, i2ccursor
<1>4. byte = InitBytes[i + 1]
  BY <1>2, OtherBytes
<1>5. driver = "probe" /\ at = 2
  BY DEF I2cInv, I2cTypeOK, PlaceInv, Nothing
<1>6. \/ Since(IF i \in OneArg THEN i - 1 ELSE i)
      \/ ~tidy /\ Late
  BY <1>5, SMT DEF I2cInv, DecoderInv
<1>7. /\ i \notin OneArg => /\ Args(byte) = IF i + 1 \in OneArg THEN 1 ELSE 0
                            /\ byte = \hAE <=> i = 0
                            /\ byte = \h2E <=> i = 24
                            /\ byte = \hAF <=> i = 25
      /\ i \in {2, 4, 6} => Args(byte) = 0 /\ byte \notin {\hAE, \hAF, \h2E}
      /\ byte = \h20 \/ byte \notin {\h21, \h22, \h26, \h27, \h2F}
  BY <1>3, <1>4, InitByte
<1>8. command = <<>> <=> Len(command) = 0
  BY <1>2, SMT
<1>9. byte \notin {\h21, \h22, \h26, \h27, \h2F}
  BY <1>7, SMT
\* A command without an argument, or one that has got its argument.
<1>10. ASSUME Execute(got), op \notin {\h21, \h22, \h26, \h27, \h2F}
       PROVE  /\ oled' = IF op = \hAE THEN [oled EXCEPT !.power = "off"]
                         ELSE IF op = \hAF THEN [oled EXCEPT !.power = "on"]
                         ELSE IF op = \h2E THEN [oled EXCEPT !.scroll = {}] ELSE oled
  <2>1. got[1] \notin {\h21, \h22, \h26, \h27, \h2F} /\ got[1] = op
    BY <1>1, <1>10
  <2>. HIDE DEF got, op
  <2>. QED BY <1>10, <2>1 DEF Execute
<1>. HIDE DEF byte, op, got
<1>11. CASE i \notin OneArg /\ Since(i)
  <2>0. i \in Nat
    BY <1>3, SMT
  <2>1. command = <<>>
    BY <1>2, <1>11, <2>0, SinceNone
  <2>2. op = byte
    BY <2>1 DEF op
  <2>3. CASE i + 1 \in OneArg
    <3>1. Args(op) = 1 /\ command' = got /\ oled' = oled
      BY <1>1, <1>7, <1>8, <1>11, <2>1, <2>2, <2>3, SMT
    <3>2. i + 1 # 26 /\ i # 24 /\ i # 25
      BY <1>3, <2>3, SMT DEF OneArg
    <3>3. PICK k \in Nat : k = i
      BY <2>0
    <3>4. Since(k)'
      BY <1>2, <1>3, <1>11, <2>0, <3>1, <3>2, <3>3, SinceGoesOn DEF got, byte
    <3>5. sending'.i = i + 1 /\ sending'.i \in OneArg /\ sending'.i - 1 = k
      BY <1>3, <2>0, <2>3, <3>2, <3>3
    <3>6. Since(IF i \in OneArg THEN i - 1 ELSE i)'
      BY <3>4, <3>5, Zenon DEF Since
    <3>. QED BY <3>1, <3>2, <3>6
  <2>4. CASE i + 1 \notin OneArg
    <3>1. Args(op) = 0 /\ command' = <<>> /\ Execute(got)
      BY <1>1, <1>7, <1>8, <1>11, <2>1, <2>2, <2>4, SMT
    <3>2. i + 1 # 26 => Since(IF i \in OneArg THEN i - 1 ELSE i)'
      <4>. SUFFICES ASSUME i + 1 # 26
                    PROVE  Since(IF i \in OneArg THEN i - 1 ELSE i)'
        OBVIOUS
      <4>1. sending'.i = i + 1 /\ sending'.i \in Nat
        BY <1>3, SMT
      <4>2. Since(sending.i)'
        BY <3>1, <4>1, SinceNow
      <4>. QED BY <2>4, <4>1, <4>2
    <3>3. oled' = IF op = \hAE THEN [oled EXCEPT !.power = "off"]
                  ELSE IF op = \hAF THEN [oled EXCEPT !.power = "on"]
                  ELSE IF op = \h2E THEN [oled EXCEPT !.scroll = {}] ELSE oled
      BY <1>9, <1>10, <2>2, <3>1
    <3>4. (op = \h2E <=> i = 24) /\ (op = \hAF <=> i = 25) /\ (op = \hAE <=> i = 0)
      BY <1>7, <1>11, <2>2
    <3>. QED BY <1>2, <1>3, <3>1, <3>2, <3>3, <3>4, SMT DEF Panels
  <2>. QED BY <2>3, <2>4
<1>12. CASE i \in OneArg /\ Since(i - 1)
  <2>1. Len(command) = 1 /\ command[1] = InitBytes[i]
    <3>1. Len(command) = 1 /\ command[1] = CommandBytes[(i - 1) + 1]
      <4>0. i - (i - 1) = 1
        BY <1>3, SMT
      <4>1. Len(command) = i - (i - 1) /\ Len(command) = 1
        BY <1>12, <4>0 DEF Since
      <4>2. 1 \in 1 .. Len(command)
        BY <4>1, SMT
      <4>. QED BY <1>12, <4>1, <4>2 DEF Since
    <3>2. (i - 1) + 1 = i
      BY <1>3, SMT
    <3>. QED BY <1>2, <3>1, <3>2, OtherBytes
  <2>2. /\ i - 1 \in 0 .. 25 /\ (i - 1) + 1 = i /\ i - 1 \notin OneArg
        /\ i - 1 # 0 /\ i - 1 # 24 /\ i - 1 # 25 /\ i # 24 /\ i # 25
    BY <1>12, SMT DEF OneArg
  <2>3. op = InitBytes[i]
    BY <1>8, <2>1, SMT DEF op
  <2>4. /\ Args(op) = 1 /\ op \notin {\hAE, \h2E, \hAF}
        /\ op = \h20 \/ op \notin {\h21, \h22, \h26, \h27, \h2F}
    <3>. DEFINE j == i - 1
    <3>1. j \in 0 .. 25 /\ j + 1 = i /\ j \notin OneArg /\ j # 0 /\ j # 24 /\ j # 25 /\ j + 1 \in OneArg
      BY <1>12, <2>2
    <3>. HIDE DEF j
    <3>2. op = InitBytes[j + 1]
      BY <2>3, <3>1
    <3>. QED BY <3>1, <3>2, InitByte
  <2>5. command' = <<>> /\ Execute(got) /\ op \notin {\h21, \h22, \h26, \h27, \h2F}
    BY <1>1, <2>1, <2>4, SMT
  <2>6. oled' = oled
    BY <1>10, <2>4, <2>5
  <2>7. Since(IF i \in OneArg THEN i - 1 ELSE i)'
    <3>1. i + 1 # 26 /\ i + 1 \notin OneArg
      BY <1>12, SMT DEF OneArg
    <3>2. sending'.i = i + 1 /\ sending'.i \in Nat
      BY <1>3, <3>1, SMT
    <3>3. Since(sending.i)'
      BY <2>5, <3>2, SinceNow
    <3>. QED BY <3>1, <3>2, <3>3
  <2>. QED BY <2>2, <2>5, <2>6, <2>7
<1>13. CASE ~tidy /\ command # <<>> /\ i + Args(command[1]) + 1 - Len(command) <= 6
  <2>1. op = command[1] /\ Len(command) <= Args(op)
    BY <1>2, <1>13 DEF op
  <2>2. Len(command) \in Nat /\ Args(op) \in Nat /\ Len(command) # 0
    BY <1>2, <1>8, <1>13, SMT DEF Args
  <2>. DEFINE n == Len(command)  a == Args(op)
  <2>3. i + a + 1 - n <= 6 /\ n <= a /\ n \in Nat /\ a \in Nat /\ n # 0
    BY <1>13, <2>1, <2>2
  <2>. HIDE DEF n, a
  <2>6. i + 1 <= 6 /\ i # 24 /\ i # 25 /\ i + 1 # 26 /\ sending'.i = i + 1
    BY <1>3, <2>3, SMT
  <2>. SUFFICES \/ Since(IF i \in OneArg THEN i - 1 ELSE i)'
                \/ Late'
    BY <1>13, <2>6
  <2>4. CASE Len(command) < Args(op)
    <3>1. command' = got /\ Len(got) = Len(command) + 1 /\ got[1] = op
      BY <1>1, <2>4
    <3>2. command' # <<>> /\ command'[1] = op /\ Len(command') = Len(command) + 1
      <4>1. Len(command') # 0
        BY <2>2, <3>1, SMT
      <4>. QED BY <3>1, <4>1, SMT
    <3>3. sending'.i + Args(command'[1]) + 1 - Len(command') <= 6
      <4>1. (i + 1) + a + 1 - (n + 1) <= 6
        BY <1>3, <2>3, SMT
      <4>. QED BY <2>6, <3>2, <4>1 DEF n, a
    <3>. QED BY <3>2, <3>3 DEF Late
  <2>5. CASE ~(Len(command) < Args(op))
    <3>1. command' = <<>>
      BY <1>1, <2>5
    <3>2. CASE i + 1 \in {2, 4, 6}
      BY <2>6, <3>1, <3>2 DEF Late
    <3>3. CASE i + 1 \notin {2, 4, 6}
      <4>1. i + 1 \notin OneArg /\ i + 1 \in Nat
        BY <1>3, <2>6, <3>3, SMT DEF OneArg
      <4>2. Since(sending.i)'
        BY <2>6, <3>1, <4>1, SinceNow
      <4>. QED BY <2>6, <4>1, <4>2
    <3>. QED BY <3>2, <3>3
  <2>. QED BY <2>4, <2>5
<1>14. CASE ~tidy /\ command = <<>> /\ i \in {2, 4, 6}
  <2>1. op = byte /\ Args(op) = 0
    BY <1>7, <1>14 DEF op
  <2>2. command' = <<>>
    BY <1>1, <1>8, <1>14, <2>1, SMT
  <2>3. i + 1 # 26 /\ i # 24 /\ i # 25 /\ i + 1 \notin OneArg /\ i + 1 \in Nat
    BY <1>14, SMT DEF OneArg
  <2>4. Since(sending.i)'
    BY <1>3, <2>2, <2>3, SinceNow
  <2>. QED BY <1>3, <1>14, <2>3, <2>4
<1>. QED BY <1>6, <1>11, <1>12, <1>13, <1>14 DEF Late

\* A byte of a command of which the panel has got all bytes from k + 1 on.
LEMMA NextByte ==
    ASSUME I2cInv, WriteCommand, NEW k \in Nat, Since(k)
    PROVE  LET n == sending.i - k
               args == Args(CommandBytes[k + 1])
           IN  /\ n \in Nat
               /\ n < args => /\ oled' = oled /\ area' = area
                              /\ sending.i + 1 # Length => Since(k)'
               /\ ~(n < args) => /\ n = args /\ command' = <<>>
                                 /\ \E cmd : /\ Execute(cmd)
                                             /\ \A m \in 1 .. n + 1 : cmd[m] = CommandBytes[k + m]
<1>. DEFINE i == sending.i
            byte == CommandBytes[i + 1]
            op == IF command = <<>> THEN byte ELSE command[1]
            got == Append(command, byte)
            n == Len(command)
            b == CommandBytes
<1>1. /\ byte \in Nat
      /\ got[n + 1] = byte /\ got[1] = op
      /\ \A m \in 1 .. n : got[m] = command[m]
      /\ n < Args(op) => command' = got /\ oled' = oled /\ area' = area
      /\ ~(n < Args(op)) => n = Args(op) /\ command' = <<>> /\ Execute(got)
  BY CommandByte, Zenon
<1>2. /\ i \in Nat /\ command \in Seq(Nat)
      /\ i + 1 # Length => sending'.what = sending.what /\ sending'.i = i + 1
      /\ UNCHANGED i2ccursor
  <2>1. /\ command \in Seq(Nat) /\ sending.i \in 0 .. Length - 1
        /\ i + 1 # Length => sending'.what = sending.what /\ sending'.i = i + 1
        /\ UNCHANGED i2ccursor
    BY CommandKeeps DEF I2cInv, I2cTypeOK, i2ccursor
  <2>. QED BY <2>1, SMT
<1>3. n \in Nat /\ (command = <<>> <=> n = 0)
  BY <1>2, SMT
<1>4. n = i - k /\ \A m \in 1 .. n : command[m] = b[k + m]
  BY Zenon DEF Since
<1>5. k + (n + 1) = i + 1
  BY <1>2, <1>3, <1>4, SMT
<1>6. op = b[k + 1]
  <2>1. CASE n = 0
    BY <1>3, <1>5, <2>1, SMT
  <2>2. CASE n # 0
    <3>1. 1 \in 1 .. n
      BY <1>3, <2>2, SMT
    <3>. QED BY <1>3, <1>4, <2>2, <3>1
  <2>. QED BY <2>1, <2>2
<1>. HIDE DEF op
<1>7. n < Args(op) /\ i + 1 # Length => Since(k)'
  BY <1>1, <1>2, SinceGoesOn
<1>. HIDE DEF got, byte, b, n
<1>8. ASSUME NEW m \in 1 .. n + 1
      PROVE  got[m] = b[k + m]
  <2>1. m \in 1 .. n \/ m = n + 1
    BY <1>3, SMT
  <2>2. CASE m \in 1 .. n
    BY <1>1, <1>4, <2>2
  <2>3. CASE m = n + 1
    <3>1. got[m] = b[i + 1]
      BY <1>1, <2>3 DEF byte, b
    <3>. QED BY <1>5, <2>3, <3>1
  <2>. QED BY <2>1, <2>2, <2>3
<1>. QED BY <1>1, <1>3, <1>4, <1>6, <1>7, <1>8, Zenon DEF b

\* SetCursor: two commands, each with two arguments.
LEMMA CursorCommand ==
    ASSUME I2cInv, WriteCommand, sending.what = "SetCursor"
    PROVE  /\ sending.i + 1 = 6 =>
                  /\ command' = <<>>
                  /\ oled'.line = SSD1306_LineNum /\ oled'.line0 = SSD1306_LineNum
                  /\ oled'.line1 = MAX_LINE
           /\ sending.i + 1 # 6 => Since(IF sending.i < 3 THEN 0 ELSE 3)'
           /\ sending.i + 1 >= 3 =>
                  /\ oled'.col = SSD1306_CursorPos /\ oled'.col0 = SSD1306_CursorPos
                  /\ oled'.col1 = MAX_SEG - 1
           /\ oled'.power = oled.power /\ oled'.scroll = oled.scroll
<1>1. /\ I2cTypeOK /\ oled \in Panels /\ SSD1306_LineNum \in Lines
      /\ SSD1306_CursorPos \in 0 .. MAX_SEG /\ SSD1306_CursorPos < MAX_SEG
      /\ sending.i >= 3 => /\ oled.col = SSD1306_CursorPos /\ oled.col0 = SSD1306_CursorPos
                           /\ oled.col1 = MAX_SEG - 1
  BY DEF I2cInv, I2cTypeOK, CursorInv
<1>2. /\ sending.i \in 0 .. 5
      /\ sending.i + 1 # 6 => sending'.what = "SetCursor" /\ sending'.i = sending.i + 1
  BY CommandKeeps DEF Length
<1>3. Since(IF sending.i < 3 THEN 0 ELSE 3)
  <2>1. ~(driver = "unbound" \/ (driver = "probe" /\ at = 1))
    BY DEF I2cInv, I2cTypeOK, PlaceInv, Nothing
  <2>. QED BY <2>1, Zenon DEF I2cInv, DecoderInv
<1>4. /\ CommandBytes[1] = \h21 /\ CommandBytes[2] = SSD1306_CursorPos
      /\ CommandBytes[3] = MAX_SEG - 1 /\ CommandBytes[4] = \h22
      /\ CommandBytes[5] = SSD1306_LineNum /\ CommandBytes[6] = MAX_LINE
  BY <1>1, OtherBytes
<1>5. /\ SSD1306_CursorPos % MAX_SEG = SSD1306_CursorPos
      /\ (MAX_SEG - 1) % MAX_SEG = MAX_SEG - 1
      /\ SSD1306_LineNum % (MAX_LINE + 1) = SSD1306_LineNum
      /\ MAX_LINE % (MAX_LINE + 1) = MAX_LINE
  <2>1. /\ SSD1306_CursorPos \in Nat /\ SSD1306_CursorPos \in Segs
        /\ MAX_SEG - 1 \in Nat /\ MAX_SEG - 1 \in Segs
        /\ SSD1306_LineNum \in Nat /\ MAX_LINE \in Nat /\ MAX_LINE \in Lines
    BY <1>1, Constants, SMT DEF Segs, Lines
  <2>. QED BY <1>1, <2>1, Addresses
<1>6. Args(\h21) = 2 /\ Args(\h22) = 2
  BY SMT DEF Args
<1>7. CASE sending.i < 3
  <2>1. Since(0) /\ 0 + 1 = 1 /\ sending.i - 0 = sending.i
    BY <1>2, <1>3, <1>7, SMT
  <2>2. /\ sending.i < 2 => oled' = oled /\ (sending.i + 1 # 6 => Since(0)')
        /\ ~(sending.i < 2) =>
               /\ sending.i = 2 /\ command' = <<>>
               /\ \E cmd : Execute(cmd) /\ \A m \in 1 .. sending.i + 1 : cmd[m] = CommandBytes[0 + m]
    BY <1>4, <1>6, <2>1, NextByte DEF Length
  <2>3. CASE sending.i < 2
    <3>1. sending.i + 1 # 6 /\ sending'.i < 3 /\ ~(sending.i + 1 >= 3)
      BY <1>2, <2>3, SMT
    <3>2. Since(IF sending.i < 3 THEN 0 ELSE 3)'
      BY <2>2, <2>3, <3>1, Zenon DEF Since
    <3>. QED BY <2>2, <2>3, <3>1, <3>2
  <2>4. CASE ~(sending.i < 2)
    <3>1. PICK cmd : /\ Execute(cmd) /\ cmd[1] = \h21 /\ cmd[2] = SSD1306_CursorPos
                     /\ cmd[3] = MAX_SEG - 1
      <4>1. sending.i = 2
        BY <2>2, <2>4
      <4>2. PICK cmd : Execute(cmd) /\ \A m \in 1 .. sending.i + 1 : cmd[m] = CommandBytes[0 + m]
        BY <2>2, <2>4
      <4>3. \A m \in {1, 2, 3} : m \in 1 .. sending.i + 1 /\ 0 + m = m
        BY <4>1, SMT
      <4>4. cmd[1] = CommandBytes[1] /\ cmd[2] = CommandBytes[2] /\ cmd[3] = CommandBytes[3]
        BY <4>2, <4>3
      <4>. QED BY <1>4, <4>2, <4>4
    <3>2. oled' = SetColumns(oled, SSD1306_CursorPos, MAX_SEG - 1)
      BY <1>5, <3>1 DEF Execute
    <3>3. sending.i = 2 /\ sending.i + 1 # 6 /\ sending'.i = 3 /\ ~(sending'.i < 3)
      BY <1>2, <2>2, <2>4, SMT
    <3>4. Since(IF sending.i < 3 THEN 0 ELSE 3)'
      BY <2>2, <2>4, <3>3, SMT DEF Since
    <3>. QED BY <1>1, <3>2, <3>3, <3>4 DEF SetColumns, Panels
  <2>. QED BY <2>3, <2>4
<1>8. CASE ~(sending.i < 3)
  <2>1. Since(3) /\ 3 + 1 = 4
    BY <1>3, <1>8, SMT
  <2>. DEFINE n == sending.i - 3
  <2>2. /\ n < 2 => oled' = oled /\ (sending.i + 1 # 6 => Since(3)')
        /\ ~(n < 2) =>
               /\ n = 2 /\ command' = <<>>
               /\ \E cmd : Execute(cmd) /\ \A m \in 1 .. n + 1 : cmd[m] = CommandBytes[3 + m]
    <3>. DEFINE args == Args(CommandBytes[3 + 1])
    <3>1. args = 2 /\ Length = 6 /\ 3 \in Nat
      BY <1>4, <1>6, <2>1 DEF Length
    <3>2. /\ n < args => oled' = oled /\ (sending.i + 1 # Length => Since(3)')
          /\ ~(n < args) =>
                 /\ n = args /\ command' = <<>>
                 /\ \E cmd : Execute(cmd) /\ \A m \in 1 .. n + 1 : cmd[m] = CommandBytes[3 + m]
      BY <2>1, <3>1, NextByte, Zenon
    <3>. HIDE DEF n, args
    <3>. QED BY <3>1, <3>2
  <2>3. CASE n < 2
    <3>1. sending.i + 1 # 6 /\ ~(sending'.i < 3) /\ sending.i >= 3
      BY <1>2, <1>8, <2>3, SMT
    <3>2. Since(IF sending.i < 3 THEN 0 ELSE 3)'
      BY <2>2, <2>3, <3>1, Zenon DEF Since
    <3>. QED BY <1>1, <2>2, <2>3, <3>1, <3>2
  <2>4. CASE ~(n < 2)
    <3>1. sending.i = 5 /\ sending.i + 1 = 6 /\ sending.i >= 3 /\ sending.i + 1 >= 3
      BY <1>2, <1>8, <2>4, SMT
    <3>2. PICK cmd : /\ Execute(cmd) /\ cmd[1] = \h22 /\ cmd[2] = SSD1306_LineNum
                     /\ cmd[3] = MAX_LINE
      <4>1. n = 2
        BY <2>2, <2>4
      <4>2. PICK cmd : Execute(cmd) /\ \A m \in 1 .. n + 1 : cmd[m] = CommandBytes[3 + m]
        BY <2>2, <2>4
      <4>. HIDE DEF n
      <4>3. 1 \in 1 .. n + 1 /\ 2 \in 1 .. n + 1 /\ 3 \in 1 .. n + 1
        BY <4>1, SMT
      <4>4. cmd[1] = CommandBytes[4] /\ cmd[2] = CommandBytes[5] /\ cmd[3] = CommandBytes[6]
        BY <4>2, <4>3, SMT
      <4>. QED BY <1>4, <4>2, <4>4
    <3>3. oled' = SetPages(oled, SSD1306_LineNum, MAX_LINE)
      BY <1>5, <3>2 DEF Execute
    <3>. QED BY <1>1, <2>2, <2>4, <3>1, <3>3 DEF SetPages, Panels
  <2>. QED BY <2>3, <2>4
<1>. QED BY <1>7, <1>8

\* StartScrollHorizontal: the lines that scroll, and off they go.
LEMMA ScrollCommand ==
    ASSUME I2cInv, WriteCommand, sending.what = "StartScrollHorizontal"
    PROVE  /\ sending.i + 1 = 8 => command' = <<>> /\ oled'.scroll = 0 .. ScrollLines
           /\ sending.i + 1 # 8 => /\ Since(IF sending.i < 7 THEN 0 ELSE 7)'
                                   /\ oled'.scroll = {}
           /\ sending.i = 6 => area' = 0 .. ScrollLines
           /\ oled'.power = oled.power
           /\ oled'.line = oled.line /\ oled'.line1 = oled.line1
           /\ oled'.col = oled.col /\ oled'.col1 = oled.col1
<1>1. /\ I2cTypeOK /\ oled \in Panels
      /\ driver = "probe" /\ at = 5 /\ oled.scroll = {}
      /\ sending.i = 7 => area = 0 .. ScrollLines
  BY SMT DEF I2cInv, I2cTypeOK, PlaceInv, ScrollInv, Nothing
<1>2. /\ sending.i \in 0 .. 7 /\ Length = 8
      /\ sending.i + 1 # 8 => sending'.what = "StartScrollHorizontal" /\ sending'.i = sending.i + 1
  BY CommandKeeps DEF Length
<1>3. Since(IF sending.i < 7 THEN 0 ELSE 7)
  BY <1>1, SMT DEF I2cInv, DecoderInv
<1>4. /\ CommandBytes[1] = \h27 /\ CommandBytes[3] = 0 /\ CommandBytes[5] = ScrollLines
      /\ CommandBytes[8] = \h2F
  BY <1>1, OtherBytes
<1>5. 0 % (MAX_LINE + 1) = 0 /\ ScrollLines % (MAX_LINE + 1) = ScrollLines
  <2>1. ScrollLines \in Lines
    BY PanelAssumption
  <2>2. ScrollLines \in Nat /\ 0 \in Lines
    BY <2>1, Constants, SMT DEF Lines
  <2>. QED BY <2>1, <2>2, Addresses
<1>6. Args(\h27) = 6 /\ Args(\h2F) = 0
  BY SMT DEF Args
<1>7. CASE sending.i < 7
  <2>1. Since(0) /\ 0 + 1 = 1 /\ sending.i - 0 = sending.i
    BY <1>2, <1>3, <1>7, SMT
  <2>2. /\ sending.i < 6 => oled' = oled /\ (sending.i + 1 # 8 => Since(0)')
        /\ ~(sending.i < 6) =>
               /\ sending.i = 6 /\ command' = <<>>
               /\ \E cmd : Execute(cmd) /\ \A m \in 1 .. sending.i + 1 : cmd[m] = CommandBytes[0 + m]
    BY <1>2, <1>4, <1>6, <2>1, NextByte
  <2>3. CASE sending.i < 6
    <3>1. sending.i + 1 # 8 /\ sending'.i < 7 /\ sending.i # 6
      BY <1>2, <2>3, SMT
    <3>2. Since(IF sending.i < 7 THEN 0 ELSE 7)'
      BY <2>2, <2>3, <3>1, Zenon DEF Since
    <3>. QED BY <1>1, <2>2, <2>3, <3>1, <3>2
  <2>4. CASE ~(sending.i < 6)
    <3>1. PICK cmd : Execute(cmd) /\ cmd[1] = \h27 /\ cmd[3] = 0 /\ cmd[5] = ScrollLines
      <4>1. sending.i = 6
        BY <2>2, <2>4
      <4>2. PICK cmd : Execute(cmd) /\ \A m \in 1 .. sending.i + 1 : cmd[m] = CommandBytes[0 + m]
        BY <2>2, <2>4
      <4>3. \A m \in {1, 3, 5} : m \in 1 .. sending.i + 1 /\ 0 + m = m
        BY <4>1, SMT
      <4>4. cmd[1] = CommandBytes[1] /\ cmd[3] = CommandBytes[3] /\ cmd[5] = CommandBytes[5]
        BY <4>2, <4>3
      <4>. QED BY <1>4, <4>2, <4>4
    <3>2. area' = 0 .. ScrollLines
      BY <1>5, <3>1 DEF Execute
    <3>3. oled' = oled
      BY <3>1, SMT DEF Execute
    <3>4. sending.i = 6 /\ sending.i + 1 # 8 /\ sending'.i = 7 /\ ~(sending'.i < 7)
      BY <1>2, <2>2, <2>4, SMT
    <3>5. Since(IF sending.i < 7 THEN 0 ELSE 7)'
      BY <2>2, <2>4, <3>4, SMT DEF Since
    <3>. QED BY <1>1, <3>2, <3>3, <3>4, <3>5
  <2>. QED BY <2>3, <2>4
<1>8. CASE ~(sending.i < 7)
  <2>1. sending.i = 7 /\ sending.i + 1 = 8 /\ sending.i - 7 = 0 /\ 7 + 1 = 8
    BY <1>2, <1>8, SMT
  <2>2. Since(7)
    BY <1>3, <1>8
  <2>. DEFINE n == sending.i - 7  args == Args(CommandBytes[7 + 1])
  <2>3. args = 0 /\ n = 0 /\ 7 \in Nat
    BY <1>4, <1>6, <2>1
  <2>4. ~(n < args) => /\ command' = <<>>
                       /\ \E cmd : Execute(cmd) /\ \A m \in 1 .. n + 1 : cmd[m] = CommandBytes[7 + m]
    BY <2>2, <2>3, NextByte, Zenon
  <2>. HIDE DEF n, args
  <2>5. PICK cmd : Execute(cmd) /\ \A m \in 1 .. n + 1 : cmd[m] = CommandBytes[7 + m]
    BY <2>3, <2>4
  <2>6. cmd[1] = \h2F
    BY <1>4, <2>3, <2>5, SMT
  <2>7. oled' = [oled EXCEPT !.scroll = area]
    BY <2>5, <2>6, SMT DEF Execute
  <2>8. command' = <<>>
    BY <2>3, <2>4
  <2>. QED BY <1>1, <2>1, <2>7, <2>8 DEF Panels
<1>. QED BY <1>7, <1>8

LEMMA OffCommand ==
    ASSUME I2cInv, WriteCommand, sending.what = "off"
    PROVE  command' = <<>> /\ oled' = [oled EXCEPT !.power = "off"]
<1>1. /\ I2cTypeOK /\ driver = "remove"
  BY DEF I2cInv, I2cTypeOK, PlaceInv, Nothing
<1>2. command = <<>> /\ sending.i \in 0 .. 0
  BY <1>1, CommandKeeps DEF I2cInv, DecoderInv, Length
<1>3. sending.i = 0 /\ Since(0)
  BY <1>2, SMT DEF Since
<1>4. CommandBytes[1] = \hAE /\ Args(\hAE) = 0
  BY <1>1, OtherBytes, SMT DEF Args
<1>. DEFINE n == sending.i - 0  args == Args(CommandBytes[0 + 1])
<1>5. args = 0 /\ n = 0 /\ 0 \in Nat
  BY <1>3, <1>4
<1>6. ~(n < args) => /\ command' = <<>>
                     /\ \E cmd : Execute(cmd) /\ \A m \in 1 .. n + 1 : cmd[m] = CommandBytes[0 + m]
  BY <1>3, <1>5, NextByte, Zenon
<1>. HIDE DEF n, args
<1>7. PICK cmd : Execute(cmd) /\ \A m \in 1 .. n + 1 : cmd[m] = CommandBytes[0 + m]
  BY <1>5, <1>6
<1>8. cmd[1] = \hAE
  BY <1>4, <1>5, <1>7, SMT
<1>9. oled' = [oled EXCEPT !.power = "off"]
  BY <1>7, <1>8, SMT DEF Execute
<1>. QED BY <1>5, <1>6, <1>9

LEMMA WriteCommandInv ==
    ASSUME I2cInv, WriteCommand
    PROVE  I2cInv'
<1>1. /\ I2cTypeOK /\ PlaceInv /\ DecoderInv /\ ScrollInv /\ HomeInv /\ BlankInv /\ CursorInv
      /\ driver \in {"unbound", "probe", "bound", "remove"}
      /\ sending.what \in {"commands", "SetCursor", "StartScrollHorizontal", "off"}
      /\ oled \in Panels /\ Nothing.what = "none"
  BY DEF I2cInv, I2cTypeOK, WriteCommand, Nothing
<1>2. /\ I2cTypeOK'
      /\ command' # <<>> => Len(command') <= Args(command'[1])
      /\ oled'.ram = oled.ram
      /\ sending.i \in 0 .. Length - 1
      /\ sending.i + 1 = Length => sending' = Nothing
      /\ sending.i + 1 # Length => /\ sending' # Nothing /\ sending'.what = sending.what
                                   /\ sending'.i = sending.i + 1
      /\ UNCHANGED <<driver, at, text, SSD1306_LineNum, SSD1306_CursorPos, tidy>>
  BY CommandKeeps
<1>3. CASE sending.what = "commands"
  <2>1. driver = "probe" /\ at = 2 /\ Length = 26 /\ sending.i \in 0 .. 25
    BY <1>1, <1>2, <1>3 DEF PlaceInv, Length
  <2>2. /\ sending.i + 1 = 26 => command' = <<>>
        /\ sending.i + 1 # 26 =>
             \/ Since(IF sending.i \in OneArg THEN sending.i - 1 ELSE sending.i)'
             \/ ~tidy /\ Late'
        /\ sending.i = 24 => oled'.scroll = {}
        /\ sending.i = 25 => oled'.power = "on" /\ oled'.scroll = oled.scroll
        /\ tidy => /\ oled'.line = oled.line /\ oled'.line0 = oled.line0
                   /\ oled'.line1 = oled.line1 /\ oled'.col = oled.col
                   /\ oled'.col0 = oled.col0 /\ oled'.col1 = oled.col1
    BY <1>3, InitCommand
  <2>3. tidy => Home(0)
    BY <1>1, <2>1, SMT DEF HomeInv
  <2>4. tidy => Home(0)'
    BY <2>2, <2>3 DEF Home
  <2>5. CASE sending.i + 1 = 26
    <3>0. sending.i = 25
      BY <2>1, <2>5, SMT
    <3>1. sending' = Nothing /\ command' = <<>> /\ sending.i = 25
      BY <1>2, <2>1, <2>2, <2>5, <3>0
    <3>2. PlaceInv' /\ DecoderInv'
      BY <1>1, <1>2, <2>1, <3>1, SMT DEF PlaceInv, DecoderInv
    <3>3. ScrollInv'
      <4>1. oled.scroll = {}
        BY <1>1, <1>3, <2>1, <3>1 DEF ScrollInv
      <4>. QED BY <1>1, <1>2, <2>1, <2>2, <3>1, <4>1, SMT DEF ScrollInv
    <3>4. HomeInv' /\ BlankInv'
      BY <1>1, <1>2, <2>1, <2>4, <3>1, SMT DEF HomeInv, BlankInv
    <3>5. CursorInv'
      BY <1>1, <1>2, <2>1, <3>1, SMT DEF CursorInv, Printing
    <3>. QED BY <1>2, <3>2, <3>3, <3>4, <3>5 DEF I2cInv
  <2>6. CASE sending.i + 1 # 26
    <3>1. sending' # Nothing /\ sending'.what = "commands" /\ sending'.i = sending.i + 1
      BY <1>2, <1>3, <2>1, <2>6
    <3>2. PlaceInv'
      BY <1>1, <1>2, <2>1, <3>1, SMT DEF PlaceInv
    <3>3. DecoderInv'
      <4>1. ~(driver' = "unbound" \/ (driver' = "probe" /\ at' = 1)) /\ tidy' = tidy
        BY <1>2, <2>1, SMT
      <4>2. command' # <<>> => Len(command') <= Args(command'[1])
        BY <1>2
      <4>3. \/ Since(IF sending.i \in OneArg THEN sending.i - 1 ELSE sending.i)'
            \/ ~tidy' /\ Late'
        BY <2>2, <2>6, <4>1
      <4>. QED BY <3>1, <4>1, <4>2, <4>3, Zenon DEF DecoderInv
    <3>4. ScrollInv'
      <4>1. sending'.i = 25 => sending.i = 24
        BY <2>1, <3>1, SMT
      <4>. QED BY <1>1, <1>2, <2>1, <2>2, <3>1, <4>1, SMT DEF ScrollInv
    <3>5. HomeInv' /\ BlankInv'
      BY <1>1, <1>2, <2>1, <2>4, <3>1, SMT DEF HomeInv, BlankInv
    <3>6. CursorInv'
      BY <1>1, <1>2, <2>1, <3>1, SMT DEF CursorInv, Printing
    <3>. QED BY <1>2, <3>2, <3>3, <3>4, <3>5, <3>6 DEF I2cInv
  <2>. QED BY <2>5, <2>6
<1>4. CASE sending.what = "SetCursor"
  <2>1. (driver = "probe" /\ at \in {4, 5}) \/ (driver = "remove" /\ at \in {1, 3})
    BY <1>1, <1>2, <1>4, Zenon DEF PlaceInv
  <2>2. Length = 6 /\ sending.i \in 0 .. 5
    BY <1>2, <1>4, SMT DEF Length
  <2>3. /\ sending.i + 1 = 6 =>
               /\ command' = <<>>
               /\ oled'.line = SSD1306_LineNum /\ oled'.line0 = SSD1306_LineNum
               /\ oled'.line1 = MAX_LINE
        /\ sending.i + 1 # 6 => Since(IF sending.i < 3 THEN 0 ELSE 3)'
        /\ sending.i + 1 >= 3 =>
               /\ oled'.col = SSD1306_CursorPos /\ oled'.col0 = SSD1306_CursorPos
               /\ oled'.col1 = MAX_SEG - 1
        /\ oled'.power = oled.power /\ oled'.scroll = oled.scroll
    BY <1>4, CursorCommand
  <2>4. SSD1306_CursorPos < MAX_SEG
    BY <1>1, <1>4 DEF CursorInv
  <2>5. driver = "probe" => /\ oled.power = "on"
                            /\ oled.scroll = IF at < 5 THEN {} ELSE 0 .. ScrollLines
    BY <1>1, <1>4, <2>1, SMT DEF ScrollInv
  <2>6. driver = "remove" /\ at >= 3 => SSD1306_LineNum = 0 /\ SSD1306_CursorPos = 0
    BY <1>1, <1>4 DEF HomeInv
  <2>7. CASE sending.i + 1 = 6
    <3>1. sending' = Nothing /\ command' = <<>> /\ sending.i + 1 >= 3
      BY <1>2, <2>2, <2>3, <2>7, SMT
    <3>2. PlaceInv' /\ DecoderInv'
      BY <1>1, <1>2, <2>1, <3>1, SMT DEF PlaceInv, DecoderInv
    <3>3. ScrollInv'
      BY <1>1, <1>2, <2>1, <2>3, <2>5, <3>1, SMT DEF ScrollInv
    <3>4. HomeInv'
      <4>1. driver = "remove" /\ at >= 3 => Home(0)'
        <5>1. 0 * MAX_SEG + 0 = 0
          BY Constants, SMT
        <5>. QED BY <1>2, <2>3, <2>6, <2>7, <3>1, <5>1 DEF Home
      <4>2. ~(driver' = "probe" /\ at' <= 2) /\ driver' # "unbound"
        BY <1>2, <2>1, SMT
      <4>3. sending'.what = "none"
        BY <1>1, <3>1
      <4>. QED BY <1>2, <4>1, <4>2, <4>3 DEF HomeInv
    <3>5. BlankInv'
      BY <1>2, <2>1, SMT DEF BlankInv
    <3>6. CursorInv'
      BY <1>1, <1>2, <2>3, <2>7, <3>1 DEF CursorInv
    <3>. QED BY <1>2, <3>2, <3>3, <3>4, <3>5, <3>6 DEF I2cInv
  <2>8. CASE sending.i + 1 # 6
    <3>1. sending' # Nothing /\ sending'.what = "SetCursor" /\ sending'.i = sending.i + 1
      BY <1>2, <1>4, <2>2, <2>8
    <3>2. PlaceInv'
      BY <1>1, <1>2, <2>1, <3>1, SMT DEF PlaceInv
    <3>3. DecoderInv'
      <4>1. ~(driver' = "unbound" \/ (driver' = "probe" /\ at' = 1)) /\ sending'.what # "commands"
        BY <1>2, <2>1, <3>1, SMT
      <4>. QED BY <1>2, <2>3, <2>8, <3>1, <4>1, Zenon DEF DecoderInv
    <3>4. ScrollInv'
      BY <1>1, <1>2, <2>1, <2>3, <2>5, <3>1, SMT DEF ScrollInv
    <3>5. HomeInv'
      BY <1>2, <2>1, <2>6, <3>1, SMT DEF HomeInv
    <3>6. BlankInv'
      BY <1>2, <2>1, SMT DEF BlankInv
    <3>7. CursorInv'
      BY <1>1, <1>2, <2>3, <2>4, <3>1 DEF CursorInv
    <3>. QED BY <1>2, <3>2, <3>3, <3>4, <3>5, <3>6, <3>7 DEF I2cInv
  <2>. QED BY <2>7, <2>8
<1>5. CASE sending.what = "StartScrollHorizontal"
  <2>1. driver = "probe" /\ at = 5 /\ Length = 8 /\ sending.i \in 0 .. 7
    BY <1>1, <1>2, <1>5 DEF PlaceInv, Length
  <2>2. /\ sending.i + 1 = 8 => command' = <<>> /\ oled'.scroll = 0 .. ScrollLines
        /\ sending.i + 1 # 8 => /\ Since(IF sending.i < 7 THEN 0 ELSE 7)'
                                /\ oled'.scroll = {}
        /\ sending.i = 6 => area' = 0 .. ScrollLines
        /\ oled'.power = oled.power
        /\ oled'.line = oled.line /\ oled'.line1 = oled.line1
        /\ oled'.col = oled.col /\ oled'.col1 = oled.col1
    BY <1>5, ScrollCommand
  <2>3. oled.power = "on"
    BY <1>1, <1>5, <2>1, SMT DEF ScrollInv
  <2>4. /\ oled.line1 = MAX_LINE /\ oled.col1 = MAX_SEG - 1
        /\ SSD1306_CursorPos < MAX_SEG =>
               oled.line = SSD1306_LineNum /\ oled.col = SSD1306_CursorPos
    <3>1. Printing /\ sending.what # "SetCursor"
      BY <1>5, <2>1, SMT DEF Printing
    <3>. QED BY <1>1, <3>1 DEF CursorInv
  <2>5. BlankInv' /\ ~(driver' = "probe" /\ at' <= 2) /\ driver' = "probe"
    BY <1>2, <2>1, SMT DEF BlankInv
  <2>6. CASE sending.i + 1 = 8
    <3>1. sending' = Nothing /\ command' = <<>> /\ sending'.what = "none"
      BY <1>1, <1>2, <2>1, <2>2, <2>6
    <3>2. PlaceInv' /\ DecoderInv' /\ ScrollInv'
      BY <1>2, <2>1, <2>2, <2>3, <2>6, <3>1, SMT DEF PlaceInv, DecoderInv, ScrollInv
    <3>3. HomeInv' /\ CursorInv'
      BY <1>2, <2>2, <2>4, <2>5, <3>1 DEF HomeInv, CursorInv
    <3>. QED BY <1>2, <2>5, <3>2, <3>3 DEF I2cInv
  <2>7. CASE sending.i + 1 # 8
    <3>1. sending' # Nothing /\ sending'.what = "StartScrollHorizontal" /\ sending'.i = sending.i + 1
      BY <1>2, <1>5, <2>1, <2>7
    <3>2. PlaceInv'
      BY <1>2, <2>1, <3>1, SMT DEF PlaceInv
    <3>3. ScrollInv'
      <4>1. sending'.i = 7 => sending.i = 6
        BY <2>1, <3>1, SMT
      <4>. QED BY <1>2, <2>1, <2>2, <2>3, <2>7, <3>1, <4>1, SMT DEF ScrollInv
    <3>4. DecoderInv'
      <4>1. ~(driver' = "unbound" \/ (driver' = "probe" /\ at' = 1))
        BY <1>2, <2>1, SMT
      <4>2. sending'.what # "commands" /\ sending'.what # "SetCursor"
        BY <3>1
      <4>. QED BY <1>2, <2>2, <2>7, <3>1, <4>1, <4>2, Zenon DEF DecoderInv
    <3>5. HomeInv' /\ CursorInv'
      BY <1>2, <2>2, <2>4, <2>5, <3>1 DEF HomeInv, CursorInv
    <3>. QED BY <1>2, <2>5, <3>2, <3>3, <3>4, <3>5 DEF I2cInv
  <2>. QED BY <2>6, <2>7
<1>6. CASE sending.what = "off"
  <2>1. driver = "remove" /\ at = 5 /\ Length = 1 /\ sending.i = 0
    BY <1>1, <1>2, <1>6, SMT DEF PlaceInv, Length
  <2>2. command' = <<>> /\ oled' = [oled EXCEPT !.power = "off"]
    BY <1>6, OffCommand
  <2>3. sending' = Nothing /\ sending'.what = "none"
    BY <1>1, <1>2, <2>1, SMT
  <2>4. Home(0)'
    <3>1. Home(0)
      BY <1>1, <1>6, <2>1, SMT DEF HomeInv
    <3>. QED BY <1>1, <2>2, <3>1 DEF Home, Panels
  <2>5. PlaceInv' /\ DecoderInv' /\ ScrollInv' /\ BlankInv'
    BY <1>2, <2>1, <2>2, <2>3, SMT DEF PlaceInv, DecoderInv, ScrollInv, BlankInv
  <2>6. HomeInv' /\ CursorInv'
    BY <1>2, <2>1, <2>3, <2>4, SMT DEF HomeInv, CursorInv, Printing
  <2>. QED BY <1>2, <2>5, <2>6 DEF I2cInv
<1>. QED BY <1>1, <1>3, <1>4, <1>5, <1>6
-----------------------------------------------------------------------------
(* The data. *)

\* Fill blanks one cell after the other, if it starts at the first.
LEMMA FillInv ==
    ASSUME I2cInv, SSD1306_Fill
    PROVE  I2cInv'
<1>1. /\ I2cTypeOK /\ PlaceInv /\ DecoderInv /\ ScrollInv /\ HomeInv /\ BlankInv
      /\ driver \in {"unbound", "probe", "bound", "remove"}
      /\ sending \in Sendings /\ sending # Nothing
      /\ sending.what = "Fill" /\ oled \in Panels /\ Nothing.what = "none"
      /\ oled' = Draw(oled, Blank) /\ Sent(Total)
      /\ UNCHANGED <<driver, at, text, SSD1306_LineNum, SSD1306_CursorPos, area, command,
                     restarts, tidy>>
  BY DEF I2cInv, I2cTypeOK, SSD1306_Fill, WriteData, Nothing, called, i2ccursor
<1>2. (driver = "probe" /\ at = 3) \/ (driver = "remove" /\ at = 4)
  BY <1>1 DEF PlaceInv
<1>3. command = <<>>
  BY <1>1, <1>2, SMT DEF DecoderInv
<1>4. Length = Total
  BY <1>1 DEF Length
<1>5. /\ sending' \in Sendings
      /\ sending.i \in 0 .. Total - 1
      /\ sending.i + 1 = Total => sending' = Nothing
      /\ sending.i + 1 # Total => /\ sending' # Nothing /\ sending'.what = "Fill"
                                  /\ sending'.i = sending.i + 1
  BY <1>1, <1>4, SentNext
<1>6. sending'.what \in {"none", "Fill"} /\ sending.i \in Nat
  BY <1>1, <1>5, TotalNat, SMT
<1>7. Blank \in Bytes
  BY DEF Bytes
<1>8. /\ oled' \in Panels
      /\ oled'.col0 = oled.col0 /\ oled'.line0 = oled.line0
      /\ oled'.col1 = oled.col1 /\ oled'.line1 = oled.line1
      /\ oled'.power = oled.power /\ oled'.scroll = oled.scroll
  BY <1>1, <1>7, DrawPointer
<1>9. tidy \/ driver = "remove" => Home(sending.i)
  BY <1>1 DEF HomeInv
<1>10. I2cTypeOK'
  BY <1>1, <1>5, <1>8 DEF I2cTypeOK
<1>11. PlaceInv' /\ DecoderInv' /\ ScrollInv'
  <2>1. PlaceInv'
    BY <1>1, <1>2, <1>5, <1>6, SMT DEF PlaceInv
  <2>2. DecoderInv'
    BY <1>1, <1>2, <1>3, <1>6, SMT DEF DecoderInv
  <2>3. ScrollInv'
    BY <1>1, <1>2, <1>6, <1>8, SMT DEF ScrollInv
  <2>. QED BY <2>1, <2>2, <2>3
<1>12. HomeInv'
  <2>1. ASSUME tidy \/ driver = "remove"
        PROVE  /\ sending' = Nothing => Home(0)'
               /\ sending' # Nothing => Home(sending.i)'
    <3>1. /\ oled.line0 = 0 /\ oled.line1 = MAX_LINE /\ oled.col0 = 0 /\ oled.col1 = MAX_SEG - 1
          /\ oled.line * MAX_SEG + oled.col = sending.i
      BY <1>9, <2>1 DEF Home
    <3>2. /\ sending.i + 1 = Total => oled'.line = 0 /\ oled'.col = 0
          /\ sending.i + 1 # Total => oled'.line * MAX_SEG + oled'.col = sending.i + 1
      BY <1>1, <1>6, <1>7, <3>1, DrawNumber
    <3>3. 0 * MAX_SEG + 0 = 0
      BY Constants, SMT
    <3>. QED BY <1>5, <1>8, <3>1, <3>2, <3>3 DEF Home
  <2>2. tidy' = tidy /\ driver' = driver
    BY <1>1
  <2>3. sending'.what = "none" => sending' = Nothing
    BY <1>5
  <2>4. /\ ~(driver' = "unbound" \/ (driver' = "probe" /\ at' <= 2))
        /\ sending'.what # "SetCursor" /\ sending'.what # "off"
    BY <1>1, <1>2, <1>6, SMT
  <2>5. sending'.what = "Fill" => sending' # Nothing
    BY <1>1
  <2>. QED BY <2>1, <2>2, <2>3, <2>4, <2>5 DEF HomeInv
<1>13. BlankInv'
  <2>. SUFFICES ASSUME tidy, driver = "probe", at = 3, NEW x \in Cells,
                       sending' = Nothing \/ x[1] * MAX_SEG + x[2] < sending'.i
                PROVE  oled'.ram[x] = Blank
    BY <1>1 DEF BlankInv
  <2>. DEFINE n == x[1] * MAX_SEG + x[2]
  <2>1. n \in 0 .. Total - 1
    <3>1. x[1] \in Lines /\ x[2] \in Segs
      BY DEF Cells
    <3>. QED BY <3>1, CellNumber
  <2>2. n < sending'.i \/ sending' = Nothing
    OBVIOUS
  <2>3. n < sending.i => oled.ram[x] = Blank
    BY <1>1 DEF BlankInv
  <2>4. n = sending.i => x = <<oled.line, oled.col>>
    <3>1. oled.line \in Lines /\ oled.col \in Segs /\ x = <<x[1], x[2]>>
      BY <1>1 DEF Panels, Cells
    <3>2. oled.line * MAX_SEG + oled.col = sending.i
      BY <1>9 DEF Home
    <3>. QED BY <3>1, <3>2, CellsDiffer
  <2>5. oled'.ram[x] = IF x = <<oled.line, oled.col>> THEN Blank ELSE oled.ram[x]
    BY <1>1, DrawCell
  <2>. HIDE DEF n
  <2>6. n < sending.i \/ n = sending.i
    <3>1. CASE sending' = Nothing
      <4>1. sending.i + 1 = Total
        BY <1>5, <3>1
      <4>. QED BY <1>6, <2>1, <4>1, TotalNat, SMT
    <3>2. CASE sending' # Nothing
      <4>1. n < sending.i + 1
        BY <1>5, <2>2, <3>2
      <4>. QED BY <1>6, <2>1, <4>1, SMT
    <3>. QED BY <3>1, <3>2
  <2>. QED BY <2>3, <2>4, <2>5, <2>6
<1>14. CursorInv'
  BY <1>1, <1>2, <1>6, SMT DEF CursorInv, Printing
<1>. QED BY <1>10, <1>11, <1>12, <1>13, <1>14 DEF I2cInv

\* A character fits into its line, and the pointer goes with the cursor.
LEMMA WriteGlyphInv ==
    ASSUME I2cInv, WriteGlyph
    PROVE  I2cInv'
<1>. DEFINE data == SSD1306_font(sending.c, sending.i)
<1>1. /\ I2cTypeOK /\ PlaceInv /\ DecoderInv /\ ScrollInv /\ CursorInv
      /\ driver \in {"unbound", "probe", "bound", "remove"}
      /\ sending \in Sendings /\ sending # Nothing
      /\ sending.what = "char" /\ oled \in Panels /\ Nothing.what = "none"
      /\ SSD1306_CursorPos \in 0 .. MAX_SEG
      /\ oled' = Draw(oled, data) /\ Sent(FontSize + 1)
      /\ SSD1306_CursorPos' = SSD1306_CursorPos + 1
      /\ UNCHANGED <<driver, at, text, SSD1306_LineNum, area, command, restarts, tidy>>
  BY DEF I2cInv, I2cTypeOK, WriteGlyph, WriteData, Nothing, called
<1>2. (driver = "probe" /\ at = 5) \/ (driver = "remove" /\ at = 1)
  BY <1>1 DEF PlaceInv
<1>3. command = <<>>
  BY <1>1, <1>2, SMT DEF DecoderInv
<1>4. Length = FontSize + 1
  BY <1>1 DEF Length
<1>5. /\ sending' \in Sendings
      /\ sending.i \in 0 .. (FontSize + 1) - 1
      /\ sending.i + 1 = FontSize + 1 => sending' = Nothing
      /\ sending.i + 1 # FontSize + 1 => /\ sending' # Nothing /\ sending'.what = "char"
                                         /\ sending'.i = sending.i + 1
  BY <1>1, <1>4, SentNext
<1>6. sending'.what \in {"none", "char"} /\ sending.i \in 0 .. FontSize
  BY <1>1, <1>5, Constants, SMT
<1>7. data \in Bytes
  <2>1. sending.c \in Chars
    BY <1>1, SendingIs
  <2>2. sending.i # FontSize => sending.i \in 0 .. FontSize - 1
    BY <1>6, Constants, SMT
  <2>. QED BY <2>1, <2>2 DEF SSD1306_font, Bytes
<1>. HIDE DEF data
<1>8. /\ oled' \in Panels
      /\ oled'.col1 = oled.col1 /\ oled'.line1 = oled.line1
      /\ oled'.power = oled.power /\ oled'.scroll = oled.scroll
      /\ oled'.col = Step(oled.col, oled.col0, oled.col1, MAX_SEG - 1)
      /\ oled'.line = IF oled.col = oled.col1
             THEN Step(oled.line, oled.line0, oled.line1, MAX_LINE) ELSE oled.line
  BY <1>1, <1>7, DrawPointer
<1>9. SSD1306_CursorPos + FontSize + 1 - sending.i <= MAX_SEG
  BY <1>1 DEF CursorInv
<1>10. SSD1306_CursorPos < MAX_SEG /\ SSD1306_CursorPos + 1 \in 0 .. MAX_SEG
  BY <1>1, <1>6, <1>9, Constants, SMT
<1>11. /\ oled.line1 = MAX_LINE /\ oled.col1 = MAX_SEG - 1
       /\ oled.line = SSD1306_LineNum /\ oled.col = SSD1306_CursorPos
  <2>1. Printing /\ sending.what # "SetCursor"
    BY <1>1, <1>2, SMT DEF Printing
  <2>. QED BY <1>1, <1>10, <2>1 DEF CursorInv
<1>12. I2cTypeOK'
  BY <1>1, <1>5, <1>8, <1>10 DEF I2cTypeOK
<1>13. PlaceInv' /\ DecoderInv' /\ ScrollInv'
  <2>1. PlaceInv'
    BY <1>1, <1>2, <1>5, <1>6, SMT DEF PlaceInv
  <2>2. DecoderInv'
    BY <1>1, <1>2, <1>3, <1>6, SMT DEF DecoderInv
  <2>3. ScrollInv'
    BY <1>1, <1>2, <1>6, <1>8, SMT DEF ScrollInv
  <2>. QED BY <2>1, <2>2, <2>3
<1>14. HomeInv' /\ BlankInv'
  BY <1>1, <1>2, <1>6, SMT DEF HomeInv, BlankInv
<1>15. CursorInv'
  <2>1. sending'.what = "char" => SSD1306_CursorPos' + FontSize + 1 - sending'.i <= MAX_SEG
    <3>. SUFFICES ASSUME sending'.what = "char"
                  PROVE  SSD1306_CursorPos' + FontSize + 1 - sending'.i <= MAX_SEG
      OBVIOUS
    <3>1. sending'.i = sending.i + 1
      BY <1>1, <1>5
    <3>. QED BY <1>1, <1>6, <1>9, <3>1, Constants, SMT
  <2>2. SSD1306_CursorPos' < MAX_SEG => oled'.line = SSD1306_LineNum /\ oled'.col = SSD1306_CursorPos'
    BY <1>1, <1>8, <1>10, <1>11, Constants, SMT DEF Step
  <2>. QED BY <1>1, <1>6, <1>8, <1>11, <2>1, <2>2 DEF CursorInv
<1>. QED BY <1>12, <1>13, <1>14, <1>15 DEF I2cInv
-----------------------------------------------------------------------------
(* The calls of probe and remove. *)

LEMMA CallNames ==
    ASSUME driver \in {"unbound", "probe", "bound", "remove"}
    PROVE  /\ Len(Calls) = IF driver = "probe" THEN 5 ELSE IF driver = "remove" THEN 4 ELSE 0
           /\ driver = "probe" =>
                  /\ Calls[1] = "commands" /\ Calls[2] = "Fill" /\ Calls[3] = "SetCursor"
                  /\ Calls[4] = "StartScrollHorizontal" /\ Calls[5] = "String"
           /\ driver = "remove" =>
                  /\ Calls[1] = "String" /\ Calls[2] = "SetCursor" /\ Calls[3] = "Fill"
                  /\ Calls[4] = "off"
<1>1. /\ Len(OledProbe) = 5
      /\ OledProbe[1] = "commands" /\ OledProbe[2] = "Fill" /\ OledProbe[3] = "SetCursor"
      /\ OledProbe[4] = "StartScrollHorizontal" /\ OledProbe[5] = "String"
  BY SMT DEF OledProbe
<1>2. /\ Len(OledRemove) = 4
      /\ OledRemove[1] = "String" /\ OledRemove[2] = "SetCursor" /\ OledRemove[3] = "Fill"
      /\ OledRemove[4] = "off"
  BY SMT DEF OledRemove
<1>3. Len(<<>>) = 0
  BY SMT
<1>4. CASE driver = "probe"
  BY <1>1, <1>4 DEF Calls
<1>5. CASE driver = "remove"
  BY <1>2, <1>5 DEF Calls
<1>6. CASE driver # "probe" /\ driver # "remove"
  BY <1>3, <1>6 DEF Calls
<1>. QED BY <1>4, <1>5, <1>6

\* SSD1306_String sends a character that fits into the line, or goes on to the
\* next line, or is done.
LEMMA StringGoes ==
    ASSUME I2cInv, SSD1306_String
    PROVE  /\ text' \in Seq(Chars \cup {Newline})
           /\ \/ /\ at' = at + 1
                 /\ UNCHANGED <<SSD1306_LineNum, SSD1306_CursorPos, sending>>
              \/ /\ at' = at /\ sending' = Send("SetCursor")
                 /\ SSD1306_LineNum' \in Lines /\ SSD1306_CursorPos' = 0
              \/ /\ at' = at /\ SSD1306_CursorPos + FontSize < MAX_SEG
                 /\ UNCHANGED <<SSD1306_LineNum, SSD1306_CursorPos>>
                 /\ \E c \in Chars : sending' = Glyph(c)
<1>1. /\ text \in Seq(Chars \cup {Newline}) /\ SSD1306_LineNum \in Lines
      /\ SSD1306_CursorPos \in 0 .. MAX_SEG
  BY DEF I2cInv, I2cTypeOK
<1>2. CASE text = <<>>
  BY <1>1, <1>2, Zenon DEF SSD1306_String, i2ccursor
<1>3. CASE text # <<>>
  <2>1. Head(text) \in Chars \cup {Newline} /\ Tail(text) \in Seq(Chars \cup {Newline})
    BY <1>1, <1>3, SMT
  <2>2. SSD1306_GoToNextLine =>
            /\ sending' = Send("SetCursor") /\ SSD1306_LineNum' \in Lines
            /\ SSD1306_CursorPos' = 0
    BY <1>1, Constants, SMT DEF SSD1306_GoToNextLine, SSD1306_SetCursor, Lines
  <2>3. ~(SSD1306_CursorPos + FontSize >= MAX_SEG) => SSD1306_CursorPos + FontSize < MAX_SEG
    BY <1>1, Constants, SMT
  <2>. QED BY <1>1, <1>3, <2>1, <2>2, <2>3, Zenon DEF SSD1306_String, i2ccursor
<1>. QED BY <1>2, <1>3

\* Nothing is being sent, and the panel gets nothing yet.
LEMMA CallCases ==
    ASSUME I2cInv, Call
    PROVE  /\ sending = Nothing
           /\ UNCHANGED <<driver, oled, area, command, tidy>>
           /\ text' \in Seq(Chars \cup {Newline})
           /\ \/ /\ UNCHANGED <<SSD1306_LineNum, SSD1306_CursorPos>>
                 /\ at' = at + 1
                 /\ \/ driver = "probe" /\ at = 1 /\ sending' = Send("commands")
                    \/ driver = "probe" /\ at = 2 /\ sending' = Send("Fill")
                    \/ driver = "probe" /\ at = 4 /\ sending' = Send("StartScrollHorizontal")
                    \/ driver = "remove" /\ at = 3 /\ sending' = Send("Fill")
                    \/ driver = "remove" /\ at = 4 /\ sending' = Send("off")
                    \/ driver = "probe" /\ at = 5 /\ sending' = Nothing
                    \/ driver = "remove" /\ at = 1 /\ sending' = Nothing
              \/ /\ (driver = "probe" /\ at = 3) \/ (driver = "remove" /\ at = 2)
                 /\ at' = at + 1 /\ sending' = Send("SetCursor")
                 /\ SSD1306_LineNum' = 0 /\ SSD1306_CursorPos' = 0
              \/ /\ (driver = "probe" /\ at = 5) \/ (driver = "remove" /\ at = 1)
                 /\ at' = at /\ sending' = Send("SetCursor")
                 /\ SSD1306_LineNum' \in Lines /\ SSD1306_CursorPos' = 0
              \/ /\ (driver = "probe" /\ at = 5) \/ (driver = "remove" /\ at = 1)
                 /\ at' = at /\ SSD1306_CursorPos + FontSize < MAX_SEG
                 /\ UNCHANGED <<SSD1306_LineNum, SSD1306_CursorPos>>
                 /\ \E c \in Chars : sending' = Glyph(c)
<1>1. /\ sending = Nothing /\ at \in 1 .. Len(Calls)
      /\ UNCHANGED <<driver, oled, area, command, tidy>>
      /\ driver \in {"unbound", "probe", "bound", "remove"}
      /\ text \in Seq(Chars \cup {Newline})
  BY DEF Call, panelvars, I2cInv, I2cTypeOK
<1>2. \/ driver = "probe" /\ (at = 1 \/ at = 2 \/ at = 3 \/ at = 4 \/ at = 5)
      \/ driver = "remove" /\ (at = 1 \/ at = 2 \/ at = 3 \/ at = 4)
  <2>. DEFINE n == Len(Calls)
  <2>1. /\ at \in 1 .. n
        /\ n = IF driver = "probe" THEN 5 ELSE IF driver = "remove" THEN 4 ELSE 0
    BY <1>1, CallNames
  <2>. HIDE DEF n
  <2>. QED BY <2>1, SMT
<1>3. /\ driver = "probe" =>
             /\ at = 1 => Calls[at] = "commands"
             /\ at = 2 => Calls[at] = "Fill"
             /\ at = 3 => Calls[at] = "SetCursor"
             /\ at = 4 => Calls[at] = "StartScrollHorizontal"
             /\ at = 5 => Calls[at] = "String"
      /\ driver = "remove" =>
             /\ at = 1 => Calls[at] = "String"
             /\ at = 2 => Calls[at] = "SetCursor"
             /\ at = 3 => Calls[at] = "Fill"
             /\ at = 4 => Calls[at] = "off"
  BY <1>1, CallNames, Zenon
<1>4. CASE Calls[at] = "String"
  <2>1. SSD1306_String
    BY <1>4, Zenon DEF Call
  <2>2. (driver = "probe" /\ at = 5) \/ (driver = "remove" /\ at = 1)
    BY <1>2, <1>3, <1>4
  <2>. QED BY <1>1, <2>1, <2>2, StringGoes, Zenon
<1>5. CASE Calls[at] = "SetCursor"
  <2>1. /\ SSD1306_LineNum' = 0 /\ SSD1306_CursorPos' = 0 /\ sending' = Send("SetCursor")
        /\ at' = at + 1 /\ text' = text
    BY <1>5, Zenon DEF Call, SSD1306_SetCursor
  <2>2. (driver = "probe" /\ at = 3) \/ (driver = "remove" /\ at = 2)
    BY <1>2, <1>3, <1>5
  <2>. QED BY <1>1, <2>1, <2>2, Zenon
<1>6. CASE Calls[at] \in {"commands", "Fill", "StartScrollHorizontal", "off"}
  <2>1. /\ sending' = Send(Calls[at]) /\ at' = at + 1 /\ text' = text
        /\ UNCHANGED <<SSD1306_LineNum, SSD1306_CursorPos>>
    BY <1>6, Zenon DEF Call, i2ccursor
  <2>2. \/ driver = "probe" /\ at = 1 /\ Calls[at] = "commands"
        \/ driver = "probe" /\ at = 2 /\ Calls[at] = "Fill"
        \/ driver = "probe" /\ at = 4 /\ Calls[at] = "StartScrollHorizontal"
        \/ driver = "remove" /\ at = 3 /\ Calls[at] = "Fill"
        \/ driver = "remove" /\ at = 4 /\ Calls[at] = "off"
    BY <1>2, <1>3, <1>6
  <2>. QED BY <1>1, <2>1, <2>2, Zenon
<1>. QED BY <1>4, <1>5, <1>6, Zenon DEF Call

LEMMA CallInv ==
    ASSUME I2cInv, Call
    PROVE  I2cInv'
<1>1. /\ I2cTypeOK /\ PlaceInv /\ DecoderInv /\ ScrollInv /\ HomeInv /\ BlankInv /\ CursorInv
      /\ driver \in {"unbound", "probe", "bound", "remove"}
      /\ SSD1306_CursorPos \in 0 .. MAX_SEG /\ SSD1306_LineNum \in Lines
      /\ command \in Seq(Nat) /\ tidy \in BOOLEAN
  BY DEF I2cInv, I2cTypeOK
<1>2. /\ sending = Nothing
      /\ UNCHANGED <<driver, oled, area, command, tidy>>
      /\ text' \in Seq(Chars \cup {Newline})
  BY CallCases
<1>3. Nothing.what = "none" /\ Nothing.i = 0 /\ 0 \in Lines /\ 0 < MAX_SEG /\ 0 \in 0 .. MAX_SEG
  BY Constants, SMT DEF Nothing, Lines
<1>4. /\ Send("commands") \in Sendings /\ Send("Fill") \in Sendings
      /\ Send("StartScrollHorizontal") \in Sendings /\ Send("off") \in Sendings
      /\ Send("SetCursor") \in Sendings /\ Nothing \in Sendings
      /\ \A c \in Chars : Glyph(c) \in Sendings
  BY TotalNat, Constants, SMT DEF Send, Sendings, Glyph
<1>5. CASE /\ driver = "probe" /\ at = 1 /\ at' = 2 /\ sending' = Send("commands")
           /\ UNCHANGED <<SSD1306_LineNum, SSD1306_CursorPos>>
  <2>1. sending' # Nothing /\ sending'.what = "commands" /\ sending'.i = 0
    BY <1>5 DEF Send, Nothing
  <2>2. I2cTypeOK'
    BY <1>1, <1>2, <1>4, <1>5 DEF I2cTypeOK
  <2>3. PlaceInv' /\ ScrollInv' /\ BlankInv'
    BY <1>1, <1>2, <1>5, <2>1, SMT DEF PlaceInv, ScrollInv, BlankInv
  <2>4. HomeInv' /\ CursorInv'
    <3>1. tidy => Home(0)
      BY <1>1, <1>5 DEF HomeInv
    <3>2. tidy => Home(0)'
      BY <1>2, <3>1 DEF Home
    <3>3. HomeInv'
      BY <1>2, <1>5, <2>1, <3>2, SMT DEF HomeInv
    <3>4. CursorInv'
      BY <1>2, <1>5, <2>1, SMT DEF CursorInv, Printing
    <3>. QED BY <3>3, <3>4
  <2>5. DecoderInv'
    <3>1. /\ tidy => command = <<>>
          /\ command # <<>> => Len(command) <= Args(command[1]) /\ Len(command) >= 1
                               /\ Args(command[1]) <= 6 /\ Args(command[1]) \in Nat
      <4>1. (tidy => command = <<>>) /\ (command # <<>> => Len(command) <= Args(command[1]))
        BY <1>1, <1>5 DEF DecoderInv
      <4>2. command # <<>> => Len(command) >= 1
        BY <1>1, SMT
      <4>3. Args(command[1]) <= 6 /\ Args(command[1]) \in Nat
        BY SMT DEF Args
      <4>. QED BY <4>1, <4>2, <4>3
    <3>2. CASE command = <<>>
      <4>1. Since(sending.i)'
        BY <1>2, <2>1, <3>2, SinceNow, SMT
      <4>2. sending'.i \notin OneArg
        BY <2>1, SMT DEF OneArg
      <4>. QED BY <1>2, <1>5, <2>1, <3>2, <4>1, <4>2, Zenon DEF DecoderInv
    <3>3. CASE command # <<>>
      <4>1. ~tidy' /\ command' # <<>> /\ command' = command
        BY <1>2, <3>1, <3>3
      <4>2. sending'.i + Args(command'[1]) + 1 - Len(command') <= 6
        <5>. DEFINE n == Len(command)  k == Args(command[1])
        <5>1. n <= k /\ n >= 1 /\ k <= 6 /\ k \in Nat /\ n \in Nat
          BY <1>1, <3>1, <3>3
        <5>. HIDE DEF n, k
        <5>2. 0 + k + 1 - n <= 6
          BY <5>1, SMT
        <5>. QED BY <2>1, <4>1, <5>2 DEF n, k
      <4>3. Late'
        BY <4>1, <4>2 DEF Late
      <4>4. command' # <<>> => Len(command') <= Args(command'[1])
        BY <3>1, <4>1
      <4>5. ~(driver' = "unbound" \/ (driver' = "probe" /\ at' = 1))
        BY <1>2, <1>5, SMT
      <4>. QED BY <2>1, <4>1, <4>3, <4>4, <4>5, Zenon DEF DecoderInv
    <3>. QED BY <3>2, <3>3
  <2>. QED BY <2>2, <2>3, <2>4, <2>5 DEF I2cInv
<1>6. CASE /\ (driver = "probe" /\ at = 2 /\ at' = 3) \/ (driver = "remove" /\ at = 3 /\ at' = 4)
           /\ sending' = Send("Fill")
           /\ UNCHANGED <<SSD1306_LineNum, SSD1306_CursorPos>>
  <2>1. sending' # Nothing /\ sending'.what = "Fill" /\ sending'.i = 0
    BY <1>6 DEF Send, Nothing
  <2>2. I2cTypeOK'
    BY <1>1, <1>2, <1>4, <1>6 DEF I2cTypeOK
  <2>3. command = <<>>
    BY <1>1, <1>2, <1>3, <1>6, SMT DEF DecoderInv
  <2>4. PlaceInv' /\ DecoderInv'
    BY <1>1, <1>2, <1>6, <2>1, <2>3, SMT DEF PlaceInv, DecoderInv
  <2>5. ScrollInv'
    BY <1>1, <1>2, <1>3, <1>6, <2>1, SMT DEF ScrollInv
  <2>6. HomeInv' /\ CursorInv'
    <3>1. tidy \/ driver = "remove" => Home(0)
      BY <1>1, <1>2, <1>3, <1>6, SMT DEF HomeInv
    <3>2. tidy \/ driver = "remove" => Home(0)'
      BY <1>2, <3>1 DEF Home
    <3>3. HomeInv'
      BY <1>2, <1>6, <2>1, <3>2, SMT DEF HomeInv
    <3>4. CursorInv'
      BY <1>2, <1>6, <2>1, SMT DEF CursorInv, Printing
    <3>. QED BY <3>3, <3>4
  <2>7. BlankInv'
    <3>1. \A x \in Cells : ~(x[1] * MAX_SEG + x[2] < 0)
      BY CellNumber, TotalNat, SMT DEF Cells
    <3>. QED BY <2>1, <3>1 DEF BlankInv
  <2>. QED BY <2>2, <2>4, <2>5, <2>6, <2>7 DEF I2cInv
<1>7. CASE /\ driver = "probe" /\ at = 4 /\ at' = 5 /\ sending' = Send("StartScrollHorizontal")
           /\ UNCHANGED <<SSD1306_LineNum, SSD1306_CursorPos>>
  <2>1. sending' # Nothing /\ sending'.what = "StartScrollHorizontal" /\ sending'.i = 0
    BY <1>7 DEF Send, Nothing
  <2>2. I2cTypeOK'
    BY <1>1, <1>2, <1>4, <1>7 DEF I2cTypeOK
  <2>3. command = <<>>
    BY <1>1, <1>2, <1>3, <1>7, SMT DEF DecoderInv
  <2>4. PlaceInv'
    BY <1>1, <1>2, <1>7, <2>1, SMT DEF PlaceInv
  <2>5. DecoderInv'
    <3>1. Since(sending.i)'
      BY <1>2, <2>1, <2>3, SinceNow, SMT
    <3>. QED BY <1>2, <1>7, <2>1, <2>3, <3>1, SMT DEF DecoderInv
  <2>6. ScrollInv'
    BY <1>1, <1>2, <1>3, <1>7, <2>1, SMT DEF ScrollInv
  <2>7. HomeInv' /\ BlankInv'
    BY <1>1, <1>2, <1>7, <2>1, SMT DEF HomeInv, BlankInv
  <2>8. CursorInv'
    BY <1>1, <1>2, <1>3, <1>7, <2>1, SMT DEF CursorInv, Printing
  <2>. QED BY <2>2, <2>4, <2>5, <2>6, <2>7, <2>8 DEF I2cInv
<1>8. CASE /\ driver = "remove" /\ at = 4 /\ at' = 5 /\ sending' = Send("off")
           /\ UNCHANGED <<SSD1306_LineNum, SSD1306_CursorPos>>
  <2>1. sending' # Nothing /\ sending'.what = "off" /\ sending'.i = 0
    BY <1>8 DEF Send, Nothing
  <2>2. I2cTypeOK'
    BY <1>1, <1>2, <1>4, <1>8 DEF I2cTypeOK
  <2>3. command = <<>>
    BY <1>1, <1>2, <1>3, <1>8, SMT DEF DecoderInv
  <2>4. PlaceInv' /\ DecoderInv' /\ ScrollInv' /\ BlankInv'
    BY <1>1, <1>2, <1>8, <2>1, <2>3, SMT DEF PlaceInv, DecoderInv, ScrollInv, BlankInv
  <2>5. HomeInv' /\ CursorInv'
    <3>1. Home(0)
      BY <1>1, <1>2, <1>3, <1>8, SMT DEF HomeInv
    <3>2. Home(0)'
      BY <1>2, <3>1 DEF Home
    <3>3. HomeInv'
      BY <1>2, <1>8, <2>1, <3>2, SMT DEF HomeInv
    <3>4. CursorInv'
      BY <1>2, <1>8, <2>1, SMT DEF CursorInv, Printing
    <3>. QED BY <3>3, <3>4
  <2>. QED BY <2>2, <2>4, <2>5 DEF I2cInv
<1>9. CASE /\ (driver = "probe" /\ at = 5 /\ at' = 6) \/ (driver = "remove" /\ at = 1 /\ at' = 2)
           /\ sending' = Nothing
           /\ UNCHANGED <<SSD1306_LineNum, SSD1306_CursorPos>>
  <2>1. I2cTypeOK'
    BY <1>1, <1>2, <1>4, <1>9 DEF I2cTypeOK
  <2>2. command = <<>>
    BY <1>1, <1>2, <1>3, <1>9, SMT DEF DecoderInv
  <2>3. PlaceInv' /\ DecoderInv'
    BY <1>1, <1>2, <1>3, <1>9, <2>2, SMT DEF PlaceInv, DecoderInv
  <2>4. ScrollInv' /\ HomeInv' /\ BlankInv'
    BY <1>1, <1>2, <1>3, <1>9, SMT DEF ScrollInv, HomeInv, BlankInv
  <2>5. CursorInv'
    BY <1>1, <1>2, <1>3, <1>9, SMT DEF CursorInv, Printing
  <2>. QED BY <2>1, <2>3, <2>4, <2>5 DEF I2cInv
<1>10. CASE /\ \/ driver = "probe" /\ at = 3 /\ at' = 4 /\ SSD1306_LineNum' = 0
               \/ driver = "remove" /\ at = 2 /\ at' = 3 /\ SSD1306_LineNum' = 0
               \/ driver = "probe" /\ at = 5 /\ at' = 5
               \/ driver = "remove" /\ at = 1 /\ at' = 1
            /\ sending' = Send("SetCursor")
            /\ SSD1306_LineNum' \in Lines /\ SSD1306_CursorPos' = 0
  <2>1. sending' # Nothing /\ sending'.what = "SetCursor" /\ sending'.i = 0
    BY <1>10 DEF Send, Nothing
  <2>2. I2cTypeOK'
    BY <1>1, <1>2, <1>3, <1>4, <1>10 DEF I2cTypeOK
  <2>3. command = <<>>
    BY <1>1, <1>2, <1>3, <1>10, SMT DEF DecoderInv
  <2>4. PlaceInv'
    BY <1>1, <1>2, <1>10, <2>1, SMT DEF PlaceInv
  <2>5. DecoderInv'
    <3>1. Since(sending.i)'
      BY <1>2, <2>1, <2>3, SinceNow, SMT
    <3>. QED BY <1>2, <1>10, <2>1, <2>3, <3>1, SMT DEF DecoderInv
  <2>6. ScrollInv'
    BY <1>1, <1>2, <1>3, <1>10, <2>1, SMT DEF ScrollInv
  <2>7. HomeInv' /\ BlankInv'
    BY <1>1, <1>2, <1>10, <2>1, SMT DEF HomeInv, BlankInv
  <2>8. CursorInv'
    BY <1>1, <1>2, <1>3, <1>10, <2>1, SMT DEF CursorInv, Printing
  <2>. QED BY <2>2, <2>4, <2>5, <2>6, <2>7, <2>8 DEF I2cInv
<1>11. ASSUME NEW c \in Chars,
              /\ (driver = "probe" /\ at = 5) \/ (driver = "remove" /\ at = 1)
              /\ at' = at /\ SSD1306_CursorPos + FontSize < MAX_SEG
              /\ UNCHANGED <<SSD1306_LineNum, SSD1306_CursorPos>>
              /\ sending' = Glyph(c)
       PROVE  I2cInv'
  <2>1. sending' # Nothing /\ sending'.what = "char" /\ sending'.i = 0
    BY <1>11 DEF Glyph, Nothing
  <2>2. I2cTypeOK'
    BY <1>1, <1>2, <1>4, <1>11 DEF I2cTypeOK
  <2>3. command = <<>>
    BY <1>1, <1>2, <1>3, <1>11, SMT DEF DecoderInv
  <2>4. PlaceInv' /\ DecoderInv'
    BY <1>1, <1>2, <1>11, <2>1, <2>3, SMT DEF PlaceInv, DecoderInv
  <2>5. ScrollInv' /\ HomeInv' /\ BlankInv'
    BY <1>1, <1>2, <1>3, <1>11, <2>1, SMT DEF ScrollInv, HomeInv, BlankInv
  <2>6. CursorInv'
    <3>1. SSD1306_CursorPos' + FontSize + 1 - sending'.i <= MAX_SEG
      BY <1>1, <1>11, <2>1, Constants, SMT
    <3>. QED BY <1>1, <1>2, <1>3, <1>11, <2>1, <3>1, SMT DEF CursorInv, Printing
  <2>. QED BY <2>2, <2>4, <2>5, <2>6 DEF I2cInv
<1>12. at = 1 => at + 1 = 2
  BY SMT
<1>13. (at = 2 => at + 1 = 3) /\ (at = 3 => at + 1 = 4)
  BY SMT
<1>14. (at = 4 => at + 1 = 5) /\ (at = 5 => at + 1 = 6)
  BY SMT
<1>. QED BY <1>3, <1>5, <1>6, <1>7, <1>8, <1>9, <1>10, <1>11, <1>12, <1>13, <1>14, CallCases, ZenonT(60)
-----------------------------------------------------------------------------
(* Binding, unbinding, a restart, the scroll engine. *)

LEMMA BecomeInv ==
    ASSUME I2cInv, Bind \/ Bound \/ Unbind \/ Unbound
    PROVE  I2cInv'
<1>1. /\ I2cTypeOK /\ PlaceInv /\ DecoderInv /\ ScrollInv /\ HomeInv /\ BlankInv /\ CursorInv
      /\ driver \in {"unbound", "probe", "bound", "remove"}
      /\ SSD1306_CursorPos \in 0 .. MAX_SEG
      /\ tidy \in BOOLEAN
  BY DEF I2cInv, I2cTypeOK
<1>2. /\ sending = Nothing /\ at = Len(Calls) + 1 /\ at' = 1
      /\ UNCHANGED <<SSD1306_LineNum, SSD1306_CursorPos, sending, oled, area, command>>
  BY DEF Bind, Bound, Unbind, Unbound, Become, i2ccursor, panelvars
<1>3. Nothing.what = "none" /\ Nothing.i = 0
  BY DEF Nothing
<1>4. <<>> \in Seq(Chars \cup {Newline})
  BY SMT
<1>5. CASE Bind
  <2>1. driver = "unbound" /\ driver' = "probe" /\ text' = Welcome /\ tidy' = tidy
    BY <1>5 DEF Bind, Become
  <2>2. at = 1
    BY <1>1, <2>1, SMT DEF PlaceInv
  <2>3. I2cTypeOK'
    BY <1>1, <1>2, <2>1, OledI2cAssumption, Zenon DEF I2cTypeOK
  <2>4. PlaceInv' /\ DecoderInv' /\ ScrollInv' /\ BlankInv' /\ CursorInv'
    <3>1. PlaceInv' /\ BlankInv'
      BY <1>1, <1>2, <1>3, <2>1, SMT DEF PlaceInv, BlankInv
    <3>2. DecoderInv'
      BY <1>1, <1>2, <2>1, Zenon DEF DecoderInv
    <3>3. ScrollInv' /\ CursorInv'
      BY <1>1, <1>2, <1>3, <2>1, SMT DEF ScrollInv, CursorInv, Printing
    <3>. QED BY <3>1, <3>2, <3>3
  <2>5. HomeInv'
    <3>1. tidy => Home(0)
      BY <1>1, <2>1 DEF HomeInv
    <3>2. tidy => Home(0)'
      BY <1>2, <3>1 DEF Home
    <3>. QED BY <1>2, <1>3, <2>1, <3>2, SMT DEF HomeInv
  <2>. QED BY <2>3, <2>4, <2>5 DEF I2cInv
<1>6. CASE Bound
  <2>1. driver = "probe" /\ driver' = "bound" /\ text' = <<>> /\ tidy' = FALSE
    BY <1>6 DEF Bound, Become
  <2>2. at = 6
    <3>1. Len(Calls) = 5
      BY <1>1, <2>1, CallNames, Zenon
    <3>. QED BY <1>2, <3>1, SMT
  <2>3. I2cTypeOK'
    BY <1>1, <1>2, <1>4, <2>1, Zenon DEF I2cTypeOK
  <2>4. command = <<>>
    BY <1>1, <1>2, <1>3, <2>1, <2>2, SMT DEF DecoderInv
  <2>5. PlaceInv' /\ DecoderInv' /\ ScrollInv' /\ HomeInv' /\ BlankInv'
    <3>1. PlaceInv' /\ DecoderInv' /\ BlankInv'
      BY <1>1, <1>2, <1>3, <2>1, <2>4, SMT DEF PlaceInv, DecoderInv, BlankInv
    <3>2. ScrollInv' /\ HomeInv'
      BY <1>1, <1>2, <1>3, <2>1, <2>2, SMT DEF ScrollInv, HomeInv
    <3>. QED BY <3>1, <3>2
  <2>6. CursorInv'
    BY <1>1, <1>2, <1>3, <2>1, <2>2, SMT DEF CursorInv, Printing
  <2>. QED BY <2>3, <2>5, <2>6 DEF I2cInv
<1>7. CASE Unbind
  <2>1. driver = "bound" /\ driver' = "remove" /\ text' = Bye /\ tidy' = tidy
    BY <1>7 DEF Unbind, Become
  <2>2. at = 1
    BY <1>1, <2>1, SMT DEF PlaceInv
  <2>3. I2cTypeOK'
    BY <1>1, <1>2, <2>1, OledI2cAssumption, Zenon DEF I2cTypeOK
  <2>4. command = <<>>
    BY <1>1, <1>2, <1>3, <2>1, <2>2, SMT DEF DecoderInv
  <2>5. PlaceInv' /\ DecoderInv' /\ ScrollInv' /\ HomeInv' /\ BlankInv'
    <3>1. PlaceInv' /\ DecoderInv' /\ BlankInv'
      BY <1>1, <1>2, <1>3, <2>1, <2>4, SMT DEF PlaceInv, DecoderInv, BlankInv
    <3>2. ScrollInv' /\ HomeInv'
      BY <1>1, <1>2, <1>3, <2>1, <2>2, SMT DEF ScrollInv, HomeInv
    <3>. QED BY <3>1, <3>2
  <2>6. CursorInv'
    BY <1>1, <1>2, <1>3, <2>1, <2>2, SMT DEF CursorInv, Printing
  <2>. QED BY <2>3, <2>5, <2>6 DEF I2cInv
<1>8. CASE Unbound
  <2>1. driver = "remove" /\ driver' = "unbound" /\ text' = <<>> /\ tidy' = TRUE
    BY <1>8 DEF Unbound, Become
  <2>2. at = 5
    <3>1. Len(Calls) = 4
      BY <1>1, <2>1, CallNames
    <3>. QED BY <1>2, <3>1, SMT
  <2>3. I2cTypeOK'
    BY <1>1, <1>2, <1>4, <2>1 DEF I2cTypeOK
  <2>4. command = <<>>
    BY <1>1, <1>2, <1>3, <2>1, <2>2, SMT DEF DecoderInv
  <2>5. PlaceInv' /\ DecoderInv' /\ ScrollInv' /\ BlankInv' /\ CursorInv'
    <3>1. PlaceInv' /\ DecoderInv' /\ BlankInv'
      BY <1>1, <1>2, <1>3, <2>1, <2>4, SMT DEF PlaceInv, DecoderInv, BlankInv
    <3>2. ScrollInv' /\ CursorInv'
      BY <1>1, <1>2, <1>3, <2>1, <2>2, SMT DEF ScrollInv, CursorInv, Printing
    <3>. QED BY <3>1, <3>2
  <2>6. HomeInv'
    <3>1. Home(0)
      BY <1>1, <1>2, <1>3, <2>1, <2>2, SMT DEF HomeInv
    <3>2. Home(0)'
      BY <1>2, <3>1 DEF Home
    <3>. QED BY <1>2, <1>3, <2>1, <3>2, SMT DEF HomeInv
  <2>. QED BY <2>3, <2>5, <2>6 DEF I2cInv
<1>. QED BY <1>5, <1>6, <1>7, <1>8

\* The panel keeps what it has of a command.
LEMMA RestartInv ==
    ASSUME I2cInv, Restart
    PROVE  I2cInv'
<1>1. /\ I2cTypeOK /\ DecoderInv
      /\ driver' = "unbound" /\ at' = 1 /\ text' = <<>>
      /\ SSD1306_LineNum' = 0 /\ SSD1306_CursorPos' = 0
      /\ sending' = Nothing /\ tidy' = FALSE
      /\ UNCHANGED <<oled, area, command>>
  BY DEF I2cInv, Restart, panelvars
<1>2. Nothing.what = "none" /\ Nothing.i = 0 /\ Nothing \in Sendings
  BY DEF Nothing, Sendings
<1>3. <<>> \in Seq(Chars \cup {Newline}) /\ 0 \in Lines /\ 0 \in 0 .. MAX_SEG
  BY Constants, SMT DEF Lines
<1>4. I2cTypeOK'
  BY <1>1, <1>2, <1>3 DEF I2cTypeOK
<1>5. PlaceInv' /\ ScrollInv' /\ HomeInv' /\ BlankInv' /\ CursorInv'
  BY <1>1, <1>2, SMT DEF PlaceInv, ScrollInv, HomeInv, BlankInv, CursorInv, Printing
<1>6. DecoderInv'
  BY <1>1, Zenon DEF DecoderInv
<1>. QED BY <1>4, <1>5, <1>6 DEF I2cInv

\* The scroll engine is off while the display is blanked.
LEMMA OledTickInv ==
    ASSUME I2cInv, OledTick
    PROVE  I2cInv'
<1>1. /\ I2cTypeOK /\ PlaceInv /\ DecoderInv /\ ScrollInv /\ HomeInv /\ BlankInv /\ CursorInv
      /\ oled \in Panels /\ oled.scroll # {} /\ oled' = Scrolled(oled)
      /\ UNCHANGED <<driver, at, text, SSD1306_LineNum, SSD1306_CursorPos, sending, area,
                     command, tidy>>
  BY DEF I2cInv, I2cTypeOK, OledTick, called, i2ccursor
<1>2. /\ oled' \in Panels
      /\ oled'.line = oled.line /\ oled'.col = oled.col
      /\ oled'.line0 = oled.line0 /\ oled'.line1 = oled.line1
      /\ oled'.col0 = oled.col0 /\ oled'.col1 = oled.col1
      /\ oled'.power = oled.power /\ oled'.scroll = oled.scroll
  BY <1>1, ScrolledKeeps
<1>3. I2cTypeOK'
  BY <1>1, <1>2 DEF I2cTypeOK
<1>4. PlaceInv' /\ ScrollInv'
  BY <1>1, <1>2, Zenon DEF PlaceInv, ScrollInv
<1>5. DecoderInv'
  <2>1. \A k : Since(k)' <=> Since(k)
    BY <1>1, Zenon DEF Since, CommandBytes, CursorBytes
  <2>2. Late' <=> Late
    BY <1>1, Zenon DEF Late
  <2>. QED BY <1>1, <2>1, <2>2, Zenon DEF DecoderInv
<1>6. HomeInv'
  <2>1. \A i : Home(i)' <=> Home(i)
    BY <1>2, Zenon DEF Home
  <2>. QED BY <1>1, <1>2, <2>1, Zenon DEF HomeInv
<1>7. BlankInv'
  <2>1. ~(driver = "probe" /\ at = 3)
    BY <1>1, SMT DEF ScrollInv, PlaceInv, Nothing
  <2>. QED BY <1>1, <2>1, Zenon DEF BlankInv
<1>8. CursorInv'
  BY <1>1, <1>2, Zenon DEF CursorInv, Printing
<1>. QED BY <1>3, <1>4, <1>5, <1>6, <1>7, <1>8 DEF I2cInv
-----------------------------------------------------------------------------
LEMMA I2cInitInv == I2cInit => I2cInv
<1>. SUFFICES ASSUME I2cInit  PROVE I2cInv
  OBVIOUS
<1>1. /\ driver = "unbound" /\ at = 1 /\ text = <<>> /\ sending = Nothing /\ tidy = TRUE
      /\ SSD1306_LineNum = 0 /\ SSD1306_CursorPos = 0
      /\ oled = Reset([x \in Cells |-> Noise]) /\ area = {} /\ command = <<>>
  BY DEF I2cInit
<1>2. Nothing.what = "none" /\ Nothing \in Sendings
  BY DEF Nothing, Sendings
<1>3. /\ <<>> \in Seq(Chars \cup {Newline}) /\ <<>> \in Seq(Nat)
      /\ 0 \in Lines /\ MAX_LINE \in Lines /\ 0 \in Segs /\ MAX_SEG - 1 \in Segs
      /\ 0 \in 0 .. MAX_SEG
  BY Constants, SMT DEF Lines, Segs
<1>4. oled \in Panels
  BY <1>1, <1>3 DEF Reset, Panels, Bytes
<1>5. I2cTypeOK
  BY <1>1, <1>2, <1>3, <1>4 DEF I2cTypeOK
<1>6. HomeInv
  <2>1. /\ oled.line0 = 0 /\ oled.line1 = MAX_LINE /\ oled.col0 = 0 /\ oled.col1 = MAX_SEG - 1
        /\ oled.line = 0 /\ oled.col = 0
    BY <1>1 DEF Reset
  <2>2. Home(0)
    BY <2>1, Constants, SMT DEF Home
  <2>. QED BY <1>1, <1>2, <2>2, SMT DEF HomeInv
<1>7. PlaceInv /\ DecoderInv /\ ScrollInv /\ BlankInv /\ CursorInv
  BY <1>1, <1>2, SMT DEF PlaceInv, DecoderInv, ScrollInv, BlankInv, CursorInv, Printing
<1>. QED BY <1>5, <1>6, <1>7 DEF I2cInv

LEMMA I2cNextInv == I2cInv /\ [I2cNext]_i2cvars => I2cInv'
<1>. SUFFICES ASSUME I2cInv, [I2cNext]_i2cvars  PROVE I2cInv'
  OBVIOUS
<1>1. CASE Bind \/ Bound \/ Unbind \/ Unbound
  BY <1>1, BecomeInv
<1>2. CASE Call
  BY <1>2, CallInv
<1>3. CASE WriteCommand
  BY <1>3, WriteCommandInv
<1>4. CASE SSD1306_Fill
  BY <1>4, FillInv
<1>5. CASE WriteGlyph
  BY <1>5, WriteGlyphInv
<1>6. CASE Restart
  BY <1>6, RestartInv
<1>7. CASE OledTick
  BY <1>7, OledTickInv
<1>8. CASE UNCHANGED i2cvars
  <2>1. /\ UNCHANGED <<driver, at, text, SSD1306_LineNum, SSD1306_CursorPos, sending>>
        /\ UNCHANGED <<oled, area, command, restarts, tidy>>
    BY <1>8 DEF i2cvars, called, i2ccursor, panelvars
  <2>2. /\ I2cTypeOK' <=> I2cTypeOK
        /\ PlaceInv' <=> PlaceInv
        /\ ScrollInv' <=> ScrollInv
        /\ BlankInv' <=> BlankInv
        /\ CursorInv' <=> CursorInv
    BY <2>1, Zenon DEF I2cTypeOK, PlaceInv, ScrollInv, BlankInv, CursorInv, Printing
  <2>3. DecoderInv' <=> DecoderInv
    BY <2>1, Zenon DEF DecoderInv, Since, Late, CommandBytes, CursorBytes
  <2>4. HomeInv' <=> HomeInv
    BY <2>1, Zenon DEF HomeInv, Home
  <2>. QED BY <2>2, <2>3, <2>4 DEF I2cInv
<1>. QED BY <1>1, <1>2, <1>3, <1>4, <1>5, <1>6, <1>7, <1>8 DEF I2cNext

\* The inductive invariant of oled_i2c holds.
THEOREM I2cInvariant == I2cSpec => []I2cInv
<1>1. I2cInit => I2cInv
  BY I2cInitInv
<1>2. I2cInv /\ [I2cNext]_i2cvars => I2cInv'
  BY I2cNextInv
<1>. QED BY <1>1, <1>2, PTL DEF I2cSpec

\* Wherever a restart has cut off what oled_i2c sends, the panel is in step with
\* the next probe behind its first commands: no data come in the middle of a
\* command, and a bound display is on, scrolls and has its pointer at the cursor.
THEOREM PanelInStep == I2cSpec => []InStep
<1>1. I2cInv => InStep
  <2>. SUFFICES ASSUME I2cInv  PROVE InStep
    OBVIOUS
  <2>1. /\ DecoderInv /\ ScrollInv /\ CursorInv /\ PlaceInv /\ Nothing.what = "none"
        /\ driver \in {"unbound", "probe", "bound", "remove"}
    BY DEF I2cInv, I2cTypeOK, Nothing
  <2>2. sending.what \in {"Fill", "char"} => command = <<>>
    BY <2>1, SMT DEF DecoderInv, PlaceInv
  <2>3. driver = "bound" => oled.power = "on" /\ oled.scroll = 0 .. ScrollLines
    BY <2>1 DEF ScrollInv
  <2>4. driver = "bound" /\ SSD1306_CursorPos < MAX_SEG =>
            oled.line = SSD1306_LineNum /\ oled.col = SSD1306_CursorPos
    BY <2>1, SMT DEF CursorInv, Printing, PlaceInv
  <2>. QED BY <2>2, <2>3, <2>4 DEF InStep
<1>. QED BY <1>1, I2cInvariant, PTL

\* Behind power-up or an orderly remove, SSD1306_DisplayInit of oled_i2c leaves
\* the display blank, although it neither resets the panel nor sets the window.
THEOREM ProbeBlanks == I2cSpec => []BlankBehindInit
<1>1. I2cInv => BlankBehindInit
  <2>. SUFFICES ASSUME I2cInv, driver = "probe", tidy, at = 3, sending = Nothing
                PROVE  oled.ram = [x \in Cells |-> Blank]
    BY DEF BlankBehindInit
  <2>1. oled.ram \in [Cells -> Bytes]
    BY DEF I2cInv, I2cTypeOK, Panels
  <2>2. \A x \in Cells : oled.ram[x] = Blank
    BY Zenon DEF I2cInv, BlankInv
  <2>. QED BY <2>1, <2>2
<1>. QED BY <1>1, I2cInvariant, PTL
=============================================================================
