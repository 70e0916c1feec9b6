------------------------------ MODULE OledI2c ------------------------------
(***************************************************************************)
(* src/oled_i2c/oled_i2c.c: the I2C driver of the display, byte by byte.   *)
(* Here the panel's command decoder matters: it collects the arguments of  *)
(* a command one write at a time, nothing is read back, and nothing resets *)
(* the panel.  It keeps its power when the computer restarts, so that a    *)
(* probe may find it in the middle of a command, a window or a scroll.     *)
(***************************************************************************)
EXTENDS Panel, Sequences

CONSTANTS
    Welcome, Bye,   \* the texts of probe and remove
    MaxRestarts     \* bound: how often the computer restarts

ASSUME OledI2cAssumption ==
    /\ Welcome \in Seq(Chars \cup {Newline}) /\ Bye \in Seq(Chars \cup {Newline})
    /\ MaxRestarts \in Nat

VARIABLES
    driver,             \* unbound, probe, bound, remove
    at,                 \* the call that probe or remove makes next
    text,               \* what its string has left
    SSD1306_LineNum, SSD1306_CursorPos,
    sending,            \* what is sent byte by byte, and how many have gone
    oled,               \* the display
    area,               \* the lines that it is to scroll
    command,            \* the command of which it has not got all arguments
    restarts,           \* how often the computer has restarted
    tidy                \* the panel is fresh, or was left by remove

called == <<driver, at, text>>
i2ccursor == <<SSD1306_LineNum, SSD1306_CursorPos>>
panelvars == <<oled, area, command>>

i2cvars == <<called, i2ccursor, sending, panelvars, restarts, tidy>>

Nothing == [what |-> "none", i |-> 0]
Send(what) == [what |-> what, i |-> 0]
Glyph(c) == [what |-> "char", i |-> 0, c |-> c]

\* The calls.  DisplayInit is its commands, without a reset, and Fill.
OledProbe == <<"commands", "Fill", "SetCursor", "StartScrollHorizontal", "String">>

\* Mutant: the display is cleared from the cursor on.
OledRemove_NoCursor == <<"String", "Fill", "off">>

OledRemove == <<"String", "SetCursor", "Fill", "off">>

Calls == IF driver = "probe" THEN OledProbe ELSE IF driver = "remove" THEN OledRemove ELSE <<>>

I2cInit ==
    /\ driver = "unbound" /\ at = 1 /\ text = <<>>
    /\ SSD1306_LineNum = 0 /\ SSD1306_CursorPos = 0
    /\ sending = Nothing
    /\ oled = Reset([x \in Cells |-> Noise])
    /\ area = {} /\ command = <<>>
    /\ restarts = 0
    /\ tidy = TRUE
-----------------------------------------------------------------------------
(* The functions.  What they call SSD1306_Write for goes out byte by byte. *)

SSD1306_SetCursor(lineNo, cursorPos) ==
    /\ lineNo <= MAX_LINE /\ cursorPos < MAX_SEG
    /\ SSD1306_LineNum' = lineNo /\ SSD1306_CursorPos' = cursorPos
    /\ sending' = Send("SetCursor")

\* The & with SSD1306_MAX_LINE, one less than a power of two.
SSD1306_GoToNextLine ==
    SSD1306_SetCursor(IF SSD1306_LineNum = MAX_LINE THEN 0 ELSE SSD1306_LineNum + 1, 0)

\* SSD1306_PrintChar for each character.  Behind a full line, the next line
\* comes first.
SSD1306_String ==
    IF text = <<>>
    THEN at' = at + 1 /\ UNCHANGED <<text, i2ccursor, sending>>
    ELSE /\ UNCHANGED at
         /\ IF Head(text) = Newline
            THEN SSD1306_GoToNextLine /\ text' = Tail(text)
            ELSE IF SSD1306_CursorPos + FontSize >= MAX_SEG
            THEN SSD1306_GoToNextLine /\ UNCHANGED text
            ELSE sending' = Glyph(Head(text)) /\ text' = Tail(text) /\ UNCHANGED i2ccursor

Call ==
    /\ sending = Nothing /\ at \in 1 .. Len(Calls)
    /\ \/ Calls[at] = "String" /\ SSD1306_String
       \/ Calls[at] = "SetCursor" /\ SSD1306_SetCursor(0, 0) /\ at' = at + 1 /\ UNCHANGED text
       \/ /\ Calls[at] \in {"commands", "Fill", "StartScrollHorizontal", "off"}
          /\ sending' = Send(Calls[at]) /\ at' = at + 1 /\ UNCHANGED <<text, i2ccursor>>
    /\ UNCHANGED <<driver, panelvars, restarts, tidy>>
-----------------------------------------------------------------------------
(* The bytes. *)

InitBytes ==
    <<\hAE, \hD5, \h80, \hA8, \h3F, \hD3, 0, \h40, \h8D, \h14, \h20, 0, \hA1, \hC8,
      \hDA, \h12, \h81, \h80, \hD9, \hF1, \hDB, \h20, \hA4, \hA6, \h2E, \hAF>>

\* Mutant: the last page is not sent.
CursorBytes_NoEnd == <<\h21, SSD1306_CursorPos, MAX_SEG - 1, \h22, SSD1306_LineNum>>

CursorBytes == <<\h21, SSD1306_CursorPos, MAX_SEG - 1, \h22, SSD1306_LineNum, MAX_LINE>>

ScrollBytes(start_line_no, end_line_no) ==
    <<\h27, 0, start_line_no, 0, end_line_no, 0, \hFF, \h2F>>

CommandBytes ==
    IF sending.what = "commands" THEN InitBytes
    ELSE IF sending.what = "SetCursor" THEN CursorBytes
    ELSE IF sending.what = "StartScrollHorizontal" THEN ScrollBytes(0, ScrollLines)
    ELSE <<\hAE>>

\* How many arguments the panel waits for.
Args(op) ==
    IF op \in {\h21, \h22} THEN 2
    ELSE IF op \in {\h26, \h27} THEN 6
    ELSE IF op \in {\h20, \h81, \h8D, \hA8, \hD3, \hD5, \hD9, \hDA, \hDB} THEN 1
    ELSE 0

\* What a complete command does.  The bits that an address has too many of
\* are not looked at.
Execute(cmd) ==
    LET seg(n) == cmd[n] % MAX_SEG  page(n) == cmd[n] % (MAX_LINE + 1) IN
    /\ oled' = IF cmd[1] = \h21 THEN SetColumns(oled, seg(2), seg(3))
               ELSE IF cmd[1] = \h22 THEN SetPages(oled, page(2), page(3))
               ELSE IF cmd[1] = \hAE THEN [oled EXCEPT !.power = "off"]
               ELSE IF cmd[1] = \hAF THEN [oled EXCEPT !.power = "on"]
               ELSE IF cmd[1] = \h2E THEN [oled EXCEPT !.scroll = {}]
               ELSE IF cmd[1] = \h2F THEN [oled EXCEPT !.scroll = area]
               ELSE oled
    /\ area' = IF cmd[1] \in {\h26, \h27} THEN page(3) .. page(5) ELSE area

Decode(byte) ==
    LET got == Append(command, byte) IN
    IF Len(got) <= Args(got[1])
    THEN command' = got /\ UNCHANGED <<oled, area>>
    ELSE command' = <<>> /\ Execute(got)

Sent(n) == sending' = IF sending.i + 1 = n THEN Nothing ELSE [sending EXCEPT !.i = @ + 1]

WriteCommand ==
    /\ sending.what \in {"commands", "SetCursor", "StartScrollHorizontal", "off"}
    /\ Decode(CommandBytes[sending.i + 1])
    /\ Sent(Len(CommandBytes))
    /\ UNCHANGED <<called, i2ccursor, restarts, tidy>>

\* Data that comes in the middle of a command is none of its arguments.
WriteData(byte) == oled' = Draw(oled, byte) /\ UNCHANGED <<area, command>>

\* Neither the cursor nor the window is touched.
SSD1306_Fill ==
    /\ sending.what = "Fill"
    /\ WriteData(Blank)
    /\ Sent(Total)
    /\ UNCHANGED <<called, i2ccursor, restarts, tidy>>

SSD1306_font(c, i) == IF i = FontSize THEN Blank ELSE <<c, i>>

\* A column of a character, or the gap behind it.
WriteGlyph ==
    /\ sending.what = "char"
    /\ WriteData(SSD1306_font(sending.c, sending.i))
    /\ SSD1306_CursorPos' = SSD1306_CursorPos + 1
    /\ Sent(FontSize + 1)
    /\ UNCHANGED <<called, SSD1306_LineNum, restarts, tidy>>
-----------------------------------------------------------------------------
Become(from, to, string) ==
    /\ driver = from /\ sending = Nothing /\ at = Len(Calls) + 1
    /\ driver' = to /\ at' = 1 /\ text' = string
    /\ UNCHANGED <<i2ccursor, sending, panelvars, restarts>>

\* The two static variables of the cursor live on while the module does.
Bind == Become("unbound", "probe", Welcome) /\ UNCHANGED tidy
Bound == Become("probe", "bound", <<>>) /\ tidy' = FALSE
Unbind == Become("bound", "remove", Bye) /\ UNCHANGED tidy
Unbound == Become("remove", "unbound", <<>>) /\ tidy' = TRUE

\* The computer restarts, at any byte; nothing tells the panel.
Restart ==
    /\ restarts < MaxRestarts
    /\ restarts' = restarts + 1
    /\ driver # "unbound"
    /\ driver' = "unbound" /\ at' = 1 /\ text' = <<>>
    /\ SSD1306_LineNum' = 0 /\ SSD1306_CursorPos' = 0
    /\ sending' = Nothing
    /\ tidy' = FALSE
    /\ UNCHANGED panelvars

\* The scroll engine.
OledTick ==
    /\ oled.scroll # {}
    /\ oled' = Scrolled(oled)
    /\ UNCHANGED <<called, i2ccursor, sending, area, command, restarts, tidy>>

I2cNext ==
    \/ Bind \/ Bound \/ Unbind \/ Unbound
    \/ Call \/ WriteCommand \/ SSD1306_Fill \/ WriteGlyph
    \/ Restart \/ OledTick

I2cSpec == I2cInit /\ [][I2cNext]_i2cvars
-----------------------------------------------------------------------------
(* Properties. *)

\* Whatever a restart has cut off, the panel takes no byte of the next probe
\* but its first commands for something else: no data come in the middle of a
\* command, and at the end the display is on and scrolls, with its pointer at
\* the cursor.
InStep ==
    /\ sending.what \in {"Fill", "char"} => command = <<>>
    /\ driver = "bound" =>
           /\ oled.power = "on" /\ oled.scroll = 0 .. ScrollLines
           /\ SSD1306_CursorPos < MAX_SEG =>
                  oled.line = SSD1306_LineNum /\ oled.col = SSD1306_CursorPos

\* The probe blanks the display, which Fill can do only if the window is the
\* whole display and the pointer at its start: remove sees to that, but not a
\* restart, behind which old text may stay.
BlankBehindInit ==
    driver = "probe" /\ tidy /\ at = 3 /\ sending = Nothing
        => oled.ram = [x \in Cells |-> Blank]
=============================================================================
