------------------------------ MODULE OledSpi ------------------------------
(***************************************************************************)
(* src/oled_spi/oled_spi.c: the SPI driver of the display.  module_init    *)
(* shows a text that scrolls, for nine seconds, and then the logo;         *)
(* module_exit clears the display.  Meanwhile the panel's scroll engine    *)
(* moves the RAM on, also while the driver writes to it.                   *)
(*                                                                         *)
(* The lines RST and DC can be had here, and the SPI core takes every      *)
(* byte: what module_init does when they cannot is in DriverLoad.          *)
(***************************************************************************)
EXTENDS Ssd1306, Sequences

CONSTANT Texts      \* what is printed: [line, col, text] in a row

ASSUME OledSpiAssumption ==
    Texts \in Seq([line : Lines, col : Segs, text : Seq(Chars \cup {Newline})])

VARIABLES
    phase,      \* of the module: out, init, in, exit
    script      \* the calls that it has yet to make

allvars == <<vars, phase, script>>

ShowText ==
    [n \in 1 .. 2 * Len(Texts) |->
        IF n % 2 = 1 THEN <<"SetCursor", Texts[(n + 1) \div 2].line, Texts[(n + 1) \div 2].col>>
                     ELSE <<"String", Texts[n \div 2].text>>]

\* Mutant: the logo is painted while the display still scrolls.
EtxSpiInit_LateDeactivate ==
    <<<<"DisplayInit">>, <<"SetBrightness">>, <<"InvertDisplay">>, <<"StartScroll", 0, ScrollLines>>>>
        \o ShowText \o <<<<"ClearDisplay">>, <<"PrintLogo">>, <<"DeactivateScroll">>>>

EtxSpiInit ==
    <<<<"DisplayInit">>, <<"SetBrightness">>, <<"InvertDisplay">>, <<"StartScroll", 0, ScrollLines>>>>
        \o ShowText \o <<<<"ClearDisplay">>, <<"DeactivateScroll">>, <<"PrintLogo">>>>

EtxSpiExit == <<<<"ClearDisplay">>, <<"DisplayDeInit">>>>

Do(call) ==
    \/ call[1] = "DisplayInit" /\ DisplayInit
    \/ call[1] = "SetBrightness" /\ SetBrightness
    \/ call[1] = "InvertDisplay" /\ InvertDisplay
    \/ call[1] = "StartScroll" /\ StartScrollHorizontal(call[2], call[3])
    \/ call[1] = "SetCursor" /\ SetCursor(call[2], call[3])
    \/ call[1] = "ClearDisplay" /\ ClearDisplay
    \/ call[1] = "DeactivateScroll" /\ DeactivateScroll
    \/ call[1] = "PrintLogo" /\ PrintLogo
    \/ call[1] = "DisplayDeInit" /\ DisplayDeInit
-----------------------------------------------------------------------------
SpiInit == Init /\ phase = "out" /\ script = <<>>

Turn(from, to, calls) ==
    /\ phase = from /\ script = <<>> /\ job = Idle
    /\ phase' = to /\ script' = calls
    /\ UNCHANGED vars

Insmod == Turn("out", "init", EtxSpiInit)
Loaded == Turn("init", "in", <<>>)
Rmmod == Turn("in", "exit", EtxSpiExit)
Unloaded == Turn("exit", "out", <<>>)

MakeCall ==
    /\ script # <<>>
    /\ Do(Head(script))
    /\ script' = Tail(script)
    /\ UNCHANGED phase

\* ETX_SSD1306_String: a call of ETX_SSD1306_PrintChar for each character.
String ==
    /\ script # <<>> /\ Head(script)[1] = "String"
    /\ LET text == Head(script)[2] IN
       IF text = <<>>
       THEN job = Idle /\ script' = Tail(script) /\ UNCHANGED vars
       ELSE /\ IF Head(text) = Newline THEN PrintNewline ELSE PrintChar(Head(text))
            /\ script' = [script EXCEPT ![1] = <<"String", Tail(text)>>]
    /\ UNCHANGED phase

WriteByte == Write /\ UNCHANGED <<phase, script>>

\* The scroll engine, whenever it likes.
Tick ==
    /\ panel.scroll # {}
    /\ panel' = Scrolled(panel)
    /\ UNCHANGED <<cursor, job, display, phase, script>>

SpiNext == Insmod \/ Loaded \/ Rmmod \/ Unloaded \/ MakeCall \/ String \/ WriteByte \/ Tick

SpiSpec == SpiInit /\ [][SpiNext]_allvars
-----------------------------------------------------------------------------
\* Behind module_init the display shows the logo, all of it and unmoved, and
\* goes on showing it, although the text has scrolled while it was printed and
\* cleared; behind module_exit it is blank.
PictureShown ==
    /\ phase = "in" => panel.ram = [x \in Cells |-> Logo(x)]
    /\ phase = "out" => \E any \in {Blank, Noise} : panel.ram = [x \in Cells |-> any]
=============================================================================
