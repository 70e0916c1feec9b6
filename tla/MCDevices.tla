------------------------------ MODULE MCDevices ------------------------------
(***************************************************************************)
(* Instances of the small drivers for TLC, all in one run: a computer with *)
(* one of them, which device names.  They share no state (what they do     *)
(* share when they are loaded together is in DriverLoad).  "ssd1306" is    *)
(* ssd1306.c under whatever calls, "oled_spi" under those of oled_spi.c.   *)
(***************************************************************************)
EXTENDS OledSpi, OledI2c, GpioIrq, Second, GlobalmemProc

\* Texts that wrap where a line is full, from the last line into the first,
\* which scrolls, and newlines.
MCTexts ==
    <<[line |-> 0, col |-> 0, text |-> <<"a", Newline, "b", "a", "b">>],
      [line |-> 1, col |-> 1, text |-> <<"b", "a", Newline>>]>>
MCWelcome == <<"a", "b", Newline>>
\* Ends with the window on the last line, behind text in both.
MCBye == <<"b", "a", "b", Newline>>

VARIABLE device

mcvars == <<device, allvars, i2cvars, gpiovars, secondvars, procvars>>

Devices == {"ssd1306", "oled_spi", "oled_i2c", "gpio_irq", "second", "proc"}

MCInit ==
    /\ device \in Devices
    /\ IF device = "ssd1306" THEN Init /\ phase = "caller" /\ script = <<>> ELSE SpiInit
    /\ I2cInit /\ SecondInit /\ ProcInit
    /\ GpioInit /\ (device # "gpio_irq" => jiffies = 0)

MCDisplay ==
    /\ device = "ssd1306" /\ Next
    /\ UNCHANGED <<device, phase, script, i2cvars, gpiovars, secondvars, procvars>>
MCSpi ==
    /\ device = "oled_spi" /\ SpiNext
    /\ UNCHANGED <<device, i2cvars, gpiovars, secondvars, procvars>>
MCI2c ==
    /\ device = "oled_i2c" /\ I2cNext
    /\ UNCHANGED <<device, allvars, gpiovars, secondvars, procvars>>
MCGpio ==
    /\ device = "gpio_irq" /\ GpioNext
    /\ UNCHANGED <<device, allvars, i2cvars, secondvars, procvars>>
MCSecond ==
    /\ device = "second" /\ SecondNext
    /\ UNCHANGED <<device, allvars, i2cvars, gpiovars, procvars>>
MCProc ==
    /\ device = "proc" /\ ProcNext
    /\ UNCHANGED <<device, allvars, i2cvars, gpiovars, secondvars>>

MCNext == MCDisplay \/ MCSpi \/ MCI2c \/ MCGpio \/ MCSecond \/ MCProc

MCSpec == MCInit /\ [][MCNext]_mcvars
=============================================================================
