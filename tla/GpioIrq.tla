------------------------------ MODULE GpioIrq ------------------------------
(***************************************************************************)
(* src/gpio_irq/example_gpio.c: a button on GPIO 24 whose interrupts turn  *)
(* the LED on GPIO 21 over, debounced by the time since the last interrupt *)
(* that counted; and writes to the device, which set the LED directly, on  *)
(* another CPU and without a lock.                                         *)
(***************************************************************************)
EXTENDS Integers

CONSTANTS
    ULongSize,      \* how many values jiffies, an unsigned long, has
    Debounce        \* 20 jiffies

ASSUME GpioAssumption == ULongSize \in Nat /\ Debounce \in 1 .. ULongSize - 1

VARIABLES
    jiffies,
    old_jiffie,
    led_toggle,
    gpio21,         \* the value of the line
    handler,        \* where gpio_irq_handler is, or "out"
    since           \* the jiffies since an interrupt counted, up to ULongSize

gpiovars == <<jiffies, old_jiffie, led_toggle, gpio21, handler, since>>

GpioTypeOK ==
    /\ jiffies \in 0 .. ULongSize - 1 /\ old_jiffie \in 0 .. ULongSize - 1
    /\ led_toggle \in {0, 1} /\ gpio21 \in {0, 1}
    /\ handler \in {"out", "accept", "toggle", "set"}
    /\ since \in 0 .. ULongSize

\* The module is loaded at any time; jiffies starts five minutes before it
\* wraps.
GpioInit ==
    /\ jiffies \in 0 .. ULongSize - 1
    /\ old_jiffie = 0 /\ since = ULongSize
    /\ led_toggle = 0 /\ gpio21 = 0
    /\ handler = "out"

JiffiesTick ==
    /\ jiffies' = IF jiffies = ULongSize - 1 THEN 0 ELSE jiffies + 1
    /\ since' = IF since < ULongSize THEN since + 1 ELSE since
    /\ UNCHANGED <<old_jiffie, led_toggle, gpio21, handler>>

\* jiffies - old_jiffie, unsigned.
Diff == IF jiffies >= old_jiffie THEN jiffies - old_jiffie
                                 ELSE jiffies - old_jiffie + ULongSize

\* A rising edge.  One that is too early is forgotten.
GpioIrqHandler ==
    /\ handler = "out"
    /\ Diff >= Debounce
    /\ handler' = "accept"
    /\ UNCHANGED <<jiffies, old_jiffie, led_toggle, gpio21, since>>

\* Mutant: the time is taken before the test only.
GpioAccept_KeepsTime ==
    /\ handler = "accept"
    /\ since' = 0
    /\ handler' = "toggle"
    /\ UNCHANGED <<jiffies, old_jiffie, led_toggle, gpio21>>

\* jiffies is read a second time.
GpioAccept ==
    /\ handler = "accept"
    /\ old_jiffie' = jiffies /\ since' = 0
    /\ handler' = "toggle"
    /\ UNCHANGED <<jiffies, led_toggle, gpio21>>

GpioToggle ==
    /\ handler = "toggle"
    /\ led_toggle' = 1 - led_toggle
    /\ handler' = "set"
    /\ UNCHANGED <<jiffies, old_jiffie, gpio21, since>>

GpioSetValue ==
    /\ handler = "set"
    /\ gpio21' = led_toggle
    /\ handler' = "out"
    /\ UNCHANGED <<jiffies, old_jiffie, led_toggle, since>>

\* example_gpio_write, which leaves led_toggle alone: the next interrupt turns
\* over the handler's copy, not what was written.
GpioWrite(value) ==
    /\ gpio21' = value
    /\ UNCHANGED <<jiffies, old_jiffie, led_toggle, handler, since>>

GpioNext ==
    \/ JiffiesTick
    \/ GpioIrqHandler \/ GpioAccept \/ GpioToggle \/ GpioSetValue
    \/ \E value \in {0, 1} : GpioWrite(value)

GpioSpec == GpioInit /\ [][GpioNext]_gpiovars
-----------------------------------------------------------------------------
\* An interrupt counts only if the last one that did is Debounce jiffies ago,
\* also across the wrap of jiffies, which may tick within the handler.
Debounced == [][handler = "out" /\ handler' = "accept" => since >= Debounce]_gpiovars
=============================================================================
