----------------------------- MODULE DriverLoad -----------------------------
(***************************************************************************)
(* module_init and module_exit of the drivers that register themselves in  *)
(* steps, several of which may be loaded and unloaded at a time in one     *)
(* kernel: what each of them acquires, in which order, what it gives back  *)
(* when a step fails (its goto labels), and what it releases at the end.   *)
(*                                                                         *)
(* A resource is a string.  Those in Names are names or numbers of the     *)
(* whole kernel: hello and simple_timer both want the class "hello", the   *)
(* two GPIO drivers "example_gpio_class", simple_timer and globalmem the   *)
(* directory example_sysfs, gpio_irq and oled_spi the GPIO line 24.  The   *)
(* others are the driver's own.                                            *)
(***************************************************************************)
EXTENDS Integers, Sequences, FiniteSets, SequencesExt

CONSTANTS
    Drivers,    \* the drivers at hand
    MaxLoads,   \* bound: how often a driver is loaded
    MaxFaults,  \* bound: how many calls fail for reasons of their own
    MaxBusy     \* bound: how many drivers are being loaded or unloaded at a time

ASSUME DriverLoadAssumption == MaxLoads \in Nat /\ MaxFaults \in Nat /\ MaxBusy \in Nat

Names == {"class_hello", "class_example_gpio_class", "class_globalmem", "device_globalmem",
          "example_sysfs", "proc_example", "platform_device",
          "gpio_21", "gpio_23", "gpio_24", "major_230", "major_231", "major_232"}

\* GPIO lines are given back by number, whoever has requested them; all else
\* through a pointer or device number that is the driver's own (and NULL or
\* an error pointer, which is ignored, when the driver does not have it).
ByNumber == {"gpio_21", "gpio_23", "gpio_24"}

\* What goes away when a resource is removed: it, and what is a part of it.
PartOf == {<<"sysfs_value", "example_sysfs">>, <<"proc_file", "proc_example">>,
           <<"spi_setup", "spi_device">>}

Parts(r) ==
    {r} \cup {part \in {"sysfs_value", "proc_file", "spi_setup"} : <<part, r>> \in PartOf}

Classes == {"class_hello", "class_example_gpio_class", "class_globalmem"}
Numbers == {"region", "major_230", "major_231", "major_232"}

\* What must be there for a call to succeed, and as long as the resource is:
\* one of a set.
Needs == {<<"device", Classes>>, <<"device_globalmem", Classes>>,
          <<"cdev", Numbers>>,
          <<"mem_cdev", Numbers>>, <<"mem_cdev", {"mem"}>>,
          <<"sysfs_value", {"example_sysfs"}>>,
          <<"proc_file", {"proc_example"}>>,
          <<"export", {"gpio_21"}>>,
          <<"irq_24", {"gpio_24"}>>,
          <<"uio_dev", {"platform_device"}>>}

\* And what a handler uses as long as it may run: that of irq_11 schedules the
\* tasklet, that of irq_24 switches the LED.
Uses == Needs \cup {<<"irq_11", {"tasklet"}>>, <<"irq_24", {"gpio_21"}>>}

Standing(r, have, on) == \A need \in on : need[1] = r => need[2] \cap have # {}
-----------------------------------------------------------------------------
(* The programs.  A step of module_init acquires a resource; if it fails   *)
(* it releases undo and gives up (Need), or the driver goes on (Ignore),   *)
(* perhaps without the next steps (Without), or it follows the pointer     *)
(* that it did not get and dies (OrDie).  Put gives something back.        *)

Need(r, undo) == [get |-> r, fails |-> "undo", undo |-> undo, skip |-> 0]
Without(r, undo, skip) == [get |-> r, fails |-> "ignored", undo |-> undo, skip |-> skip]
Ignore(r) == Without(r, <<>>, 0)
OrDie(r) == [get |-> r, fails |-> "oops", undo |-> <<>>, skip |-> 0]
Do(r) == [get |-> r, fails |-> "never", undo |-> <<>>, skip |-> 0]
Put(r) == [get |-> r, fails |-> "put", undo |-> <<>>, skip |-> 0]

\* hello.c.
LoadHello ==
    <<Need("region", <<>>),
      Need("class_hello", <<"region">>),
      Need("device", <<"class_hello", "region">>)>>

UnloadHello == <<"device", "class_hello", "region">>

\* simple_timer.c: the timers are armed first, and by no label stopped.
LoadSimpleTimer ==
    <<Do("timer"), Do("hrtimer"),
      Ignore("example_sysfs"),
      Need("sysfs_value", <<"example_sysfs", "class_hello", "region">>),
      Need("region", <<>>),
      Need("class_hello", <<"region">>),
      Need("device", <<"class_hello", "region">>)>>

UnloadSimpleTimer ==
    <<"example_sysfs", "timer", "hrtimer", "device", "class_hello", "region">>

\* The labels r_unreg, r_del, r_class and r_device of both GPIO drivers.
RUnreg == <<"region">>
RDel == <<"cdev">> \o RUnreg
RClass == <<"class_example_gpio_class">> \o RDel
RDevice == <<"device">> \o RClass

LoadGpio ==
    <<Need("region", RUnreg),
      Need("cdev", RDel),
      Need("class_example_gpio_class", RClass),
      Need("device", RDevice)>>

\* gpio_is_valid holds of lines 21 and 24: they are constants within the range
\* that it tests, and no call fails there.

\* gpio_driver/example_gpio.c: r_gpio frees the line that was not got.
LoadGpioDriver ==
    LoadGpio \o <<Need("gpio_21", <<"gpio_21">> \o RDevice), Ignore("export")>>

UnloadGpioDriver == <<"export", "gpio_21">> \o RDevice

\* Mutant: class_create fails and jumps one label too far up.
LoadGpioIrq_WrongLabel ==
    [LoadGpio EXCEPT ![3] = Need("class_example_gpio_class", <<"gpio_21">> \o RDevice)]
        \o <<Need("gpio_21", <<"gpio_21">> \o RDevice),
             Need("gpio_24", <<"gpio_24", "gpio_21">> \o RDevice),
             Need("irq_24", <<"gpio_24", "gpio_21">> \o RDevice)>>

\* gpio_irq/example_gpio.c.
LoadGpioIrq ==
    LoadGpio
        \o <<Need("gpio_21", <<"gpio_21">> \o RDevice),
             Need("gpio_24", <<"gpio_24", "gpio_21">> \o RDevice),
             Need("irq_24", <<"gpio_24", "gpio_21">> \o RDevice)>>

\* Mutant: the lines are freed before the interrupt.
UnloadGpioIrq_LateIrq == <<"gpio_24", "irq_24", "gpio_21">> \o RDevice

UnloadGpioIrq == <<"irq_24", "gpio_24", "gpio_21">> \o RDevice

\* second.c, globalfifo.c and multi_globalmem.c register a fixed major
\* number, and only print that cdev_add has failed.
FixedMajor(major) ==
    <<Need(major, <<>>), Need("mem", <<major>>), Ignore("mem_cdev")>>

LoadSecond == FixedMajor("major_232")

\* Mutant: the fail_malloc label does not give the number back.
LoadGlobalfifo_KeepsMajor ==
    <<Need("major_231", <<>>), Need("mem", <<>>), Ignore("mem_cdev"), Do("locks")>>

LoadGlobalfifo == FixedMajor("major_231") \o <<Do("locks")>>
LoadMultiGlobalmem == FixedMajor("major_230")

UnloadSecond == <<"mem_cdev", "mem", "major_232">>
UnloadGlobalfifo == <<"mem_cdev", "locks", "mem", "major_231">>

\* Mutant: unregister_chrdev_region is forgotten.
UnloadMultiGlobalmem_KeepsMajor == <<"mem_cdev", "mem">>

UnloadMultiGlobalmem == <<"mem_cdev", "mem", "major_230">>

\* globalmem.c: the labels r_class, r_device, r_sysfs and irq.
GRClass == <<"region">>
GRDevice == <<"class_globalmem">> \o GRClass
GRSysfs == <<"example_sysfs">> \o GRDevice
GIrq == <<"irq_11">> \o GRSysfs

\* kthread_create and kthread_run return an error pointer when they fail, never
\* the NULL that is tested for: wake_up_process dies of it, and where kthread_run
\* does without, the load goes on.
LoadGlobalmem ==
    <<Need("mem", <<"region">>),
      Need("region", <<>>),
      Need("class_globalmem", GRClass),
      Need("device_globalmem", GRDevice),
      Need("proc_example", GRDevice), Ignore("proc_file"),
      Ignore("example_sysfs"), Need("sysfs_value", GRSysfs),
      OrDie("wait_thread"), OrDie("wait_thread2"),
      Need("irq_11", GIrq),
      OrDie("thread"), Ignore("thread2"),
      Need("tasklet", GIrq),
      Do("timer"), Do("hrtimer"), Ignore("mem_cdev")>>

UnloadGlobalmem ==
    <<"hrtimer", "timer", "tasklet", "thread", "thread2", "irq_11", "example_sysfs",
      "wait_thread", "wait_thread2", "proc_example", "device_globalmem", "class_globalmem",
      "mem_cdev", "mem", "region">>

\* oled_spi.c and ssd1306.c: the reference on the SPI master is never put; and
\* if a line cannot be had, ETX_SSD1306_DisplayInit gives up, but not its
\* caller, and DisplayDeInit frees both lines.
LoadOledSpi ==
    <<Need("spi_master", <<>>),
      Need("spi_device", <<>>),
      Need("spi_setup", <<"spi_device">>),
      Without("gpio_24", <<>>, 1), Without("gpio_23", <<"gpio_24">>, 0)>>

UnloadOledSpi == <<"gpio_24", "gpio_23", "spi_device">>

\* oled_i2c.c: i2c_new_client_device returns an error pointer when it fails,
\* never the NULL that is tested for.
LoadOledI2c ==
    <<Need("adapter", <<>>),
      Ignore("i2c_client"),
      Ignore("i2c_driver"),
      Put("adapter")>>

UnloadOledI2c == <<"i2c_client", "i2c_driver">>

\* example_uio.c: uio_probe runs within platform_driver_register, which does
\* not fail with it, and copies to what kmalloc returns without a test.  No
\* probe sets the driver data that uio_remove follows.
UioProbe ==
    <<Without("uio_dev", <<>>, 3), OrDie("uio_mem"),
      Without("uio", <<"uio_dev">>, 1), Ignore("uio_sysfs")>>

LoadUio ==
    <<Ignore("platform_device"), Need("platform_driver", <<>>)>> \o UioProbe

UnloadUio == <<"uio_remove", "platform_device", "platform_driver">>

InitOf == [hello |-> LoadHello, simple_timer |-> LoadSimpleTimer,
           gpio_driver |-> LoadGpioDriver, gpio_irq |-> LoadGpioIrq,
           second |-> LoadSecond, globalfifo |-> LoadGlobalfifo,
           multi_globalmem |-> LoadMultiGlobalmem, globalmem |-> LoadGlobalmem,
           oled_spi |-> LoadOledSpi, oled_i2c |-> LoadOledI2c, uio |-> LoadUio]

ExitOf == [hello |-> UnloadHello, simple_timer |-> UnloadSimpleTimer,
           gpio_driver |-> UnloadGpioDriver, gpio_irq |-> UnloadGpioIrq,
           second |-> UnloadSecond, globalfifo |-> UnloadGlobalfifo,
           multi_globalmem |-> UnloadMultiGlobalmem, globalmem |-> UnloadGlobalmem,
           oled_spi |-> UnloadOledSpi, oled_i2c |-> UnloadOledI2c, uio |-> UnloadUio]

ASSUME DriversAssumption == Drivers \subseteq DOMAIN InitOf
-----------------------------------------------------------------------------
VARIABLES
    phase,      \* of a driver: out, init, undo (behind a goto label), in, exit, dead
    todo,       \* the rest of the program that it is in
    held,       \* the resources that it holds
    leaked,     \* what it held when its code was gone
    loads,      \* how often a driver has been loaded
    faults      \* how many calls have failed for reasons of their own

vars == <<phase, todo, held, leaked, loads, faults>>

Held(d) == held[d] \cup leaked[d]

Init ==
    /\ phase = [d \in Drivers |-> "out"]
    /\ todo = [d \in Drivers |-> <<>>]
    /\ held = [d \in Drivers |-> {}]
    /\ leaked = [d \in Drivers |-> {}]
    /\ loads = 0 /\ faults = 0

\* A driver turns to another program.
Turn(d, to, program) ==
    /\ phase' = [phase EXCEPT ![d] = to]
    /\ todo' = [todo EXCEPT ![d] = program]

Advance(d) == todo' = [todo EXCEPT ![d] = Tail(@)]
-----------------------------------------------------------------------------
\* An insmod or rmmod may begin.
Room == Cardinality({d \in Drivers : phase[d] \in {"init", "undo", "exit"}}) < MaxBusy

Insmod(d) ==
    /\ phase[d] = "out"
    /\ loads < MaxLoads /\ Room
    /\ loads' = loads + 1
    /\ Turn(d, "init", InitOf[d])
    /\ UNCHANGED <<held, leaked, faults>>

\* A call cannot succeed if the name is taken or its parent is NULL; a platform
\* driver finds its device by name, also one that an earlier load has left.
Possible(d, r) ==
    /\ r \in Names => \A e \in Drivers : r \notin Held(e)
    /\ Standing(r, held[d] \cup (leaked[d] \cap {"platform_device"}), Needs)

Succeed(d) ==
    /\ phase[d] = "init"
    /\ todo[d] # <<>> /\ Head(todo[d]).fails # "put"
    /\ Possible(d, Head(todo[d]).get)
    /\ held' = [held EXCEPT ![d] = @ \cup {Head(todo[d]).get}]
    /\ Advance(d)
    /\ UNCHANGED <<phase, leaked, loads, faults>>

\* What is held when d has released the resources gone.
Released(d, gone) ==
    [e \in Drivers |-> IF e = d \/ gone \subseteq ByNumber THEN held[e] \ gone ELSE held[e]]

Fail(d) ==
    /\ phase[d] = "init"
    /\ todo[d] # <<>>
    /\ LET step == Head(todo[d]) IN
       /\ IF Possible(d, step.get) THEN faults < MaxFaults /\ faults' = faults + 1
                                   ELSE UNCHANGED faults
       /\ \/ step.fails = "undo" /\ Turn(d, "undo", step.undo) /\ UNCHANGED held
          \/ step.fails = "oops" /\ Turn(d, "dead", <<>>) /\ UNCHANGED held
          \/ /\ step.fails = "ignored"
             /\ held' = [held EXCEPT ![d] = @ \ ToSet(step.undo)]
             /\ todo' = [todo EXCEPT ![d] = SubSeq(@, 2 + step.skip, Len(@))]
             /\ UNCHANGED phase
    /\ UNCHANGED <<leaked, loads>>

PutBack(d) ==
    /\ phase[d] = "init"
    /\ todo[d] # <<>> /\ Head(todo[d]).fails = "put"
    /\ held' = [held EXCEPT ![d] = @ \ {Head(todo[d]).get}]
    /\ Advance(d)
    /\ UNCHANGED <<phase, leaked, loads, faults>>

\* uio_remove dereferences the driver data, which is NULL, of a device that
\* uio_probe has accepted; kthread_stop the error pointer of kthread_run.
Oopses(d) ==
    /\ todo[d] # <<>>
    /\ \/ Head(todo[d]) = "uio_remove" /\ "uio" \in held[d]
       \/ Head(todo[d]) = "thread2" /\ "thread2" \notin held[d]

\* rmmod dies; the module stays for ever.
Oops(d) ==
    /\ phase[d] = "exit" /\ Oopses(d)
    /\ Turn(d, "dead", <<>>)
    /\ UNCHANGED <<held, leaked, loads, faults>>

\* del_timer does not wait for the callback, which arms the timer again, and the
\* two waiting threads are told to end, but not waited for, and may miss it
\* (GlobalmemWaiters).
MayStay(d) ==
    IF d = "simple_timer" THEN {"timer"}
    ELSE IF d = "globalmem" THEN {"timer", "wait_thread", "wait_thread2"}
    ELSE {}

\* Behind the labels and in module_exit.
Release(d) ==
    /\ phase[d] \in {"undo", "exit"}
    /\ todo[d] # <<>> /\ ~Oopses(d)
    /\ \E stays \in SUBSET (Parts(Head(todo[d])) \cap MayStay(d)) :
          held' = Released(d, Parts(Head(todo[d])) \ stays)
    /\ Advance(d)
    /\ UNCHANGED <<phase, leaked, loads, faults>>

\* module_init returns 0.
Loaded(d) ==
    /\ phase[d] = "init"
    /\ todo[d] = <<>>
    /\ Turn(d, "in", <<>>)
    /\ UNCHANGED <<held, leaked, loads, faults>>

Rmmod(d) ==
    /\ phase[d] = "in" /\ Room
    /\ Turn(d, "exit", ExitOf[d])
    /\ UNCHANGED <<held, leaked, loads, faults>>

\* module_init returns an error, or module_exit returns: the code and data
\* of the driver are gone, and what it still held is out of reach.
Unloaded(d) ==
    /\ phase[d] \in {"undo", "exit"}
    /\ todo[d] = <<>>
    /\ Turn(d, "out", <<>>)
    /\ leaked' = [leaked EXCEPT ![d] = @ \cup held[d]]
    /\ held' = [held EXCEPT ![d] = {}]
    /\ UNCHANGED <<loads, faults>>

Next ==
    \E d \in Drivers :
        \/ Insmod(d) \/ Succeed(d) \/ Fail(d) \/ PutBack(d) \/ Release(d) \/ Oops(d)
        \/ Loaded(d) \/ Rmmod(d) \/ Unloaded(d)

Spec == Init /\ [][Next]_vars
-----------------------------------------------------------------------------
(* Properties. *)

\* What may be lost for good: by a load that fails, for the labels of simple_timer
\* stop no timer and those of globalmem no thread and remove no device; by one
\* that does not; and by unloading.
Forgotten(d) ==
    IF d = "simple_timer" THEN {"timer", "hrtimer", "example_sysfs", "sysfs_value"}
    ELSE IF d = "globalmem"
         THEN {"mem", "device_globalmem", "proc_example", "proc_file", "timer",
               "wait_thread", "wait_thread2", "thread", "thread2"}
    ELSE IF d = "oled_spi" THEN {"spi_master"}
    ELSE IF d = "uio" THEN {"platform_device", "uio_mem"}
    ELSE {}

\* Nothing else is lost when module_init returns an error or module_exit returns,
\* whichever call fails and whichever drivers are loaded: a goto label, or an
\* early return, releases what the driver has by then but for the exceptions
\* above.  (Where the driver dies of an error pointer nothing is released.)
FailedLoadLeaksNothing == \A d \in Drivers : leaked[d] \subseteq Forgotten(d)

\* A driver whose module_init returned 0 leaves nothing behind when module_exit
\* returns, also if calls whose failure it ignored had failed; but for a timer
\* or waiting thread that is still on its way, the reference on the SPI master,
\* and the memory of a uio_probe that failed.
UnloadReleasesAll ==
    \A d \in Drivers : phase[d] = "exit" /\ todo[d] = <<>> =>
        held[d] \subseteq {"spi_master", "uio_mem"} \cup MayStay(d)

\* Where globalmem_exit does pull: it kills and frees the tasklet before
\* free_irq, while irq_handler may still schedule it.
TaskletGoesFirst(d, r) == r = "irq_11" /\ Head(todo[d]) = "tasklet"

\* No other step of an unloading driver, or behind its labels, pulls away what
\* something of the driver's own stands on: no device loses its class, no
\* character device its number or memory, no interrupt its line.  (The labels
\* of globalmem do not remove the device.)
UsersFirst ==
    [][\A d \in Drivers :
           /\ phase[d] \in {"undo", "exit"} /\ Len(todo'[d]) < Len(todo[d])
           /\ ~(phase[d] = "undo" /\ d = "globalmem")
           => \A r \in held'[d] :
                  \/ TaskletGoesFirst(d, r)
                  \/ Standing(r, held[d], Uses) => Standing(r, held'[d], Uses)]_vars

\* Drivers that want the same names do not take them from one another: one
\* that is loaded or loading loses nothing to another's labels or unloading,
\* except the line 24, which gpio_irq and oled_spi free also when it is the
\* other's.
SparesOthers ==
    [][\A d \in Drivers : phase[d] \in {"init", "in"} /\ Len(todo'[d]) = Len(todo[d]) =>
           held[d] \ held'[d] \subseteq {"gpio_24"}]_vars
=============================================================================
