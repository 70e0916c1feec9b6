--------------------------- MODULE Devices_proofs ---------------------------
(***************************************************************************)
(* Proofs about the small drivers: the debounced button of GpioIrq, the    *)
(* shared timer of Second, the shared flag of GlobalmemProc; and about the *)
(* loading and unloading of all drivers, DriverLoad.                       *)
(***************************************************************************)
EXTENDS DriverLoad, GpioIrq, Second, GlobalmemProc, SequenceTheorems, TLAPS

-----------------------------------------------------------------------------
(* GpioIrq. *)

\* What jiffies and old_jiffie say, modulo the wrap, is the time that has passed.
GpioInv ==
    /\ GpioTypeOK
    /\ since < ULongSize => Diff = since

LEMMA GpioInitInv == GpioInit => GpioInv
BY GpioAssumption, SMT DEF GpioInit, GpioInv, GpioTypeOK, Diff

\* The unsigned difference grows with jiffies, also across its wrap.
LEMMA TickInv ==
    ASSUME GpioInv, JiffiesTick
    PROVE  GpioInv'
<1>1. GpioTypeOK'
  BY GpioAssumption, SMT DEF GpioInv, GpioTypeOK, JiffiesTick
<1>2. (since < ULongSize => Diff = since)'
  <2>. SUFFICES ASSUME since' < ULongSize
                PROVE  Diff' = since'
    OBVIOUS
  <2>1. since < ULongSize /\ since' = since + 1
    BY GpioAssumption, SMT DEF GpioInv, GpioTypeOK, JiffiesTick
  <2>. QED BY <2>1, GpioAssumption, SMT DEF GpioInv, GpioTypeOK, JiffiesTick, Diff
<1>. QED BY <1>1, <1>2, Zenon DEF GpioInv

LEMMA GpioNextInv ==
    ASSUME GpioInv, [GpioNext]_gpiovars
    PROVE  GpioInv'
<1>1. CASE JiffiesTick
  BY <1>1, TickInv
<1>2. CASE GpioIrqHandler
  BY <1>2, SMT DEF GpioInv, GpioTypeOK, Diff, GpioIrqHandler
<1>3. CASE GpioAccept
  BY <1>3, GpioAssumption, SMT DEF GpioInv, GpioTypeOK, Diff, GpioAccept
<1>4. CASE GpioToggle
  BY <1>4, SMT DEF GpioInv, GpioTypeOK, Diff, GpioToggle
<1>5. CASE GpioSetValue
  BY <1>5 DEF GpioInv, GpioTypeOK, Diff, GpioSetValue
<1>6. ASSUME NEW value \in {0, 1}, GpioWrite(value)
      PROVE  GpioInv'
  BY <1>6 DEF GpioInv, GpioTypeOK, Diff, GpioWrite
<1>7. CASE UNCHANGED gpiovars
  BY <1>7 DEF gpiovars, GpioInv, GpioTypeOK, Diff
<1>. QED BY <1>1, <1>2, <1>3, <1>4, <1>5, <1>6, <1>7 DEF GpioNext

THEOREM GpioInvariant == GpioSpec => []GpioInv
<1>1. GpioInv /\ [GpioNext]_gpiovars => GpioInv'
  BY GpioNextInv
<1>. QED BY GpioInitInv, <1>1, PTL DEF GpioSpec

\* gpio_irq_handler lets an interrupt through only when Debounce jiffies have
\* passed since the last one that counted, whatever the wrap of jiffies.
THEOREM ButtonIsDebounced == GpioSpec => Debounced
<1>1. GpioInv /\ [GpioNext]_gpiovars
        => [handler = "out" /\ handler' = "accept" => since >= Debounce]_gpiovars
  <2>. SUFFICES ASSUME GpioInv, GpioNext, handler = "out", handler' = "accept"
                PROVE  since >= Debounce
    OBVIOUS
  <2>1. Diff >= Debounce
    BY DEF GpioNext, JiffiesTick, GpioIrqHandler, GpioAccept, GpioToggle, GpioSetValue,
       GpioWrite
  <2>. QED BY <2>1, GpioAssumption, SMT DEF GpioInv, GpioTypeOK
<1>. QED BY GpioInvariant, <1>1, PTL DEF GpioSpec, Debounced

-----------------------------------------------------------------------------
(* Second. *)

\* Nobody has the device open when the module goes.
SecondInv ==
    /\ ArmedWhileOpen
    /\ second # "loaded" => users = {}
    /\ freed => second = "gone"

LEMMA SecondNextInv ==
    ASSUME SecondInv, [SecondNext]_secondvars
    PROVE  SecondInv'
<1>. USE DEF SecondInv, ArmedWhileOpen
<1>1. ASSUME NEW t \in SecondTasks, SecondOpen(t)
      PROVE  SecondInv'
  <2>1. users' # {} /\ s_timer' /\ second' = "loaded"
    BY <1>1 DEF SecondOpen
  <2>2. ~freed'
    BY <1>1, Zenon DEF SecondOpen
  <2>. QED BY <2>1, <2>2
<1>2. ASSUME NEW t \in SecondTasks, SecondRelease(t)
      PROVE  SecondInv'
  <2>1. users' # {} => robbed'
    BY <1>2 DEF SecondRelease
  <2>2. ~raced' => ~s_timer' /\ callback' = "out"
    BY <1>2 DEF SecondRelease
  <2>3. second = "loaded" /\ second' = "loaded" /\ ~freed'
    BY <1>2, Zenon DEF SecondRelease
  <2>. QED BY <2>1, <2>2, <2>3
<1>3. CASE SecondFire
  BY <1>3 DEF SecondFire
<1>4. CASE SecondRearm
  BY <1>4 DEF SecondRearm
<1>5. CASE SecondInc
  BY <1>5 DEF SecondInc
<1>6. CASE SecondExit
  BY <1>6 DEF SecondExit
<1>7. CASE SecondFree
  <2>1. users = {} /\ users' = {} /\ second' = "gone"
    BY <1>7 DEF SecondFree
  <2>2. ~raced' /\ ~corrupt' => ~s_timer' /\ callback' = "out" /\ ~freed'
    BY <1>7, <2>1, Zenon DEF SecondFree
  <2>. QED BY <2>1, <2>2
<1>8. CASE UNCHANGED secondvars
  BY <1>8 DEF secondvars
<1>. QED BY <1>1, <1>2, <1>3, <1>4, <1>5, <1>6, <1>7, <1>8 DEF SecondNext

\* The timer of second.c is on the kernel's list, or about to be, while
\* somebody has the device open, and not otherwise, but for the two races; and
\* rmmod frees it in use only behind the second of them.
THEOREM TimerArmedWhileOpen == SecondSpec => []ArmedWhileOpen
<1>1. SecondInit => SecondInv
  BY DEF SecondInit, SecondInv, ArmedWhileOpen
<1>2. SecondInv /\ [SecondNext]_secondvars => SecondInv'
  BY SecondNextInv
<1>3. SecondInv => ArmedWhileOpen
  BY DEF SecondInv
<1>. QED BY <1>1, <1>2, <1>3, PTL DEF SecondSpec
-----------------------------------------------------------------------------
(* GlobalmemProc. *)

\* How often a reader has got the array, and the flag, at each point.
ReaderOK(r) ==
    CASE reader[r] = "open" -> got[r] = 1 - globalmem_proc_len
      [] reader[r] = "zero" -> got[r] = 0 /\ globalmem_proc_len = 1
      [] reader[r] = "copy" -> got[r] = 0 /\ globalmem_proc_len = 0
      [] reader[r] = "one"  -> got[r] = 1 /\ globalmem_proc_len = 0
      [] reader[r] = "end"  -> got[r] = 1 /\ globalmem_proc_len = 1
      [] OTHER              -> TRUE

\* Readers that come one at a time, the flag set between them.
Orderly ==
    /\ \A r \in ProcReaders : ReaderOK(r)
    /\ \A q, r \in ProcReaders : reader[q] # "closed" /\ reader[r] # "closed" => q = r
    /\ (\A r \in ProcReaders : reader[r] = "closed") => globalmem_proc_len = 1

ProcInv == ProcTypeOK /\ (orderly => Orderly)

\* The types are kept.
LEMMA ProcTypeNext == ProcTypeOK /\ [ProcNext]_procvars => ProcTypeOK'
<1>. SUFFICES ASSUME ProcTypeOK, [ProcNext]_procvars
              PROVE  ProcTypeOK'
  OBVIOUS
<1>. USE ProcAssumption
<1>1. orderly' \in BOOLEAN
  <2>1. ASSUME NEW r \in ProcReaders, OpenProc(r)
        PROVE  orderly' \in BOOLEAN
    BY <2>1, Zenon DEF OpenProc
  <2>2. ASSUME NEW r \in ProcReaders, ReleaseProc(r)
        PROVE  orderly' \in BOOLEAN
    BY <2>2, Zenon DEF ReleaseProc
  <2>3. ASSUME NEW r \in ProcReaders, ReadProc(r) \/ ProcZero(r) \/ ProcCopy(r) \/ ProcOne(r)
        PROVE  orderly' \in BOOLEAN
    <3>1. orderly' = orderly
      BY <2>3, Zenon DEF ReadProc, ProcZero, ProcCopy, ProcOne
    <3>. QED BY <3>1, Zenon DEF ProcTypeOK
  <2>4. CASE UNCHANGED procvars
    BY <2>4, Zenon DEF procvars, ProcTypeOK
  <2>. QED BY <2>1, <2>2, <2>3, <2>4, Zenon DEF ProcNext
<1>2. globalmem_proc_len' \in {0, 1}
  BY DEF ProcTypeOK, ProcNext, procvars, OpenProc, ReadProc, ProcZero, ProcCopy, ProcOne,
     ReleaseProc
<1>3. reader' \in [ProcReaders -> {"closed", "open", "zero", "copy", "one", "end"}]
  BY DEF ProcTypeOK, ProcNext, procvars, OpenProc, ReadProc, ProcZero, ProcCopy, ProcOne,
     ReleaseProc, ReaderTo
<1>4. /\ got' \in [ProcReaders -> 0 .. MaxGot]
      /\ \A r \in ProcReaders : reader'[r] \in {"zero", "copy"} => got'[r] < MaxGot
  <2>1. ASSUME NEW r \in ProcReaders, OpenProc(r)
        PROVE  /\ got' \in [ProcReaders -> 0 .. MaxGot]
               /\ \A q \in ProcReaders : reader'[q] \in {"zero", "copy"} => got'[q] < MaxGot
    BY <2>1 DEF ProcTypeOK, OpenProc, ReaderTo
  <2>2. ASSUME NEW r \in ProcReaders, ProcCopy(r)
        PROVE  /\ got' \in [ProcReaders -> 0 .. MaxGot]
               /\ \A q \in ProcReaders : reader'[q] \in {"zero", "copy"} => got'[q] < MaxGot
    BY <2>2 DEF ProcTypeOK, ProcCopy, ReaderTo
  <2>3. ASSUME NEW r \in ProcReaders, ReadProc(r) \/ ProcZero(r) \/ ProcOne(r) \/ ReleaseProc(r)
        PROVE  /\ got' \in [ProcReaders -> 0 .. MaxGot]
               /\ \A q \in ProcReaders : reader'[q] \in {"zero", "copy"} => got'[q] < MaxGot
    BY <2>3 DEF ProcTypeOK, ReadProc, ProcZero, ProcOne, ReleaseProc, ReaderTo
  <2>4. CASE UNCHANGED procvars
    BY <2>4 DEF procvars, ProcTypeOK
  <2>. QED BY <2>1, <2>2, <2>3, <2>4 DEF ProcNext
<1>. QED BY <1>1, <1>2, <1>3, <1>4, Zenon DEF ProcTypeOK

\* A step of the only reader there is keeps the order.
LEMMA ProcOrderNext ==
    ASSUME ProcInv, [ProcNext]_procvars, orderly'
    PROVE  Orderly'
<1>. USE DEF ProcTypeOK
<1>1. orderly
  BY Zenon DEF ProcNext, procvars, OpenProc, ReadProc, ProcZero, ProcCopy, ProcOne, ReleaseProc
<1>2. Orderly /\ ProcTypeOK
  BY <1>1, Zenon DEF ProcInv
<1>3. ASSUME NEW r \in ProcReaders, OpenProc(r)
      PROVE  Orderly'
  <2>1. \A q \in ProcReaders : reader[q] = "closed"
    BY <1>3, Zenon DEF OpenProc
  <2>2. globalmem_proc_len = 1
    BY <1>2, <2>1 DEF Orderly
  <2>3. \A q \in ProcReaders : reader'[q] = IF q = r THEN "open" ELSE "closed"
    BY <1>2, <1>3, <2>1 DEF OpenProc, ReaderTo
  <2>4. got'[r] = 0 /\ globalmem_proc_len' = 1
    BY <1>2, <1>3, <2>2 DEF OpenProc
  <2>. QED BY <2>3, <2>4 DEF Orderly, ReaderOK
<1>4. ASSUME NEW r \in ProcReaders, reader[r] # "closed",
             ReadProc(r) \/ ProcZero(r) \/ ProcCopy(r) \/ ProcOne(r) \/ ReleaseProc(r)
      PROVE  Orderly'
  <2>1. \A q \in ProcReaders : q # r => reader[q] = "closed"
    BY <1>2, <1>4 DEF Orderly
  <2>2. \A q \in ProcReaders : q # r => reader'[q] = "closed"
    BY <1>2, <1>4, <2>1 DEF ReadProc, ProcZero, ProcCopy, ProcOne, ReleaseProc, ReaderTo
  <2>3. ReaderOK(r) /\ globalmem_proc_len \in {0, 1} /\ got[r] \in 0 .. MaxGot
    BY <1>2 DEF Orderly
  <2>4. ReaderOK(r)' /\ (reader'[r] = "closed" => globalmem_proc_len' = 1)
    <3>1. CASE ReadProc(r)
      BY <1>2, <3>1, <2>3, ProcAssumption DEF ReadProc, ReaderTo, ReaderOK
    <3>2. CASE ProcZero(r)
      BY <1>2, <3>2, <2>3 DEF ProcZero, ReaderTo, ReaderOK
    <3>3. CASE ProcCopy(r)
      BY <1>2, <3>3, <2>3 DEF ProcCopy, ReaderTo, ReaderOK
    <3>4. CASE ProcOne(r)
      BY <1>2, <3>4, <2>3 DEF ProcOne, ReaderTo, ReaderOK
    <3>5. CASE ReleaseProc(r)
      <4>1. reader[r] = "open" => got[r] = 0
        BY <3>5, Zenon DEF ReleaseProc
      <4>. QED BY <1>2, <3>5, <2>3, <4>1 DEF ReleaseProc, ReaderTo, ReaderOK
    <3>. QED BY <1>4, <3>1, <3>2, <3>3, <3>4, <3>5
  <2>. QED BY <2>2, <2>4 DEF Orderly, ReaderOK
<1>5. CASE UNCHANGED procvars
  BY <1>2, <1>5 DEF procvars, Orderly, ReaderOK
<1>6. \A r \in ProcReaders :
         ReadProc(r) \/ ProcZero(r) \/ ProcCopy(r) \/ ProcOne(r) \/ ReleaseProc(r) => reader[r] # "closed"
  BY DEF ReadProc, ProcZero, ProcCopy, ProcOne, ReleaseProc
<1>. QED BY <1>3, <1>4, <1>5, <1>6 DEF ProcNext

THEOREM ProcInvariant == ProcSpec => []ProcInv
<1>1. ProcInit => ProcInv
  BY ProcAssumption DEF ProcInit, ProcInv, ProcTypeOK, Orderly, ReaderOK
<1>2. ProcInv /\ [ProcNext]_procvars => ProcInv'
  <2>. SUFFICES ASSUME ProcInv, [ProcNext]_procvars
                PROVE  ProcInv'
    OBVIOUS
  <2>1. ProcTypeOK'
    BY ProcTypeNext, Zenon DEF ProcInv
  <2>2. orderly' => Orderly'
    BY ProcOrderNext
  <2>. QED BY <2>1, <2>2, Zenon DEF ProcInv
<1>. QED BY <1>1, <1>2, PTL DEF ProcSpec

\* Readers of the proc file that come one at a time and read to the end get
\* the array exactly once, although the flag belongs to all of them.
THEOREM ProcReadOnce == ProcSpec => []ReadOnce
<1>1. ProcInv => ReadOnce
  BY DEF ProcInv, ReadOnce, Orderly, ReaderOK
<1>. QED BY ProcInvariant, <1>1, PTL
-----------------------------------------------------------------------------
(* DriverLoad.                                                             *)
(*                                                                         *)
(* What a driver holds is judged by the rest of the program that it is in: *)
(* whatever may be held when a step of module_init fails is released by    *)
(* the label that it jumps to, whatever is held at the end by module_exit, *)
(* and what is released is used by nothing that is still held.  Each of    *)
(* these facts about a program holds of every rest of it, so that a step   *)
(* preserves them; that they hold of the whole programs is proved of each. *)

\* s is a sequence, of whatever.
IsSeq(s) == s \in Seq({s[i] : i \in 1 .. Len(s)})

\* s is a rest of a module_init.
IsProgram(s) ==
    /\ IsSeq(s)
    /\ \A i \in 1 .. Len(s) : IsSeq(s[i].undo) /\ s[i].skip \in Nat

\* What the programs acquire, and release, from here on.
Gets(s) == {s[i].get : i \in 1 .. Len(s)}
Frees(s) == UNION {Parts(s[i]) : i \in 1 .. Len(s)}

\* What a driver may hold when its module_init reaches step i of the rest s,
\* if it holds h now.
Reach(h, s, i) == h \cup {s[j].get : j \in 1 .. i - 1}

\* What module_exit does not release, or not for certain.
Kept(d) == (Forgotten(d) \cap {"spi_master", "uio_mem"}) \cup MayStay(d)

\* Removing gone takes nothing from under r, but the tasklet from the interrupt.
Spares(gone, r) ==
    \/ r \in gone
    \/ r = "irq_11" /\ gone = {"tasklet"}
    \/ \A need \in Uses : need[1] = r => need[2] \cap gone = {}

\* s releases users before what they use; lost stays.
Ordered(s, lost) ==
    /\ \A i, j \in 1 .. Len(s) : i < j => \A r \in Parts(s[j]) : Spares(Parts(s[i]), r)
    /\ \A i \in 1 .. Len(s) : \A r \in lost : Spares(Parts(s[i]), r)

\* The lines that are freed by their number, and who has them to himself.
Leds == {"gpio_driver", "gpio_irq"}
Foreign(d) == {r \in {"gpio_21", "gpio_23"} :
                  IF r = "gpio_21" THEN d \notin Leds ELSE d # "oled_spi"}

GpioClass == "class_example_gpio_class"

\* s frees the line of the LED before the class.
LineFirst(s) ==
    \A i, j \in 1 .. Len(s) : i < j /\ GpioClass \in Parts(s[i]) => "gpio_21" \notin Parts(s[j])

\* A driver d that holds h and has s to release: the LED's line has not been
\* freed without the class at hand that keeps the other driver out.
Guarded(d, h, s) ==
    /\ IsSeq(s)
    /\ LineFirst(s)
    /\ Frees(s) \cap Foreign(d) = {}
    /\ "gpio_21" \in Frees(s) => GpioClass \in h

\* A driver d that holds h and has s of its module_init before it.
LabelsClear(d, h, s) ==
    \A i \in 1 .. Len(s) : s[i].fails = "undo" =>
        /\ Reach(h, s, i) \subseteq Frees(s[i].undo) \cup Forgotten(d)
        /\ d # "globalmem" => Ordered(s[i].undo, Forgotten(d))

ExitClears(d, h, s) ==
    d # "uio" => \A r \in h \cup Gets(s) :
        \/ r \in Frees(ExitOf[d]) \cup Kept(d)
            \/ \E i \in 1 .. Len(s) : s[i].fails = "put" /\ s[i].get = r

PutsLast(s) ==
    /\ \A i, j \in 1 .. Len(s) : i < j /\ s[i].fails = "put" => s[j].get # s[i].get
    /\ \A i, j \in 1 .. Len(s) : s[i].fails = "put" => s[j].skip = 0

ClassBefore(h, s, i) ==
    GpioClass \in h \/ \E j \in 1 .. i - 1 : s[j].get = GpioClass /\ s[j].fails = "undo"

LinesGuarded(d, h, s) ==
    /\ (h \cup Gets(s)) \cap Foreign(d) = {}
    /\ "gpio_21" \in h => GpioClass \in h
    /\ d \in Leds => \A i \in 1 .. Len(s) :
          s[i].fails # "put" /\ s[i].skip = 0 /\ (s[i].fails = "undo" \/ s[i].undo = <<>>)
    /\ \A i \in 1 .. Len(s) :
           /\ s[i].get = "gpio_21" => ClassBefore(h, s, i)
           /\ s[i].fails = "undo" =>
                  /\ LineFirst(s[i].undo)
                  /\ Frees(s[i].undo) \cap Foreign(d) = {}
                  /\ "gpio_21" \in Frees(s[i].undo) => ClassBefore(h, s, i)
    /\ d \in Leds => ClassBefore(h, s, Len(s) + 1)

UioHolds(h, n) ==
    LET base == {"platform_device", "platform_driver"} IN
    /\ n \in 0 .. 6
    /\ n >= 4 => h \subseteq base
    /\ n = 3 => h \subseteq base \cup {"uio_dev"}
    /\ n = 2 => h \subseteq base \cup {"uio_dev", "uio_mem"}
    /\ n = 1 => "uio" \in h
    /\ n = 0 => "uio" \in h \/ h \subseteq base \cup {"uio_mem"}

Rest(s, p) == Len(s) <= Len(p) /\ \A i \in 1 .. Len(s) : s[i] = p[Len(p) - Len(s) + i]

Initialising(d, h, s) ==
    /\ IsProgram(s)
    /\ LabelsClear(d, h, s) /\ ExitClears(d, h, s) /\ PutsLast(s) /\ LinesGuarded(d, h, s)
    /\ d = "uio" => Rest(s, LoadUio) /\ UioHolds(h, Len(s))

\* What each module_init and module_exit must be like.
Loads(d, s) == Initialising(d, {}, s)

Unloads(d, s) ==
    /\ IsSeq(s)
    /\ Ordered(s, Kept(d)) /\ LineFirst(s)
    /\ Frees(s) \cap Foreign(d) = {}
    /\ "gpio_21" \in Frees(s) => d \in Leds

\* A label that releases u suits a driver d that holds no more than have.
Label(d, have, u) ==
    /\ IsSeq(u) /\ LineFirst(u)
    /\ Frees(u) \cap Foreign(d) = {}
    /\ have \subseteq Frees(u) \cup Forgotten(d)
    /\ d # "globalmem" => Ordered(u, Forgotten(d))

Types ==
    /\ DOMAIN phase = Drivers /\ DOMAIN todo = Drivers
    /\ DOMAIN held = Drivers /\ DOMAIN leaked = Drivers

DriverInv(d) ==
    /\ phase[d] \in {"out", "init", "undo", "in", "exit", "dead"}
    /\ phase[d] = "out" => held[d] = {}
    /\ phase[d] = "init" => Initialising(d, held[d], todo[d])
    /\ phase[d] = "in" =>
          /\ IF d = "uio" THEN UioHolds(held[d], 0)
             ELSE held[d] \subseteq Frees(ExitOf[d]) \cup Kept(d)
          /\ held[d] \cap Foreign(d) = {}
          /\ d \in Leds => GpioClass \in held[d]
    /\ phase[d] = "undo" =>
          /\ Guarded(d, held[d], todo[d])
          /\ held[d] \subseteq Frees(todo[d]) \cup Forgotten(d)
          /\ d # "globalmem" => Ordered(todo[d], Forgotten(d))
    /\ phase[d] = "exit" =>
          /\ Guarded(d, held[d], todo[d])
          /\ Oopses(d) \/ held[d] \subseteq Frees(todo[d]) \cup Kept(d)
          /\ Ordered(todo[d], Kept(d))
    /\ leaked[d] \subseteq Forgotten(d)

NamesInv ==
    \A d, e \in Drivers : d # e => Held(d) \cap Held(e) \cap Names = {}

DriversInv == Types /\ (\A d \in Drivers : DriverInv(d)) /\ NamesInv

-----------------------------------------------------------------------------
(* What is released with a resource, and what must not be released before it. *)

LEMMA InParts ==
    ASSUME NEW r, NEW x
    PROVE  x \in Parts(r) <=> \/ x = r
                              \/ x = "sysfs_value" /\ r = "example_sysfs"
                              \/ x = "proc_file" /\ r = "proc_example"
                              \/ x = "spi_setup" /\ r = "spi_device"
  BY SMT DEF Parts, PartOf

\* What must not be released before r.
LEMMA SparesIff ==
    ASSUME NEW gone, NEW r
    PROVE  Spares(gone, r) <=>
       \/ r \in gone
       \/ r = "irq_11" /\ gone = {"tasklet"}
       \/ /\ r \in {"device", "device_globalmem"} => Classes \cap gone = {}
          /\ r \in {"cdev", "mem_cdev"} => Numbers \cap gone = {}
          /\ r = "mem_cdev" => "mem" \notin gone
          /\ r = "sysfs_value" => "example_sysfs" \notin gone
          /\ r = "proc_file" => "proc_example" \notin gone
          /\ r = "export" => "gpio_21" \notin gone
          /\ r = "irq_24" => "gpio_24" \notin gone /\ "gpio_21" \notin gone
          /\ r = "irq_11" => "tasklet" \notin gone
          /\ r = "uio_dev" => "platform_device" \notin gone
<1>. DEFINE P(need) == need[1] = r => need[2] \cap gone = {}
<1>1. (\A need \in Uses : P(need)) <=>
          /\ P(<<"device", Classes>>) /\ P(<<"device_globalmem", Classes>>)
          /\ P(<<"cdev", Numbers>>) /\ P(<<"irq_11", {"tasklet"}>>) /\ P(<<"irq_24", {"gpio_21"}>>)
          /\ P(<<"mem_cdev", Numbers>>) /\ P(<<"mem_cdev", {"mem"}>>)
          /\ P(<<"sysfs_value", {"example_sysfs"}>>) /\ P(<<"proc_file", {"proc_example"}>>)
          /\ P(<<"export", {"gpio_21"}>>) /\ P(<<"irq_24", {"gpio_24"}>>)
          /\ P(<<"uio_dev", {"platform_device"}>>)
  <2>. HIDE DEF P
  <2>. QED BY Zenon DEF Uses, Needs
<1>. QED BY <1>1, SMT DEF Spares

-----------------------------------------------------------------------------
(* The programs, written out. *)

\* Concatenations of short sequences, written out.
LEMMA Concat11 ==
    ASSUME NEW a, NEW b
    PROVE  <<a>> \o <<b>> = <<a, b>>
<1>. DEFINE s == <<a>> \o <<b>>
            t == <<a, b>>
            S == {a, b}
<1>1. s \in Seq(S) /\ t \in Seq(S) /\ Len(s) = 2 /\ Len(t) = 2 BY SMT
<1>2. \A i \in 1 .. 2 : s[i] = t[i] BY SMT
<1>. HIDE DEF s, t, S
<1>3. s = t BY <1>1, <1>2, SeqEqual, SMT
<1>. QED BY <1>3 DEF s, t

LEMMA Concat12 ==
    ASSUME NEW a, NEW b, NEW c
    PROVE  <<a>> \o <<b, c>> = <<a, b, c>>
<1>. DEFINE s == <<a>> \o <<b, c>>
            t == <<a, b, c>>
            S == {a, b, c}
<1>1. s \in Seq(S) /\ t \in Seq(S) /\ Len(s) = 3 /\ Len(t) = 3 BY SMT
<1>2. \A i \in 1 .. 3 : s[i] = t[i] BY SMT
<1>. HIDE DEF s, t, S
<1>3. s = t BY <1>1, <1>2, SeqEqual, SMT
<1>. QED BY <1>3 DEF s, t

LEMMA Concat13 ==
    ASSUME NEW a, NEW b, NEW c, NEW d
    PROVE  <<a>> \o <<b, c, d>> = <<a, b, c, d>>
<1>. DEFINE s == <<a>> \o <<b, c, d>>
            t == <<a, b, c, d>>
            S == {a, b, c, d}
<1>1. s \in Seq(S) /\ t \in Seq(S) /\ Len(s) = 4 /\ Len(t) = 4 BY SMT
<1>2. \A i \in 1 .. 4 : s[i] = t[i] BY SMT
<1>. HIDE DEF s, t, S
<1>3. s = t BY <1>1, <1>2, SeqEqual, SMT
<1>. QED BY <1>3 DEF s, t

LEMMA Concat14 ==
    ASSUME NEW a, NEW b, NEW c, NEW d, NEW e
    PROVE  <<a>> \o <<b, c, d, e>> = <<a, b, c, d, e>>
<1>. DEFINE s == <<a>> \o <<b, c, d, e>>
            t == <<a, b, c, d, e>>
            S == {a, b, c, d, e}
<1>1. s \in Seq(S) /\ t \in Seq(S) /\ Len(s) = 5 /\ Len(t) = 5 BY SMT
<1>2. \A i \in 1 .. 5 : s[i] = t[i] BY SMT
<1>. HIDE DEF s, t, S
<1>3. s = t BY <1>1, <1>2, SeqEqual, SMT
<1>. QED BY <1>3 DEF s, t

LEMMA Concat24 ==
    ASSUME NEW a, NEW b, NEW c, NEW d, NEW e, NEW f
    PROVE  <<a, b>> \o <<c, d, e, f>> = <<a, b, c, d, e, f>>
<1>. DEFINE s == <<a, b>> \o <<c, d, e, f>>
            t == <<a, b, c, d, e, f>>
            S == {a, b, c, d, e, f}
<1>1. s \in Seq(S) /\ t \in Seq(S) /\ Len(s) = 6 /\ Len(t) = 6 BY SMT
<1>2. \A i \in 1 .. 6 : s[i] = t[i] BY SMT
<1>. HIDE DEF s, t, S
<1>3. s = t BY <1>1, <1>2, SeqEqual, SMT
<1>. QED BY <1>3 DEF s, t

LEMMA Concat34 ==
    ASSUME NEW a, NEW b, NEW c, NEW d, NEW e, NEW f, NEW g
    PROVE  <<a, b, c>> \o <<d, e, f, g>> = <<a, b, c, d, e, f, g>>
<1>. DEFINE s == <<a, b, c>> \o <<d, e, f, g>>
            t == <<a, b, c, d, e, f, g>>
            S == {a, b, c, d, e, f, g}
<1>1. s \in Seq(S) /\ t \in Seq(S) /\ Len(s) = 7 /\ Len(t) = 7 BY SMT
<1>2. \A i \in 1 .. 7 : s[i] = t[i] BY SMT
<1>. HIDE DEF s, t, S
<1>3. s = t BY <1>1, <1>2, SeqEqual, SMT
<1>. QED BY <1>3 DEF s, t

LEMMA Concat42 ==
    ASSUME NEW a, NEW b, NEW c, NEW d, NEW e, NEW f
    PROVE  <<a, b, c, d>> \o <<e, f>> = <<a, b, c, d, e, f>>
<1>. DEFINE s == <<a, b, c, d>> \o <<e, f>>
            t == <<a, b, c, d, e, f>>
            S == {a, b, c, d, e, f}
<1>1. s \in Seq(S) /\ t \in Seq(S) /\ Len(s) = 6 /\ Len(t) = 6 BY SMT
<1>2. \A i \in 1 .. 6 : s[i] = t[i] BY SMT
<1>. HIDE DEF s, t, S
<1>3. s = t BY <1>1, <1>2, SeqEqual, SMT
<1>. QED BY <1>3 DEF s, t

LEMMA Concat43 ==
    ASSUME NEW a, NEW b, NEW c, NEW d, NEW e, NEW f, NEW g
    PROVE  <<a, b, c, d>> \o <<e, f, g>> = <<a, b, c, d, e, f, g>>
<1>. DEFINE s == <<a, b, c, d>> \o <<e, f, g>>
            t == <<a, b, c, d, e, f, g>>
            S == {a, b, c, d, e, f, g}
<1>1. s \in Seq(S) /\ t \in Seq(S) /\ Len(s) = 7 /\ Len(t) = 7 BY SMT
<1>2. \A i \in 1 .. 7 : s[i] = t[i] BY SMT
<1>. HIDE DEF s, t, S
<1>3. s = t BY <1>1, <1>2, SeqEqual, SMT
<1>. QED BY <1>3 DEF s, t

LEMMA Concat31 ==
    ASSUME NEW a, NEW b, NEW c, NEW d
    PROVE  <<a, b, c>> \o <<d>> = <<a, b, c, d>>
<1>. DEFINE s == <<a, b, c>> \o <<d>>
            t == <<a, b, c, d>>
            S == {a, b, c, d}
<1>1. s \in Seq(S) /\ t \in Seq(S) /\ Len(s) = 4 /\ Len(t) = 4 BY SMT
<1>2. \A i \in 1 .. 4 : s[i] = t[i] BY SMT
<1>. HIDE DEF s, t, S
<1>3. s = t BY <1>1, <1>2, SeqEqual, SMT
<1>. QED BY <1>3 DEF s, t

\* The labels, written out.
LEMMA GpioLabels ==
    /\ RDel = <<"cdev", "region">>
    /\ RClass = <<"class_example_gpio_class", "cdev", "region">>
    /\ RDevice = <<"device", "class_example_gpio_class", "cdev", "region">>
    /\ <<"gpio_21">> \o RDevice =
           <<"gpio_21", "device", "class_example_gpio_class", "cdev", "region">>
    /\ <<"export", "gpio_21">> \o RDevice =
           <<"export", "gpio_21", "device", "class_example_gpio_class", "cdev", "region">>
    /\ <<"gpio_24", "gpio_21">> \o RDevice =
           <<"gpio_24", "gpio_21", "device", "class_example_gpio_class", "cdev", "region">>
<1>1. RDel = <<"cdev", "region">>
  BY Concat11, Zenon DEF RUnreg, RDel
<1>2. RClass = <<"class_example_gpio_class", "cdev", "region">>
  BY <1>1, Concat12, Zenon DEF RClass
<1>3. RDevice = <<"device", "class_example_gpio_class", "cdev", "region">>
  BY <1>2, Concat13, Zenon DEF RDevice
<1>4. <<"gpio_21">> \o RDevice = <<"gpio_21", "device", "class_example_gpio_class", "cdev", "region">>
  BY <1>3, Concat14, Zenon
<1>5. <<"export", "gpio_21">> \o RDevice
          = <<"export", "gpio_21", "device", "class_example_gpio_class", "cdev", "region">>
  BY <1>3, Concat24, SMT
<1>6. <<"gpio_24", "gpio_21">> \o RDevice
          = <<"gpio_24", "gpio_21", "device", "class_example_gpio_class", "cdev", "region">>
  BY <1>3, Concat24, SMT
<1>. QED BY <1>1, <1>2, <1>3, <1>4, <1>5, <1>6

LEMMA GlobalmemLabels ==
    /\ GRDevice = <<"class_globalmem", "region">>
    /\ GRSysfs = <<"example_sysfs", "class_globalmem", "region">>
    /\ GIrq = <<"irq_11", "example_sysfs", "class_globalmem", "region">>
<1>1. GRDevice = <<"class_globalmem", "region">>
  BY Concat11, Zenon DEF GRClass, GRDevice
<1>2. GRSysfs = <<"example_sysfs", "class_globalmem", "region">>
  BY <1>1, Concat12, Zenon DEF GRSysfs
<1>. QED BY <1>1, <1>2, Concat13, Zenon DEF GIrq

\* The programs of each driver.
LEMMA ProgramOf ==
    /\ DOMAIN InitOf = {"hello", "simple_timer", "gpio_driver", "gpio_irq", "second", "globalfifo",
                        "multi_globalmem", "globalmem", "oled_spi", "oled_i2c", "uio"}
    /\ InitOf["hello"] = LoadHello /\ ExitOf["hello"] = UnloadHello
    /\ InitOf["simple_timer"] = LoadSimpleTimer /\ ExitOf["simple_timer"] = UnloadSimpleTimer
    /\ InitOf["gpio_driver"] = LoadGpioDriver /\ ExitOf["gpio_driver"] = UnloadGpioDriver
    /\ InitOf["gpio_irq"] = LoadGpioIrq /\ ExitOf["gpio_irq"] = UnloadGpioIrq
    /\ InitOf["second"] = LoadSecond /\ ExitOf["second"] = UnloadSecond
    /\ InitOf["globalfifo"] = LoadGlobalfifo /\ ExitOf["globalfifo"] = UnloadGlobalfifo
    /\ InitOf["multi_globalmem"] = LoadMultiGlobalmem
    /\ ExitOf["multi_globalmem"] = UnloadMultiGlobalmem
    /\ InitOf["globalmem"] = LoadGlobalmem /\ ExitOf["globalmem"] = UnloadGlobalmem
    /\ InitOf["oled_spi"] = LoadOledSpi /\ ExitOf["oled_spi"] = UnloadOledSpi
    /\ InitOf["oled_i2c"] = LoadOledI2c /\ ExitOf["oled_i2c"] = UnloadOledI2c
    /\ InitOf["uio"] = LoadUio /\ ExitOf["uio"] = UnloadUio
BY SMT DEF InitOf, ExitOf

LEMMA StepFields ==
    \A r, u, n :
        /\ Need(r, u).get = r /\ Need(r, u).fails = "undo"
        /\ Need(r, u).undo = u /\ Need(r, u).skip = 0
        /\ Without(r, u, n).get = r /\ Without(r, u, n).fails = "ignored"
        /\ Without(r, u, n).undo = u /\ Without(r, u, n).skip = n
        /\ Ignore(r).get = r /\ Ignore(r).fails = "ignored"
        /\ Ignore(r).undo = <<>> /\ Ignore(r).skip = 0
        /\ OrDie(r).get = r /\ OrDie(r).fails = "oops"
        /\ OrDie(r).undo = <<>> /\ OrDie(r).skip = 0
        /\ Do(r).get = r /\ Do(r).fails = "never" /\ Do(r).undo = <<>> /\ Do(r).skip = 0
        /\ Put(r).get = r /\ Put(r).fails = "put" /\ Put(r).undo = <<>> /\ Put(r).skip = 0
BY SMT DEF Need, Without, Ignore, OrDie, Do, Put

LEMMA UioSteps ==
    /\ Len(LoadUio) = 6
    /\ LoadUio[1] = Ignore("platform_device")
    /\ LoadUio[2] = Need("platform_driver", <<>>)
    /\ LoadUio[3] = Without("uio_dev", <<>>, 3)
    /\ LoadUio[4] = OrDie("uio_mem")
    /\ LoadUio[5] = Without("uio", <<"uio_dev">>, 1)
    /\ LoadUio[6] = Ignore("uio_sysfs")
<1>1. LoadUio = <<Ignore("platform_device"), Need("platform_driver", <<>>), Without("uio_dev", <<>>, 3),
                  OrDie("uio_mem"), Without("uio", <<"uio_dev">>, 1), Ignore("uio_sysfs")>>
  <2>. DEFINE a == Ignore("platform_device")  b == Need("platform_driver", <<>>)
              c == Without("uio_dev", <<>>, 3) d == OrDie("uio_mem")
              e == Without("uio", <<"uio_dev">>, 1) f == Ignore("uio_sysfs")
  <2>1. LoadUio = <<a, b>> \o <<c, d, e, f>>
    BY Zenon DEF LoadUio, UioProbe
  <2>. HIDE DEF a, b, c, d, e, f
  <2>2. LoadUio = <<a, b, c, d, e, f>>
    BY <2>1, Concat24, SMT
  <2>. QED BY <2>2, Zenon DEF a, b, c, d, e, f
<1>. QED BY <1>1, SMT

\* A label is fit for less than it is fit for.
LEMMA FitsLess ==
    ASSUME NEW d, NEW have, NEW less, less \subseteq have, NEW u, Label(d, have, u)
    PROVE  Label(d, less, u)
BY Zenon DEF Label

\* What makes the module_init of a driver without the LED sound, and of one with it.
LEMMA LoadsNoLed ==
    ASSUME NEW d, d \notin Leds, NEW s, IsSeq(s),
           \A i \in 1 .. Len(s) : IsSeq(s[i].undo) /\ s[i].skip \in Nat,
           \A i \in 1 .. Len(s) : s[i].get \notin Foreign(d),
           \A i \in 1 .. Len(s) : s[i].fails = "undo" => Label(d, Reach({}, s, i), s[i].undo),
           ExitClears(d, {}, s), PutsLast(s),
           d = "uio" => Rest(s, LoadUio) /\ UioHolds({}, Len(s))
    PROVE  Loads(d, s)
<1>1. "gpio_21" \in Foreign(d)
  BY SMT DEF Foreign
<1>2. LabelsClear(d, {}, s)
  BY Zenon DEF LabelsClear, Label
<1>3. LinesGuarded(d, {}, s)
  BY <1>1, Zenon DEF LinesGuarded, Label, Gets
<1>. QED BY <1>2, <1>3, Zenon DEF Loads, Initialising, IsProgram

LEMMA LoadsLed ==
    ASSUME NEW d \in Leds, NEW s, IsSeq(s), Len(s) \in Nat, Len(s) >= 3,
           \A i \in 1 .. Len(s) : IsSeq(s[i].undo) /\ s[i].skip \in Nat,
           \A i \in 1 .. Len(s) :
               s[i].fails # "put" /\ s[i].skip = 0 /\ s[i].get \notin Foreign(d),
           \A i \in 1 .. Len(s) : s[i].fails = "undo" \/ s[i].undo = <<>>,
           \A i \in 1 .. Len(s) : s[i].fails = "undo" => Label(d, Reach({}, s, i), s[i].undo),
           \A i \in 4 .. Len(s) + 1 : ClassBefore({}, s, i),
           \A i \in 1 .. 3 : s[i].get # "gpio_21" /\ "gpio_21" \notin Frees(s[i].undo),
           ExitClears(d, {}, s), PutsLast(s)
    PROVE  Loads(d, s)
<1>1. d # "uio"
  BY SMT DEF Leds
<1>2. LabelsClear(d, {}, s)
  BY Zenon DEF LabelsClear, Label
<1>3. \A i \in 1 .. Len(s) : i \in 1 .. 3 \/ i \in 4 .. Len(s) + 1
  <2>. DEFINE n == Len(s)
  <2>. HIDE DEF n
  <2>1. n \in Nat => \A i \in 1 .. n : i \in 1 .. 3 \/ i \in 4 .. n + 1
    BY SMT
  <2>. QED BY <2>1 DEF n
<1>4. Len(s) + 1 \in 4 .. Len(s) + 1
  <2>. DEFINE n == Len(s)
  <2>. HIDE DEF n
  <2>1. n \in Nat /\ n >= 3 => n + 1 \in 4 .. n + 1
    BY SMT
  <2>. QED BY <2>1 DEF n
<1>5. ASSUME NEW i \in 1 .. Len(s)
      PROVE  /\ s[i].get = "gpio_21" => ClassBefore({}, s, i)
             /\ "gpio_21" \in Frees(s[i].undo) => ClassBefore({}, s, i)
  BY <1>3, Zenon
<1>6. (({} \cup Gets(s)) \cap Foreign(d)) = {}
  BY Zenon DEF Gets
<1>7. LinesGuarded(d, {}, s)
  BY <1>4, <1>5, <1>6, Zenon DEF LinesGuarded, Label
<1>. QED BY <1>1, <1>2, <1>7, Zenon DEF Loads, Initialising, IsProgram

LEMMA HelloSteps ==
    /\ Len(LoadHello) = 3
    /\ LoadHello[1] = Need("region", <<>>)
    /\ LoadHello[2] = Need("class_hello", <<"region">>)
    /\ LoadHello[3] = Need("device", <<"class_hello", "region">>)
BY SMT DEF LoadHello

LEMMA HelloLoads == Loads("hello", LoadHello)
<1>. DEFINE s == LoadHello
<1>1. IsSeq(s)
  BY SMT DEF IsSeq, LoadHello
<1>2. /\ Label("hello", {}, <<>>)
      /\ Label("hello", {"region"}, <<"region">>)
      /\ Label("hello", {"region", "class_hello"}, <<"class_hello", "region">>)
  BY InParts, SparesIff, SMT DEF Label, IsSeq, LineFirst, Frees, Foreign, Leds,
     GpioClass, Forgotten, Ordered, Classes, Numbers
<1>3. /\ Reach({}, s, 1) \subseteq {}
      /\ Reach({}, s, 2) \subseteq {"region"}
      /\ Reach({}, s, 3) \subseteq {"region", "class_hello"}
  BY HelloSteps, StepFields, SMT DEF Reach
<1>4. ASSUME NEW i \in 1 .. Len(s), s[i].fails = "undo"
      PROVE  Label("hello", Reach({}, s, i), s[i].undo)
  <2>1. i \in {1, 2, 3}
    BY <1>4, HelloSteps, StepFields, SMT
  <2>. QED BY <1>2, <1>3, <2>1, HelloSteps, StepFields, FitsLess, SMT
<1>5. \A i \in 1 .. Len(s) : IsSeq(s[i].undo) /\ s[i].skip \in Nat
  BY <1>2, HelloSteps, StepFields, SMT DEF Label
<1>6. ExitClears("hello", {}, s)
  BY HelloSteps, StepFields, ProgramOf, InParts, SMT DEF ExitClears, Gets, Frees,
     UnloadHello, Kept, MayStay, Forgotten
<1>7. PutsLast(s)
  BY HelloSteps, StepFields, SMT DEF PutsLast
<1>8. "hello" \notin Leds /\ \A i \in 1 .. Len(s) : s[i].get \notin Foreign("hello")
  BY HelloSteps, StepFields, SMT DEF Foreign, Leds
<1>. QED BY <1>1, <1>4, <1>5, <1>6, <1>7, <1>8, LoadsNoLed, Zenon

LEMMA HelloUnloads == Unloads("hello", UnloadHello)
<1>1. IsSeq(UnloadHello) /\ LineFirst(UnloadHello)
  BY InParts, SMT DEF IsSeq, LineFirst, UnloadHello, GpioClass
<1>2. Ordered(UnloadHello, Kept("hello"))
  BY InParts, SparesIff, SMT DEF Ordered, Kept, MayStay, Forgotten, UnloadHello, Classes, Numbers
<1>3. /\ Frees(UnloadHello) \cap Foreign("hello") = {}
      /\ "gpio_21" \in Frees(UnloadHello) => "hello" \in Leds
  BY InParts, SMT DEF Frees, UnloadHello, Foreign, Leds
<1>. QED BY <1>1, <1>2, <1>3, Zenon DEF Unloads

LEMMA SimpleTimerSteps ==
    /\ Len(LoadSimpleTimer) = 7
    /\ LoadSimpleTimer[1] = Do("timer")
    /\ LoadSimpleTimer[2] = Do("hrtimer")
    /\ LoadSimpleTimer[3] = Ignore("example_sysfs")
    /\ LoadSimpleTimer[4] = Need("sysfs_value", <<"example_sysfs", "class_hello", "region">>)
    /\ LoadSimpleTimer[5] = Need("region", <<>>)
    /\ LoadSimpleTimer[6] = Need("class_hello", <<"region">>)
    /\ LoadSimpleTimer[7] = Need("device", <<"class_hello", "region">>)
BY SMT DEF LoadSimpleTimer

LEMMA SimpleTimerLoads == Loads("simple_timer", LoadSimpleTimer)
<1>. DEFINE s == LoadSimpleTimer
<1>1. IsSeq(s)
  BY SMT DEF IsSeq, LoadSimpleTimer
<1>2. /\ Label("simple_timer", {"timer", "hrtimer", "example_sysfs"}, <<"example_sysfs",
                    "class_hello", "region">>)
      /\ Label("simple_timer", {"timer", "hrtimer", "example_sysfs", "sysfs_value"},
                    <<>>)
      /\ Label("simple_timer", {"timer", "hrtimer", "example_sysfs", "sysfs_value",
                    "region"}, <<"region">>)
      /\ Label("simple_timer", {"timer", "hrtimer", "example_sysfs", "sysfs_value",
                    "region", "class_hello"}, <<"class_hello", "region">>)
  <2>1. Label("simple_timer", {"timer", "hrtimer", "example_sysfs"}, <<"example_sysfs",
                    "class_hello", "region">>)
    BY InParts, SparesIff, SMT DEF Label, IsSeq, LineFirst, Frees, Foreign, Leds,
       GpioClass, Forgotten, Ordered, Classes, Numbers
  <2>2. Label("simple_timer", {"timer", "hrtimer", "example_sysfs", "sysfs_value"},
                    <<>>)
    BY InParts, SparesIff, SMT DEF Label, IsSeq, LineFirst, Frees, Foreign, Leds,
       GpioClass, Forgotten, Ordered, Classes, Numbers
  <2>3. Label("simple_timer", {"timer", "hrtimer", "example_sysfs", "sysfs_value",
                    "region"}, <<"region">>)
    BY InParts, SparesIff, SMT DEF Label, IsSeq, LineFirst, Frees, Foreign, Leds,
       GpioClass, Forgotten, Ordered, Classes, Numbers
  <2>4. Label("simple_timer", {"timer", "hrtimer", "example_sysfs", "sysfs_value",
                    "region", "class_hello"}, <<"class_hello", "region">>)
    BY InParts, SparesIff, SMT DEF Label, IsSeq, LineFirst, Frees, Foreign, Leds,
       GpioClass, Forgotten, Ordered, Classes, Numbers
  <2>. QED BY <2>1, <2>2, <2>3, <2>4
<1>3. /\ Reach({}, s, 4) \subseteq {"timer", "hrtimer", "example_sysfs"}
      /\ Reach({}, s, 5) \subseteq {"timer", "hrtimer", "example_sysfs", "sysfs_value"}
      /\ Reach({}, s, 6) \subseteq {"timer", "hrtimer", "example_sysfs", "sysfs_value",
               "region"}
      /\ Reach({}, s, 7) \subseteq {"timer", "hrtimer", "example_sysfs", "sysfs_value",
               "region", "class_hello"}
  BY SimpleTimerSteps, StepFields, SMT DEF Reach
<1>4. ASSUME NEW i \in 1 .. Len(s), s[i].fails = "undo"
      PROVE  Label("simple_timer", Reach({}, s, i), s[i].undo)
  <2>1. i \in {4, 5, 6, 7}
    BY <1>4, SimpleTimerSteps, StepFields, SMT
  <2>. QED BY <1>2, <1>3, <2>1, SimpleTimerSteps, StepFields, FitsLess, SMT
<1>5. \A i \in 1 .. Len(s) : IsSeq(s[i].undo) /\ s[i].skip \in Nat
  BY <1>2, SimpleTimerSteps, StepFields, SMT DEF Label
<1>6. ExitClears("simple_timer", {}, s)
  BY SimpleTimerSteps, StepFields, ProgramOf, InParts, SMT DEF ExitClears, Gets, Frees,
     UnloadSimpleTimer, Kept, MayStay, Forgotten
<1>7. PutsLast(s)
  BY SimpleTimerSteps, StepFields, SMT DEF PutsLast
<1>8. "simple_timer" \notin Leds /\ \A i \in 1 .. Len(s) : s[i].get \notin Foreign("simple_timer")
  BY SimpleTimerSteps, StepFields, SMT DEF Foreign, Leds
<1>. QED BY <1>1, <1>4, <1>5, <1>6, <1>7, <1>8, LoadsNoLed, Zenon

LEMMA SimpleTimerUnloads == Unloads("simple_timer", UnloadSimpleTimer)
<1>1. IsSeq(UnloadSimpleTimer) /\ LineFirst(UnloadSimpleTimer)
  BY InParts, SMT DEF IsSeq, LineFirst, UnloadSimpleTimer, GpioClass
<1>2. Ordered(UnloadSimpleTimer, Kept("simple_timer"))
  BY InParts, SparesIff, SMT DEF Ordered, Kept, MayStay, Forgotten, UnloadSimpleTimer, Classes,
     Numbers
<1>3. /\ Frees(UnloadSimpleTimer) \cap Foreign("simple_timer") = {}
      /\ "gpio_21" \in Frees(UnloadSimpleTimer) => "simple_timer" \in Leds
  BY InParts, SMT DEF Frees, UnloadSimpleTimer, Foreign, Leds
<1>. QED BY <1>1, <1>2, <1>3, Zenon DEF Unloads

LEMMA GpioDriverSteps ==
    /\ Len(LoadGpioDriver) = 6
    /\ LoadGpioDriver[1] = Need("region", RUnreg)
    /\ LoadGpioDriver[2] = Need("cdev", RDel)
    /\ LoadGpioDriver[3] = Need("class_example_gpio_class", RClass)
    /\ LoadGpioDriver[4] = Need("device", RDevice)
    /\ LoadGpioDriver[5] = Need("gpio_21", <<"gpio_21">> \o RDevice)
    /\ LoadGpioDriver[6] = Ignore("export")
<1>. DEFINE a == Need("region", RUnreg)
            b == Need("cdev", RDel)
            c == Need("class_example_gpio_class", RClass)
            d == Need("device", RDevice)
            e == Need("gpio_21", <<"gpio_21">> \o RDevice)
            f == Ignore("export")
<1>1. LoadGpioDriver = <<a, b, c, d>> \o <<e, f>>
  BY Zenon DEF LoadGpioDriver, LoadGpio
<1>. HIDE DEF a, b, c, d, e, f
<1>2. LoadGpioDriver = <<a, b, c, d, e, f>>
  BY <1>1, Concat42, SMT
<1>3. /\ Len(LoadGpioDriver) = 6
      /\ LoadGpioDriver[1] = a
      /\ LoadGpioDriver[2] = b
      /\ LoadGpioDriver[3] = c
      /\ LoadGpioDriver[4] = d
      /\ LoadGpioDriver[5] = e
      /\ LoadGpioDriver[6] = f
  BY <1>2, SMT
<1>. QED BY <1>3, Zenon DEF a, b, c, d, e, f

LEMMA GpioDriverLoads == Loads("gpio_driver", LoadGpioDriver)
<1>. DEFINE s == LoadGpioDriver
<1>1. IsSeq(s)
  BY SMT DEF IsSeq, LoadGpioDriver, LoadGpio
<1>2. /\ Label("gpio_driver", {}, RUnreg)
      /\ Label("gpio_driver", {"region"}, RDel)
      /\ Label("gpio_driver", {"region", "cdev"}, RClass)
      /\ Label("gpio_driver", {"region", "cdev", "class_example_gpio_class"}, RDevice)
      /\ Label("gpio_driver", {"region", "cdev", "class_example_gpio_class", "device"},
                    <<"gpio_21">> \o RDevice)
  <2>1. Label("gpio_driver", {}, RUnreg)
    BY GpioLabels, InParts, SparesIff, SMT DEF Label, IsSeq, LineFirst, Frees, Foreign,
       Leds, GpioClass, Forgotten, Ordered, Classes, Numbers, RUnreg
  <2>2. Label("gpio_driver", {"region"}, RDel)
    BY GpioLabels, InParts, SparesIff, SMT DEF Label, IsSeq, LineFirst, Frees, Foreign,
       Leds, GpioClass, Forgotten, Ordered, Classes, Numbers, RUnreg
  <2>3. Label("gpio_driver", {"region", "cdev"}, RClass)
    BY GpioLabels, InParts, SparesIff, SMT DEF Label, IsSeq, LineFirst, Frees, Foreign,
       Leds, GpioClass, Forgotten, Ordered, Classes, Numbers, RUnreg
  <2>4. Label("gpio_driver", {"region", "cdev", "class_example_gpio_class"}, RDevice)
    BY GpioLabels, InParts, SparesIff, SMT DEF Label, IsSeq, LineFirst, Frees, Foreign,
       Leds, GpioClass, Forgotten, Ordered, Classes, Numbers, RUnreg
  <2>5. Label("gpio_driver", {"region", "cdev", "class_example_gpio_class", "device"},
                    <<"gpio_21">> \o RDevice)
    BY GpioLabels, InParts, SparesIff, SMT DEF Label, IsSeq, LineFirst, Frees, Foreign,
       Leds, GpioClass, Forgotten, Ordered, Classes, Numbers, RUnreg
  <2>. QED BY <2>1, <2>2, <2>3, <2>4, <2>5
<1>3. /\ Reach({}, s, 1) \subseteq {}
      /\ Reach({}, s, 2) \subseteq {"region"}
      /\ Reach({}, s, 3) \subseteq {"region", "cdev"}
      /\ Reach({}, s, 4) \subseteq {"region", "cdev", "class_example_gpio_class"}
      /\ Reach({}, s, 5) \subseteq {"region", "cdev", "class_example_gpio_class",
               "device"}
  BY GpioDriverSteps, StepFields, SMT DEF Reach
<1>4. ASSUME NEW i \in 1 .. Len(s), s[i].fails = "undo"
      PROVE  Label("gpio_driver", Reach({}, s, i), s[i].undo)
  <2>1. i \in {1, 2, 3, 4, 5}
    BY <1>4, GpioDriverSteps, StepFields, SMT
  <2>. QED BY <1>2, <1>3, <2>1, GpioDriverSteps, StepFields, FitsLess, SMT
<1>5. \A i \in 1 .. Len(s) : IsSeq(s[i].undo) /\ s[i].skip \in Nat
  <2>1. IsSeq(<<>>)
    BY SMT DEF IsSeq
  <2>. QED BY <1>2, <2>1, GpioDriverSteps, StepFields, SMT DEF Label
<1>6. ExitClears("gpio_driver", {}, s)
  <2>1. Gets(s) \subseteq {"region", "cdev", "class_example_gpio_class", "device",
            "gpio_21", "export"}
    BY GpioDriverSteps, StepFields, SMT DEF Gets
  <2>2. {"region", "cdev", "class_example_gpio_class", "device", "gpio_21", "export"}
            \subseteq Frees(UnloadGpioDriver)
    BY GpioLabels, InParts, SMT DEF Frees, UnloadGpioDriver
  <2>. QED BY <2>1, <2>2, ProgramOf, Zenon DEF ExitClears
<1>7. PutsLast(s)
  BY GpioDriverSteps, StepFields, SMT DEF PutsLast
<1>8. \A i \in 1 .. Len(s) : s[i].fails # "put" /\ s[i].skip = 0 /\ s[i].get \notin Foreign("gpio_driver")
  BY GpioDriverSteps, StepFields, SMT DEF Foreign, Leds
<1>9. /\ \A i \in 1 .. Len(s) : s[i].fails = "undo" \/ s[i].undo = <<>>
      /\ \A i \in 4 .. Len(s) + 1 : ClassBefore({}, s, i)
  BY GpioDriverSteps, StepFields, SMT DEF ClassBefore, GpioClass
<1>10. \A i \in 1 .. 3 : s[i].get # "gpio_21" /\ "gpio_21" \notin Frees(s[i].undo)
  <2>1. "gpio_21" \notin Frees(RUnreg) /\ "gpio_21" \notin Frees(RDel) /\ "gpio_21" \notin Frees(RClass)
    BY GpioLabels, InParts, SMT DEF Frees, RUnreg
  <2>. QED BY <2>1, GpioDriverSteps, StepFields, SMT
<1>11. Len(s) \in Nat /\ Len(s) >= 3
  BY GpioDriverSteps, SMT
<1>. QED BY <1>1, <1>4, <1>5, <1>6, <1>7, <1>8, <1>9, <1>10, <1>11, LoadsLed, Zenon DEF Leds

LEMMA GpioDriverUnloads == Unloads("gpio_driver", UnloadGpioDriver)
<1>1. IsSeq(UnloadGpioDriver) /\ LineFirst(UnloadGpioDriver)
  BY GpioLabels, InParts, SMT DEF IsSeq, LineFirst, UnloadGpioDriver, GpioClass
<1>2. Ordered(UnloadGpioDriver, Kept("gpio_driver"))
  BY GpioLabels, InParts, SparesIff, SMT DEF Ordered, Kept, MayStay, Forgotten, UnloadGpioDriver,
     Classes, Numbers
<1>3. /\ Frees(UnloadGpioDriver) \cap Foreign("gpio_driver") = {}
      /\ "gpio_21" \in Frees(UnloadGpioDriver) => "gpio_driver" \in Leds
  BY GpioLabels, InParts, SMT DEF Frees, UnloadGpioDriver, Foreign, Leds
<1>. QED BY <1>1, <1>2, <1>3, Zenon DEF Unloads

LEMMA GpioIrqSteps ==
    /\ Len(LoadGpioIrq) = 7
    /\ LoadGpioIrq[1] = Need("region", RUnreg)
    /\ LoadGpioIrq[2] = Need("cdev", RDel)
    /\ LoadGpioIrq[3] = Need("class_example_gpio_class", RClass)
    /\ LoadGpioIrq[4] = Need("device", RDevice)
    /\ LoadGpioIrq[5] = Need("gpio_21", <<"gpio_21">> \o RDevice)
    /\ LoadGpioIrq[6] = Need("gpio_24", <<"gpio_24", "gpio_21">> \o RDevice)
    /\ LoadGpioIrq[7] = Need("irq_24", <<"gpio_24", "gpio_21">> \o RDevice)
<1>. DEFINE a == Need("region", RUnreg)
            b == Need("cdev", RDel)
            c == Need("class_example_gpio_class", RClass)
            d == Need("device", RDevice)
            e == Need("gpio_21", <<"gpio_21">> \o RDevice)
            f == Need("gpio_24", <<"gpio_24", "gpio_21">> \o RDevice)
            g == Need("irq_24", <<"gpio_24", "gpio_21">> \o RDevice)
<1>1. LoadGpioIrq = <<a, b, c, d>> \o <<e, f, g>>
  BY Zenon DEF LoadGpioIrq, LoadGpio
<1>. HIDE DEF a, b, c, d, e, f, g
<1>2. LoadGpioIrq = <<a, b, c, d, e, f, g>>
  BY <1>1, Concat43, SMT
<1>3. /\ Len(LoadGpioIrq) = 7
      /\ LoadGpioIrq[1] = a
      /\ LoadGpioIrq[2] = b
      /\ LoadGpioIrq[3] = c
      /\ LoadGpioIrq[4] = d
      /\ LoadGpioIrq[5] = e
      /\ LoadGpioIrq[6] = f
      /\ LoadGpioIrq[7] = g
  BY <1>2, SMT
<1>. QED BY <1>3, Zenon DEF a, b, c, d, e, f, g

LEMMA GpioIrqLoads == Loads("gpio_irq", LoadGpioIrq)
<1>. DEFINE s == LoadGpioIrq
<1>1. IsSeq(s)
  BY SMT DEF IsSeq, LoadGpioIrq, LoadGpio
<1>2. /\ Label("gpio_irq", {}, RUnreg)
      /\ Label("gpio_irq", {"region"}, RDel)
      /\ Label("gpio_irq", {"region", "cdev"}, RClass)
      /\ Label("gpio_irq", {"region", "cdev", "class_example_gpio_class"}, RDevice)
      /\ Label("gpio_irq", {"region", "cdev", "class_example_gpio_class", "device"},
                    <<"gpio_21">> \o RDevice)
      /\ Label("gpio_irq", {"region", "cdev", "class_example_gpio_class", "device",
                    "gpio_21", "gpio_24"}, <<"gpio_24", "gpio_21">> \o RDevice)
  <2>1. Label("gpio_irq", {}, RUnreg)
    BY GpioLabels, InParts, SparesIff, SMT DEF Label, IsSeq, LineFirst, Frees, Foreign,
       Leds, GpioClass, Forgotten, Ordered, Classes, Numbers, RUnreg
  <2>2. Label("gpio_irq", {"region"}, RDel)
    BY GpioLabels, InParts, SparesIff, SMT DEF Label, IsSeq, LineFirst, Frees, Foreign,
       Leds, GpioClass, Forgotten, Ordered, Classes, Numbers, RUnreg
  <2>3. Label("gpio_irq", {"region", "cdev"}, RClass)
    BY GpioLabels, InParts, SparesIff, SMT DEF Label, IsSeq, LineFirst, Frees, Foreign,
       Leds, GpioClass, Forgotten, Ordered, Classes, Numbers, RUnreg
  <2>4. Label("gpio_irq", {"region", "cdev", "class_example_gpio_class"}, RDevice)
    BY GpioLabels, InParts, SparesIff, SMT DEF Label, IsSeq, LineFirst, Frees, Foreign,
       Leds, GpioClass, Forgotten, Ordered, Classes, Numbers, RUnreg
  <2>5. Label("gpio_irq", {"region", "cdev", "class_example_gpio_class", "device"},
                    <<"gpio_21">> \o RDevice)
    BY GpioLabels, InParts, SparesIff, SMT DEF Label, IsSeq, LineFirst, Frees, Foreign,
       Leds, GpioClass, Forgotten, Ordered, Classes, Numbers, RUnreg
  <2>6. Label("gpio_irq", {"region", "cdev", "class_example_gpio_class", "device",
                    "gpio_21", "gpio_24"}, <<"gpio_24", "gpio_21">> \o RDevice)
    BY GpioLabels, InParts, SparesIff, SMT DEF Label, IsSeq, LineFirst, Frees, Foreign,
       Leds, GpioClass, Forgotten, Ordered, Classes, Numbers, RUnreg
  <2>. QED BY <2>1, <2>2, <2>3, <2>4, <2>5, <2>6
<1>3. /\ Reach({}, s, 1) \subseteq {}
      /\ Reach({}, s, 2) \subseteq {"region"}
      /\ Reach({}, s, 3) \subseteq {"region", "cdev"}
      /\ Reach({}, s, 4) \subseteq {"region", "cdev", "class_example_gpio_class"}
      /\ Reach({}, s, 5) \subseteq {"region", "cdev", "class_example_gpio_class",
               "device"}
      /\ Reach({}, s, 6) \subseteq {"region", "cdev", "class_example_gpio_class",
               "device", "gpio_21"}
      /\ Reach({}, s, 7) \subseteq {"region", "cdev", "class_example_gpio_class",
               "device", "gpio_21", "gpio_24"}
  BY GpioIrqSteps, StepFields, SMT DEF Reach
<1>4. ASSUME NEW i \in 1 .. Len(s), s[i].fails = "undo"
      PROVE  Label("gpio_irq", Reach({}, s, i), s[i].undo)
  <2>1. i \in {1, 2, 3, 4, 5, 6, 7}
    BY <1>4, GpioIrqSteps, StepFields, SMT
  <2>. QED BY <1>2, <1>3, <2>1, GpioIrqSteps, StepFields, FitsLess, SMT
<1>5. \A i \in 1 .. Len(s) : IsSeq(s[i].undo) /\ s[i].skip \in Nat
  BY <1>2, GpioIrqSteps, StepFields, SMT DEF Label
<1>6. ExitClears("gpio_irq", {}, s)
  <2>1. Gets(s) \subseteq {"region", "cdev", "class_example_gpio_class", "device",
            "gpio_21", "gpio_24", "irq_24"}
    BY GpioIrqSteps, StepFields, SMT DEF Gets
  <2>2. {"region", "cdev", "class_example_gpio_class", "device", "gpio_21", "gpio_24",
            "irq_24"} \subseteq Frees(UnloadGpioIrq)
    BY GpioLabels, InParts, SMT DEF Frees, UnloadGpioIrq
  <2>. QED BY <2>1, <2>2, ProgramOf, Zenon DEF ExitClears
<1>7. PutsLast(s)
  BY GpioIrqSteps, StepFields, SMT DEF PutsLast
<1>8. \A i \in 1 .. Len(s) : s[i].fails # "put" /\ s[i].skip = 0 /\ s[i].get \notin Foreign("gpio_irq")
  BY GpioIrqSteps, StepFields, SMT DEF Foreign, Leds
<1>9. /\ \A i \in 1 .. Len(s) : s[i].fails = "undo" \/ s[i].undo = <<>>
      /\ \A i \in 4 .. Len(s) + 1 : ClassBefore({}, s, i)
  BY GpioIrqSteps, StepFields, SMT DEF ClassBefore, GpioClass
<1>10. \A i \in 1 .. 3 : s[i].get # "gpio_21" /\ "gpio_21" \notin Frees(s[i].undo)
  <2>1. "gpio_21" \notin Frees(RUnreg) /\ "gpio_21" \notin Frees(RDel) /\ "gpio_21" \notin Frees(RClass)
    BY GpioLabels, InParts, SMT DEF Frees, RUnreg
  <2>. QED BY <2>1, GpioIrqSteps, StepFields, SMT
<1>11. Len(s) \in Nat /\ Len(s) >= 3
  BY GpioIrqSteps, SMT
<1>. QED BY <1>1, <1>4, <1>5, <1>6, <1>7, <1>8, <1>9, <1>10, <1>11, LoadsLed, Zenon DEF Leds

LEMMA GpioIrqUnloads == Unloads("gpio_irq", UnloadGpioIrq)
<1>1. IsSeq(UnloadGpioIrq) /\ LineFirst(UnloadGpioIrq)
  BY GpioLabels, InParts, SMT DEF IsSeq, LineFirst, UnloadGpioIrq, GpioClass
<1>2. Ordered(UnloadGpioIrq, Kept("gpio_irq"))
  BY GpioLabels, InParts, SparesIff, SMT DEF Ordered, Kept, MayStay, Forgotten, UnloadGpioIrq,
     Classes, Numbers
<1>3. /\ Frees(UnloadGpioIrq) \cap Foreign("gpio_irq") = {}
      /\ "gpio_21" \in Frees(UnloadGpioIrq) => "gpio_irq" \in Leds
  BY GpioLabels, InParts, SMT DEF Frees, UnloadGpioIrq, Foreign, Leds
<1>. QED BY <1>1, <1>2, <1>3, Zenon DEF Unloads

LEMMA SecondSteps ==
    /\ Len(LoadSecond) = 3
    /\ LoadSecond[1] = Need("major_232", <<>>)
    /\ LoadSecond[2] = Need("mem", <<"major_232">>)
    /\ LoadSecond[3] = Ignore("mem_cdev")
BY SMT DEF LoadSecond, FixedMajor

LEMMA SecondLoads == Loads("second", LoadSecond)
<1>. DEFINE s == LoadSecond
<1>1. IsSeq(s)
  BY SMT DEF IsSeq, LoadSecond, FixedMajor
<1>2. /\ Label("second", {}, <<>>)
      /\ Label("second", {"major_232"}, <<"major_232">>)
  BY InParts, SparesIff, SMT DEF Label, IsSeq, LineFirst, Frees, Foreign, Leds,
     GpioClass, Forgotten, Ordered, Classes, Numbers
<1>3. /\ Reach({}, s, 1) \subseteq {}
      /\ Reach({}, s, 2) \subseteq {"major_232"}
  BY SecondSteps, StepFields, SMT DEF Reach
<1>4. ASSUME NEW i \in 1 .. Len(s), s[i].fails = "undo"
      PROVE  Label("second", Reach({}, s, i), s[i].undo)
  <2>1. i \in {1, 2}
    BY <1>4, SecondSteps, StepFields, SMT
  <2>. QED BY <1>2, <1>3, <2>1, SecondSteps, StepFields, FitsLess, SMT
<1>5. \A i \in 1 .. Len(s) : IsSeq(s[i].undo) /\ s[i].skip \in Nat
  BY <1>2, SecondSteps, StepFields, SMT DEF Label
<1>6. ExitClears("second", {}, s)
  BY SecondSteps, StepFields, ProgramOf, InParts, SMT DEF ExitClears, Gets, Frees,
     UnloadSecond, Kept, MayStay, Forgotten
<1>7. PutsLast(s)
  BY SecondSteps, StepFields, SMT DEF PutsLast
<1>8. "second" \notin Leds /\ \A i \in 1 .. Len(s) : s[i].get \notin Foreign("second")
  BY SecondSteps, StepFields, SMT DEF Foreign, Leds
<1>. QED BY <1>1, <1>4, <1>5, <1>6, <1>7, <1>8, LoadsNoLed, Zenon

LEMMA SecondUnloads == Unloads("second", UnloadSecond)
<1>1. IsSeq(UnloadSecond) /\ LineFirst(UnloadSecond)
  BY InParts, SMT DEF IsSeq, LineFirst, UnloadSecond, GpioClass
<1>2. Ordered(UnloadSecond, Kept("second"))
  BY InParts, SparesIff, SMT DEF Ordered, Kept, MayStay, Forgotten, UnloadSecond, Classes, Numbers
<1>3. /\ Frees(UnloadSecond) \cap Foreign("second") = {}
      /\ "gpio_21" \in Frees(UnloadSecond) => "second" \in Leds
  BY InParts, SMT DEF Frees, UnloadSecond, Foreign, Leds
<1>. QED BY <1>1, <1>2, <1>3, Zenon DEF Unloads

LEMMA GlobalfifoSteps ==
    /\ Len(LoadGlobalfifo) = 4
    /\ LoadGlobalfifo[1] = Need("major_231", <<>>)
    /\ LoadGlobalfifo[2] = Need("mem", <<"major_231">>)
    /\ LoadGlobalfifo[3] = Ignore("mem_cdev")
    /\ LoadGlobalfifo[4] = Do("locks")
<1>. DEFINE a == Need("major_231", <<>>)
            b == Need("mem", <<"major_231">>)
            c == Ignore("mem_cdev")
            d == Do("locks")
<1>1. LoadGlobalfifo = <<a, b, c>> \o <<d>>
  BY Zenon DEF LoadGlobalfifo, FixedMajor
<1>. HIDE DEF a, b, c, d
<1>2. LoadGlobalfifo = <<a, b, c, d>>
  BY <1>1, Concat31, SMT
<1>3. /\ Len(LoadGlobalfifo) = 4
      /\ LoadGlobalfifo[1] = a /\ LoadGlobalfifo[2] = b /\ LoadGlobalfifo[3] = c /\ LoadGlobalfifo[4] = d
  BY <1>2, SMT
<1>. QED BY <1>3, Zenon DEF a, b, c, d

LEMMA GlobalfifoLoads == Loads("globalfifo", LoadGlobalfifo)
<1>. DEFINE s == LoadGlobalfifo
<1>1. IsSeq(s)
  BY SMT DEF IsSeq, LoadGlobalfifo, FixedMajor
<1>2. /\ Label("globalfifo", {}, <<>>)
      /\ Label("globalfifo", {"major_231"}, <<"major_231">>)
  BY InParts, SparesIff, SMT DEF Label, IsSeq, LineFirst, Frees, Foreign, Leds,
     GpioClass, Forgotten, Ordered, Classes, Numbers
<1>3. /\ Reach({}, s, 1) \subseteq {}
      /\ Reach({}, s, 2) \subseteq {"major_231"}
  BY GlobalfifoSteps, StepFields, SMT DEF Reach
<1>4. ASSUME NEW i \in 1 .. Len(s), s[i].fails = "undo"
      PROVE  Label("globalfifo", Reach({}, s, i), s[i].undo)
  <2>1. i \in {1, 2}
    BY <1>4, GlobalfifoSteps, StepFields, SMT
  <2>. QED BY <1>2, <1>3, <2>1, GlobalfifoSteps, StepFields, FitsLess, SMT
<1>5. \A i \in 1 .. Len(s) : IsSeq(s[i].undo) /\ s[i].skip \in Nat
  BY <1>2, GlobalfifoSteps, StepFields, SMT DEF Label
<1>6. ExitClears("globalfifo", {}, s)
  BY GlobalfifoSteps, StepFields, ProgramOf, InParts, SMT DEF ExitClears, Gets, Frees,
     UnloadGlobalfifo, Kept, MayStay, Forgotten
<1>7. PutsLast(s)
  BY GlobalfifoSteps, StepFields, SMT DEF PutsLast
<1>8. "globalfifo" \notin Leds /\ \A i \in 1 .. Len(s) : s[i].get \notin Foreign("globalfifo")
  BY GlobalfifoSteps, StepFields, SMT DEF Foreign, Leds
<1>. QED BY <1>1, <1>4, <1>5, <1>6, <1>7, <1>8, LoadsNoLed, Zenon

LEMMA GlobalfifoUnloads == Unloads("globalfifo", UnloadGlobalfifo)
<1>1. IsSeq(UnloadGlobalfifo) /\ LineFirst(UnloadGlobalfifo)
  BY InParts, SMT DEF IsSeq, LineFirst, UnloadGlobalfifo, GpioClass
<1>2. Ordered(UnloadGlobalfifo, Kept("globalfifo"))
  BY InParts, SparesIff, SMT DEF Ordered, Kept, MayStay, Forgotten, UnloadGlobalfifo, Classes,
     Numbers
<1>3. /\ Frees(UnloadGlobalfifo) \cap Foreign("globalfifo") = {}
      /\ "gpio_21" \in Frees(UnloadGlobalfifo) => "globalfifo" \in Leds
  BY InParts, SMT DEF Frees, UnloadGlobalfifo, Foreign, Leds
<1>. QED BY <1>1, <1>2, <1>3, Zenon DEF Unloads

LEMMA MultiGlobalmemSteps ==
    /\ Len(LoadMultiGlobalmem) = 3
    /\ LoadMultiGlobalmem[1] = Need("major_230", <<>>)
    /\ LoadMultiGlobalmem[2] = Need("mem", <<"major_230">>)
    /\ LoadMultiGlobalmem[3] = Ignore("mem_cdev")
BY SMT DEF LoadMultiGlobalmem, FixedMajor

LEMMA MultiGlobalmemLoads == Loads("multi_globalmem", LoadMultiGlobalmem)
<1>. DEFINE s == LoadMultiGlobalmem
<1>1. IsSeq(s)
  BY SMT DEF IsSeq, LoadMultiGlobalmem, FixedMajor
<1>2. /\ Label("multi_globalmem", {}, <<>>)
      /\ Label("multi_globalmem", {"major_230"}, <<"major_230">>)
  BY InParts, SparesIff, SMT DEF Label, IsSeq, LineFirst, Frees, Foreign, Leds,
     GpioClass, Forgotten, Ordered, Classes, Numbers
<1>3. /\ Reach({}, s, 1) \subseteq {}
      /\ Reach({}, s, 2) \subseteq {"major_230"}
  BY MultiGlobalmemSteps, StepFields, SMT DEF Reach
<1>4. ASSUME NEW i \in 1 .. Len(s), s[i].fails = "undo"
      PROVE  Label("multi_globalmem", Reach({}, s, i), s[i].undo)
  <2>1. i \in {1, 2}
    BY <1>4, MultiGlobalmemSteps, StepFields, SMT
  <2>. QED BY <1>2, <1>3, <2>1, MultiGlobalmemSteps, StepFields, FitsLess, SMT
<1>5. \A i \in 1 .. Len(s) : IsSeq(s[i].undo) /\ s[i].skip \in Nat
  BY <1>2, MultiGlobalmemSteps, StepFields, SMT DEF Label
<1>6. ExitClears("multi_globalmem", {}, s)
  BY MultiGlobalmemSteps, StepFields, ProgramOf, InParts, SMT DEF ExitClears, Gets,
     Frees, UnloadMultiGlobalmem, Kept, MayStay, Forgotten
<1>7. PutsLast(s)
  BY MultiGlobalmemSteps, StepFields, SMT DEF PutsLast
<1>8. "multi_globalmem" \notin Leds /\ \A i \in 1 .. Len(s) : s[i].get \notin Foreign("multi_globalmem")
  BY MultiGlobalmemSteps, StepFields, SMT DEF Foreign, Leds
<1>. QED BY <1>1, <1>4, <1>5, <1>6, <1>7, <1>8, LoadsNoLed, Zenon

LEMMA MultiGlobalmemUnloads == Unloads("multi_globalmem", UnloadMultiGlobalmem)
<1>1. IsSeq(UnloadMultiGlobalmem) /\ LineFirst(UnloadMultiGlobalmem)
  BY InParts, SMT DEF IsSeq, LineFirst, UnloadMultiGlobalmem, GpioClass
<1>2. Ordered(UnloadMultiGlobalmem, Kept("multi_globalmem"))
  BY InParts, SparesIff, SMT DEF Ordered, Kept, MayStay, Forgotten, UnloadMultiGlobalmem, Classes,
     Numbers
<1>3. /\ Frees(UnloadMultiGlobalmem) \cap Foreign("multi_globalmem") = {}
      /\ "gpio_21" \in Frees(UnloadMultiGlobalmem) => "multi_globalmem" \in Leds
  BY InParts, SMT DEF Frees, UnloadMultiGlobalmem, Foreign, Leds
<1>. QED BY <1>1, <1>2, <1>3, Zenon DEF Unloads

LEMMA GlobalmemSteps ==
    /\ Len(LoadGlobalmem) = 17
    /\ LoadGlobalmem[1] = Need("mem", GRClass)
    /\ LoadGlobalmem[2] = Need("region", <<>>)
    /\ LoadGlobalmem[3] = Need("class_globalmem", GRClass)
    /\ LoadGlobalmem[4] = Need("device_globalmem", GRDevice)
    /\ LoadGlobalmem[5] = Need("proc_example", GRDevice)
    /\ LoadGlobalmem[6] = Ignore("proc_file")
    /\ LoadGlobalmem[7] = Ignore("example_sysfs")
    /\ LoadGlobalmem[8] = Need("sysfs_value", GRSysfs)
    /\ LoadGlobalmem[9] = OrDie("wait_thread")
    /\ LoadGlobalmem[10] = OrDie("wait_thread2")
    /\ LoadGlobalmem[11] = Need("irq_11", GIrq)
    /\ LoadGlobalmem[12] = OrDie("thread")
    /\ LoadGlobalmem[13] = Ignore("thread2")
    /\ LoadGlobalmem[14] = Need("tasklet", GIrq)
    /\ LoadGlobalmem[15] = Do("timer")
    /\ LoadGlobalmem[16] = Do("hrtimer")
    /\ LoadGlobalmem[17] = Ignore("mem_cdev")
BY SMT DEF LoadGlobalmem, GRClass

LEMMA GlobalmemLoads == Loads("globalmem", LoadGlobalmem)
<1>. DEFINE s == LoadGlobalmem
<1>1. IsSeq(s)
  BY SMT DEF IsSeq, LoadGlobalmem
<1>2. /\ Label("globalmem", {"mem", "region"}, GRClass)
      /\ Label("globalmem", {"mem"}, <<>>)
      /\ Label("globalmem", {"mem", "region", "class_globalmem", "device_globalmem"}, GRDevice)
      /\ Label("globalmem", {"mem", "region", "class_globalmem", "device_globalmem",
                    "proc_example", "proc_file", "example_sysfs"}, GRSysfs)
      /\ Label("globalmem", {"mem", "region", "class_globalmem", "device_globalmem",
                    "proc_example", "proc_file", "example_sysfs", "sysfs_value",
                    "wait_thread", "wait_thread2", "irq_11", "thread", "thread2"}, GIrq)
  <2>1. Label("globalmem", {"mem", "region"}, GRClass)
    BY GlobalmemLabels, InParts, SparesIff, SMT DEF Label, IsSeq, LineFirst, Frees,
       Foreign, Leds, GpioClass, Forgotten, Ordered, Classes, Numbers, GRClass
  <2>2. Label("globalmem", {"mem"}, <<>>)
    BY GlobalmemLabels, InParts, SparesIff, SMT DEF Label, IsSeq, LineFirst, Frees,
       Foreign, Leds, GpioClass, Forgotten, Ordered, Classes, Numbers, GRClass
  <2>3. Label("globalmem", {"mem", "region", "class_globalmem", "device_globalmem"}, GRDevice)
    BY GlobalmemLabels, InParts, SparesIff, SMT DEF Label, IsSeq, LineFirst, Frees,
       Foreign, Leds, GpioClass, Forgotten, Ordered, Classes, Numbers, GRClass
  <2>4. Label("globalmem", {"mem", "region", "class_globalmem", "device_globalmem",
                    "proc_example", "proc_file", "example_sysfs"}, GRSysfs)
    BY GlobalmemLabels, InParts, SparesIff, SMT DEF Label, IsSeq, LineFirst, Frees,
       Foreign, Leds, GpioClass, Forgotten, Ordered, Classes, Numbers, GRClass
  <2>5. Label("globalmem", {"mem", "region", "class_globalmem", "device_globalmem",
                    "proc_example", "proc_file", "example_sysfs", "sysfs_value",
                    "wait_thread", "wait_thread2", "irq_11", "thread", "thread2"}, GIrq)
    BY GlobalmemLabels, InParts, SparesIff, SMT DEF Label, IsSeq, LineFirst, Frees,
       Foreign, Leds, GpioClass, Forgotten, Ordered, Classes, Numbers, GRClass
  <2>. QED BY <2>1, <2>2, <2>3, <2>4, <2>5
<1>3. /\ Reach({}, s, 1) \subseteq {}
      /\ Reach({}, s, 2) \subseteq {"mem"}
      /\ Reach({}, s, 3) \subseteq {"mem", "region"}
      /\ Reach({}, s, 4) \subseteq {"mem", "region", "class_globalmem"}
      /\ Reach({}, s, 5) \subseteq {"mem", "region", "class_globalmem", "device_globalmem"}
      /\ Reach({}, s, 8) \subseteq {"mem", "region", "class_globalmem", "device_globalmem",
               "proc_example", "proc_file", "example_sysfs"}
      /\ Reach({}, s, 11) \subseteq {"mem", "region", "class_globalmem", "device_globalmem",
               "proc_example", "proc_file", "example_sysfs", "sysfs_value",
               "wait_thread", "wait_thread2"}
      /\ Reach({}, s, 14) \subseteq {"mem", "region", "class_globalmem", "device_globalmem",
               "proc_example", "proc_file", "example_sysfs", "sysfs_value",
               "wait_thread", "wait_thread2", "irq_11", "thread", "thread2"}
  BY GlobalmemSteps, StepFields, SMT DEF Reach
<1>4. ASSUME NEW i \in 1 .. Len(s), s[i].fails = "undo"
      PROVE  Label("globalmem", Reach({}, s, i), s[i].undo)
  <2>1. i \in {1, 2, 3, 4, 5, 8, 11, 14}
    BY <1>4, GlobalmemSteps, StepFields, SMT
  <2>. QED BY <1>2, <1>3, <2>1, GlobalmemSteps, StepFields, FitsLess, SMT
<1>5. \A i \in 1 .. Len(s) : IsSeq(s[i].undo) /\ s[i].skip \in Nat
  BY <1>2, GlobalmemSteps, StepFields, SMT DEF Label
<1>6. ExitClears("globalmem", {}, s)
  BY GlobalmemSteps, StepFields, ProgramOf, InParts, SMT DEF ExitClears, Gets, Frees,
     UnloadGlobalmem, Kept, MayStay, Forgotten
<1>7. PutsLast(s)
  BY GlobalmemSteps, StepFields, SMT DEF PutsLast
<1>8. "globalmem" \notin Leds /\ \A i \in 1 .. Len(s) : s[i].get \notin Foreign("globalmem")
  BY GlobalmemSteps, StepFields, SMT DEF Foreign, Leds
<1>. QED BY <1>1, <1>4, <1>5, <1>6, <1>7, <1>8, LoadsNoLed, Zenon

LEMMA GlobalmemUnloads == Unloads("globalmem", UnloadGlobalmem)
<1>1. IsSeq(UnloadGlobalmem) /\ LineFirst(UnloadGlobalmem)
  BY InParts, SMT DEF IsSeq, LineFirst, UnloadGlobalmem, GpioClass
<1>2. Ordered(UnloadGlobalmem, Kept("globalmem"))
  BY InParts, SparesIff, SMT DEF Ordered, Kept, MayStay, Forgotten, UnloadGlobalmem, Classes,
     Numbers
<1>3. /\ Frees(UnloadGlobalmem) \cap Foreign("globalmem") = {}
      /\ "gpio_21" \in Frees(UnloadGlobalmem) => "globalmem" \in Leds
  BY InParts, SMT DEF Frees, UnloadGlobalmem, Foreign, Leds
<1>. QED BY <1>1, <1>2, <1>3, Zenon DEF Unloads

LEMMA OledSpiSteps ==
    /\ Len(LoadOledSpi) = 5
    /\ LoadOledSpi[1] = Need("spi_master", <<>>)
    /\ LoadOledSpi[2] = Need("spi_device", <<>>)
    /\ LoadOledSpi[3] = Need("spi_setup", <<"spi_device">>)
    /\ LoadOledSpi[4] = Without("gpio_24", <<>>, 1)
    /\ LoadOledSpi[5] = Without("gpio_23", <<"gpio_24">>, 0)
BY SMT DEF LoadOledSpi

LEMMA OledSpiLoads == Loads("oled_spi", LoadOledSpi)
<1>. DEFINE s == LoadOledSpi
<1>1. IsSeq(s)
  BY SMT DEF IsSeq, LoadOledSpi
<1>2. /\ Label("oled_spi", {"spi_master"}, <<>>)
      /\ Label("oled_spi", {"spi_master", "spi_device"}, <<"spi_device">>)
  BY InParts, SparesIff, SMT DEF Label, IsSeq, LineFirst, Frees, Foreign, Leds,
     GpioClass, Forgotten, Ordered, Classes, Numbers
<1>3. /\ Reach({}, s, 1) \subseteq {}
      /\ Reach({}, s, 2) \subseteq {"spi_master"}
      /\ Reach({}, s, 3) \subseteq {"spi_master", "spi_device"}
  BY OledSpiSteps, StepFields, SMT DEF Reach
<1>4. ASSUME NEW i \in 1 .. Len(s), s[i].fails = "undo"
      PROVE  Label("oled_spi", Reach({}, s, i), s[i].undo)
  <2>1. i \in {1, 2, 3}
    BY <1>4, OledSpiSteps, StepFields, SMT
  <2>. QED BY <1>2, <1>3, <2>1, OledSpiSteps, StepFields, FitsLess, SMT
<1>5. \A i \in 1 .. Len(s) : IsSeq(s[i].undo) /\ s[i].skip \in Nat
  <2>1. IsSeq(<<"gpio_24">>)
    BY SMT DEF IsSeq
  <2>. QED BY <1>2, <2>1, OledSpiSteps, StepFields, SMT DEF Label
<1>6. ExitClears("oled_spi", {}, s)
  BY OledSpiSteps, StepFields, ProgramOf, InParts, SMT DEF ExitClears, Gets, Frees,
     UnloadOledSpi, Kept, MayStay, Forgotten
<1>7. PutsLast(s)
  BY OledSpiSteps, StepFields, SMT DEF PutsLast
<1>8. "oled_spi" \notin Leds /\ \A i \in 1 .. Len(s) : s[i].get \notin Foreign("oled_spi")
  BY OledSpiSteps, StepFields, SMT DEF Foreign, Leds
<1>. QED BY <1>1, <1>4, <1>5, <1>6, <1>7, <1>8, LoadsNoLed, Zenon

LEMMA OledSpiUnloads == Unloads("oled_spi", UnloadOledSpi)
<1>1. IsSeq(UnloadOledSpi) /\ LineFirst(UnloadOledSpi)
  BY InParts, SMT DEF IsSeq, LineFirst, UnloadOledSpi, GpioClass
<1>2. Ordered(UnloadOledSpi, Kept("oled_spi"))
  BY InParts, SparesIff, SMT DEF Ordered, Kept, MayStay, Forgotten, UnloadOledSpi, Classes,
     Numbers
<1>3. /\ Frees(UnloadOledSpi) \cap Foreign("oled_spi") = {}
      /\ "gpio_21" \in Frees(UnloadOledSpi) => "oled_spi" \in Leds
  BY InParts, SMT DEF Frees, UnloadOledSpi, Foreign, Leds
<1>. QED BY <1>1, <1>2, <1>3, Zenon DEF Unloads

LEMMA OledI2cSteps ==
    /\ Len(LoadOledI2c) = 4
    /\ LoadOledI2c[1] = Need("adapter", <<>>)
    /\ LoadOledI2c[2] = Ignore("i2c_client")
    /\ LoadOledI2c[3] = Ignore("i2c_driver")
    /\ LoadOledI2c[4] = Put("adapter")
BY SMT DEF LoadOledI2c

LEMMA OledI2cLoads == Loads("oled_i2c", LoadOledI2c)
<1>. DEFINE s == LoadOledI2c
<1>1. IsSeq(s)
  BY SMT DEF IsSeq, LoadOledI2c
<1>2. Label("oled_i2c", {}, <<>>)
  BY InParts, SparesIff, SMT DEF Label, IsSeq, LineFirst, Frees, Foreign, Leds,
     GpioClass, Forgotten, Ordered, Classes, Numbers
<1>3. Reach({}, s, 1) \subseteq {}
  BY OledI2cSteps, StepFields, SMT DEF Reach
<1>4. ASSUME NEW i \in 1 .. Len(s), s[i].fails = "undo"
      PROVE  Label("oled_i2c", Reach({}, s, i), s[i].undo)
  <2>1. i = 1
    BY <1>4, OledI2cSteps, StepFields, SMT
  <2>. QED BY <1>2, <1>3, <2>1, OledI2cSteps, StepFields, FitsLess, SMT
<1>5. \A i \in 1 .. Len(s) : IsSeq(s[i].undo) /\ s[i].skip \in Nat
  BY <1>2, OledI2cSteps, StepFields, SMT DEF Label
<1>6. ExitClears("oled_i2c", {}, s)
  BY OledI2cSteps, StepFields, ProgramOf, InParts, SMT DEF ExitClears, Gets, Frees,
     UnloadOledI2c, Kept, MayStay, Forgotten
<1>7. PutsLast(s)
  BY OledI2cSteps, StepFields, SMT DEF PutsLast
<1>8. "oled_i2c" \notin Leds /\ \A i \in 1 .. Len(s) : s[i].get \notin Foreign("oled_i2c")
  BY OledI2cSteps, StepFields, SMT DEF Foreign, Leds
<1>. QED BY <1>1, <1>4, <1>5, <1>6, <1>7, <1>8, LoadsNoLed, Zenon

LEMMA OledI2cUnloads == Unloads("oled_i2c", UnloadOledI2c)
<1>1. IsSeq(UnloadOledI2c) /\ LineFirst(UnloadOledI2c)
  BY InParts, SMT DEF IsSeq, LineFirst, UnloadOledI2c, GpioClass
<1>2. Ordered(UnloadOledI2c, Kept("oled_i2c"))
  BY InParts, SparesIff, SMT DEF Ordered, Kept, MayStay, Forgotten, UnloadOledI2c, Classes,
     Numbers
<1>3. /\ Frees(UnloadOledI2c) \cap Foreign("oled_i2c") = {}
      /\ "gpio_21" \in Frees(UnloadOledI2c) => "oled_i2c" \in Leds
  BY InParts, SMT DEF Frees, UnloadOledI2c, Foreign, Leds
<1>. QED BY <1>1, <1>2, <1>3, Zenon DEF Unloads

LEMMA UioLoads == Loads("uio", LoadUio)
<1>. DEFINE s == LoadUio
<1>1. IsSeq(s)
  BY SMT DEF IsSeq, LoadUio, UioProbe
<1>2. /\ Label("uio", {"platform_device"}, <<>>)
  BY InParts, SparesIff, SMT DEF Label, IsSeq, LineFirst, Frees, Foreign, Leds,
     GpioClass, Forgotten, Ordered, Classes, Numbers
<1>3. /\ Reach({}, s, 2) \subseteq {"platform_device"}
  BY UioSteps, StepFields, SMT DEF Reach
<1>4. ASSUME NEW i \in 1 .. Len(s), s[i].fails = "undo"
      PROVE  Label("uio", Reach({}, s, i), s[i].undo)
  <2>1. i \in {2}
    BY <1>4, UioSteps, StepFields, SMT
  <2>. QED BY <1>2, <1>3, <2>1, UioSteps, StepFields, FitsLess, SMT
<1>5. \A i \in 1 .. Len(s) : IsSeq(s[i].undo) /\ s[i].skip \in Nat
  <2>1. IsSeq(<<"uio_dev">>)
    BY SMT DEF IsSeq
  <2>. QED BY <1>2, <2>1, UioSteps, StepFields, SMT DEF Label
<1>6. ExitClears("uio", {}, s)
  BY UioSteps, StepFields, ProgramOf, InParts, SMT DEF ExitClears, Gets, Frees,
     UnloadUio, Kept, MayStay, Forgotten
<1>7. PutsLast(s)
  BY UioSteps, StepFields, SMT DEF PutsLast
<1>8. "uio" \notin Leds /\ \A i \in 1 .. Len(s) : s[i].get \notin Foreign("uio")
  BY UioSteps, StepFields, SMT DEF Foreign, Leds
<1>9. Rest(s, LoadUio) /\ UioHolds({}, Len(s))
  BY UioSteps, SMT DEF Rest, UioHolds
<1>. QED BY <1>1, <1>4, <1>5, <1>6, <1>7, <1>8, <1>9, LoadsNoLed, Zenon

LEMMA UioUnloads == Unloads("uio", UnloadUio)
<1>1. IsSeq(UnloadUio) /\ LineFirst(UnloadUio)
  BY InParts, SMT DEF IsSeq, LineFirst, UnloadUio, GpioClass
<1>2. Ordered(UnloadUio, Kept("uio"))
  BY InParts, SparesIff, SMT DEF Ordered, Kept, MayStay, Forgotten, UnloadUio, Classes, Numbers
<1>3. /\ Frees(UnloadUio) \cap Foreign("uio") = {}
      /\ "gpio_21" \in Frees(UnloadUio) => "uio" \in Leds
  BY InParts, SMT DEF Frees, UnloadUio, Foreign, Leds
<1>. QED BY <1>1, <1>2, <1>3, Zenon DEF Unloads

\* The programs of the source are sound, each of them.
LEMMA ProgramsSound ==
    \A d \in DOMAIN InitOf : Loads(d, InitOf[d]) /\ Unloads(d, ExitOf[d])
<1>. SUFFICES ASSUME NEW d \in DOMAIN InitOf
              PROVE  Loads(d, InitOf[d]) /\ Unloads(d, ExitOf[d])
  OBVIOUS
<1>1. CASE d = "hello"
  BY <1>1, HelloLoads, HelloUnloads, ProgramOf, Zenon
<1>2. CASE d = "simple_timer"
  BY <1>2, SimpleTimerLoads, SimpleTimerUnloads, ProgramOf, Zenon
<1>3. CASE d = "gpio_driver"
  BY <1>3, GpioDriverLoads, GpioDriverUnloads, ProgramOf, Zenon
<1>4. CASE d = "gpio_irq"
  BY <1>4, GpioIrqLoads, GpioIrqUnloads, ProgramOf, Zenon
<1>5. CASE d = "second"
  BY <1>5, SecondLoads, SecondUnloads, ProgramOf, Zenon
<1>6. CASE d = "globalfifo"
  BY <1>6, GlobalfifoLoads, GlobalfifoUnloads, ProgramOf, Zenon
<1>7. CASE d = "multi_globalmem"
  BY <1>7, MultiGlobalmemLoads, MultiGlobalmemUnloads, ProgramOf, Zenon
<1>8. CASE d = "globalmem"
  BY <1>8, GlobalmemLoads, GlobalmemUnloads, ProgramOf, Zenon
<1>9. CASE d = "oled_spi"
  BY <1>9, OledSpiLoads, OledSpiUnloads, ProgramOf, Zenon
<1>10. CASE d = "oled_i2c"
  BY <1>10, OledI2cLoads, OledI2cUnloads, ProgramOf, Zenon
<1>11. CASE d = "uio"
  BY <1>11, UioLoads, UioUnloads, ProgramOf, Zenon
<1>. QED BY <1>1, <1>2, <1>3, <1>4, <1>5, <1>6, <1>7, <1>8, <1>9, <1>10, <1>11, ProgramOf, Zenon

-----------------------------------------------------------------------------
(* The rest of a program, and what holds of it when the first step is over. *)

\* t is what is left of s when its first k steps are done.
IsRest(t, s, k) ==
    /\ IsSeq(t) /\ Len(t) \in Nat
    /\ IsSeq(s) /\ Len(s) \in Nat
    /\ Len(t) = IF k <= Len(s) THEN Len(s) - k ELSE 0
    /\ \A i \in 1 .. Len(t) : i + k \in 1 .. Len(s) /\ t[i] = s[i + k]

LEMMA SeqIsSeq ==
    ASSUME NEW S, NEW s \in Seq(S)
    PROVE  IsSeq(s)
BY SMT DEF IsSeq

LEMMA SubSeqIsRest ==
    ASSUME NEW S, NEW s \in Seq(S), s # <<>>, NEW k \in Nat
    PROVE  IsRest(SubSeq(s, 1 + k, Len(s)), s, k)
<1>1. IsSeq(s) /\ Len(s) \in Nat
  BY SeqIsSeq, SMT
<1>2. CASE k <= Len(s)
  <2>1. /\ SubSeq(s, 1 + k, Len(s)) \in Seq(S)
        /\ Len(SubSeq(s, 1 + k, Len(s))) = Len(s) - k
        /\ \A i \in 1 .. Len(s) - k : SubSeq(s, 1 + k, Len(s))[i] = s[i + k]
    BY <1>2, SMT
  <2>2. IsSeq(SubSeq(s, 1 + k, Len(s)))
    BY <2>1, SeqIsSeq, Zenon
  <2>. QED BY <1>1, <1>2, <2>1, <2>2, SMT DEF IsRest
<1>3. CASE k > Len(s)
  <2>1. SubSeq(s, 1 + k, Len(s)) \in Seq(S) /\ Len(SubSeq(s, 1 + k, Len(s))) = 0
    BY <1>3, SMT
  <2>2. IsSeq(SubSeq(s, 1 + k, Len(s)))
    BY <2>1, SeqIsSeq, Zenon
  <2>. QED BY <1>1, <1>3, <2>1, <2>2, SMT DEF IsRest
<1>. QED BY <1>2, <1>3, SMT

LEMMA TailIsRest ==
    ASSUME NEW S, NEW s \in Seq(S), s # <<>>
    PROVE  IsRest(Tail(s), s, 1)
<1>1. IsSeq(s) /\ Len(s) \in Nat /\ Len(s) >= 1
  BY SeqIsSeq, SMT
<1>2. /\ Tail(s) \in Seq(S) /\ Len(Tail(s)) = Len(s) - 1
      /\ \A i \in 1 .. Len(s) - 1 : Tail(s)[i] = s[i + 1]
  BY <1>1, SMT
<1>3. IsSeq(Tail(s))
  BY <1>2, SeqIsSeq, Zenon
<1>. QED BY <1>1, <1>2, <1>3, SMT DEF IsRest

LEMMA RestFacts ==
    ASSUME NEW s, NEW t, NEW k \in Nat, IsRest(t, s, k)
    PROVE  /\ IsSeq(t) /\ Len(t) \in Nat
           /\ IsSeq(s) /\ Len(s) \in Nat
           /\ \A i \in 1 .. Len(t) : i \in Nat /\ i + k \in 1 .. Len(s) /\ t[i] = s[i + k]
BY SMT DEF IsRest

\* What is known of a program is known of each rest of it.
LEMMA RestIsProgram ==
    ASSUME NEW s, NEW t, NEW k \in Nat, k >= 1, IsProgram(s), IsRest(t, s, k)
    PROVE  IsProgram(t)
<1>1. IsSeq(t) /\ \A i \in 1 .. Len(t) : i + k \in 1 .. Len(s) /\ t[i] = s[i + k]
  BY Zenon DEF IsRest
<1>. QED BY <1>1, Zenon DEF IsProgram

LEMMA RestLabels ==
    ASSUME NEW d, NEW h, NEW s, NEW t, NEW k \in Nat, k >= 1, IsRest(t, s, k), s # <<>>,
           LabelsClear(d, h, s), NEW g, g \subseteq h \cup {s[1].get}
    PROVE  LabelsClear(d, g, t)
<1>. SUFFICES ASSUME NEW i \in 1 .. Len(t), t[i].fails = "undo"
              PROVE  /\ Reach(g, t, i) \subseteq Frees(t[i].undo) \cup Forgotten(d)
                     /\ d # "globalmem" => Ordered(t[i].undo, Forgotten(d))
  BY Zenon DEF LabelsClear
<1>1. i + k \in 1 .. Len(s) /\ t[i] = s[i + k] /\ i \in 1 .. Len(t)
  BY RestFacts, SMT
<1>2. Reach(h, s, i + k) \subseteq Frees(t[i].undo) \cup Forgotten(d)
  BY <1>1, Zenon DEF LabelsClear
<1>3. Reach(g, t, i) \subseteq Reach(h, s, i + k)
  <2>1. ASSUME NEW j \in 1 .. i - 1
        PROVE  t[j].get \in {s[l].get : l \in 1 .. i + k - 1}
    <3>1. j \in 1 .. Len(t) /\ j \in Nat
      BY <1>1, RestFacts, SMT
    <3>2. t[j] = s[j + k]
      BY <3>1, RestFacts, Zenon
    <3>3. j + k \in 1 .. i + k - 1
      BY <1>1, <3>1, SMT
    <3>. QED BY <3>2, <3>3, Zenon
  <2>2. s[1].get \in {s[l].get : l \in 1 .. i + k - 1}
    <3>1. 1 \in 1 .. i + k - 1
      BY <1>1, SMT
    <3>. QED BY <3>1, Zenon
  <2>. QED BY <2>1, <2>2, SMT DEF Reach
<1>. QED BY <1>1, <1>2, <1>3, Zenon DEF LabelsClear

LEMMA RestPuts ==
    ASSUME NEW s, NEW t, NEW k \in Nat, k >= 1, IsRest(t, s, k), PutsLast(s)
    PROVE  PutsLast(t)
<1>1. \A i \in 1 .. Len(t) : i + k \in 1 .. Len(s) /\ t[i] = s[i + k]
  BY Zenon DEF IsRest
<1>2. \A i, j \in 1 .. Len(t) : i < j => i + k < j + k
  BY SMT DEF IsRest
<1>3. ASSUME NEW i \in 1 .. Len(t), NEW j \in 1 .. Len(t), t[i].fails = "put"
      PROVE  (i < j => t[j].get # t[i].get) /\ t[j].skip = 0
  <2>1. i + k \in 1 .. Len(s) /\ j + k \in 1 .. Len(s) /\ t[i] = s[i + k] /\ t[j] = s[j + k]
    BY <1>1, Zenon
  <2>2. s[i + k].fails = "put"
    BY <1>3, <2>1, Zenon
  <2>. QED BY <1>2, <2>1, <2>2, Zenon DEF PutsLast
<1>. QED BY <1>3, Zenon DEF PutsLast

LEMMA RestExit ==
    ASSUME NEW d, NEW h, NEW s, NEW t, NEW k \in Nat, k >= 1, IsRest(t, s, k), s # <<>>,
           ExitClears(d, h, s), NEW g, g \subseteq h \cup {s[1].get},
           \/ \A i \in 1 .. Len(s) : s[i].fails # "put"
           \/ k = 1 /\ s[1].fails # "put"
           \/ k = 1 /\ PutsLast(s) /\ s[1].get \notin g
    PROVE  ExitClears(d, g, t)
<1>. SUFFICES ASSUME d # "uio", NEW r \in g \cup Gets(t), r \notin Frees(ExitOf[d]) \cup Kept(d)
              PROVE  \E i \in 1 .. Len(t) : t[i].fails = "put" /\ t[i].get = r
  BY Zenon DEF ExitClears
<1>1. Len(s) \in Nat /\ Len(t) \in Nat /\ Len(t) = IF k <= Len(s) THEN Len(s) - k ELSE 0
  BY DEF IsRest
<1>2. \A i \in 1 .. Len(t) : i + k \in 1 .. Len(s) /\ t[i] = s[i + k]
  BY Zenon DEF IsRest
<1>3. Len(s) >= 1 /\ 1 \in 1 .. Len(s)
  <2>1. Len(s) # 0
    BY SMT DEF IsRest, IsSeq
  <2>. QED BY <1>1, <2>1, SMT
<1>4. r \in h \cup Gets(s)
  <2>1. CASE r \in Gets(t)
    <3>1. PICK i \in 1 .. Len(t) : r = t[i].get
      BY <2>1, Zenon DEF Gets
    <3>2. i + k \in 1 .. Len(s) /\ r = s[i + k].get
      BY <1>2, <3>1, Zenon
    <3>. QED BY <3>2, Zenon DEF Gets
  <2>2. CASE r \in g
    <3>1. r \in h \/ r = s[1].get
      BY <2>2, Zenon
    <3>. QED BY <1>3, <3>1, Zenon DEF Gets
  <2>. QED BY <2>1, <2>2
<1>5. PICK i \in 1 .. Len(s) : s[i].fails = "put" /\ s[i].get = r
  BY <1>4, Zenon DEF ExitClears
<1>6. k = 1 /\ i # 1
  <2>1. CASE \A j \in 1 .. Len(s) : s[j].fails # "put"
    BY <1>5, <2>1, Zenon
  <2>2. CASE k = 1 /\ s[1].fails # "put"
    BY <1>5, <2>2, Zenon
  <2>3. CASE k = 1 /\ PutsLast(s) /\ s[1].get \notin g
    <3>1. SUFFICES ASSUME i = 1
                   PROVE  FALSE
      BY <2>3
    <3>2. PICK j \in 1 .. Len(t) : t[j].get = r
      BY <1>5, <2>3, <3>1, Zenon DEF Gets
    <3>3. j + 1 \in 1 .. Len(s) /\ s[j + 1].get = r /\ 1 < j + 1
      BY <1>2, <2>3, <3>2, SMT
    <3>. QED BY <1>3, <1>5, <2>3, <3>1, <3>3, Zenon DEF PutsLast
  <2>. QED BY <2>1, <2>2, <2>3
<1>7. i - 1 \in 1 .. Len(t) /\ (i - 1) + k = i
  BY <1>1, <1>6, SMT
<1>. QED BY <1>2, <1>5, <1>7, Zenon

LEMMA RestClass ==
    ASSUME NEW h, NEW s, NEW t, IsRest(t, s, 1), s # <<>>,
           NEW g, \/ h \cup {s[1].get} \subseteq g
                  \/ h \subseteq g /\ s[1].fails # "undo",
           NEW i \in 1 .. Len(t) + 1, ClassBefore(h, s, i + 1)
    PROVE  ClassBefore(g, t, i)
<1>1. CASE GpioClass \in h
  BY <1>1, Zenon DEF ClassBefore
<1>2. CASE \E j \in 1 .. i : s[j].get = GpioClass /\ s[j].fails = "undo"
  <2>1. PICK j \in 1 .. i : s[j].get = GpioClass /\ s[j].fails = "undo"
    BY <1>2
  <2>2. CASE j = 1
    BY <2>1, <2>2, Zenon DEF ClassBefore
  <2>3. CASE j # 1
    <3>1. Len(t) \in Nat /\ \A l \in 1 .. Len(t) : t[l] = s[l + 1]
      BY Zenon DEF IsRest
    <3>2. (j - 1) + 1 = j /\ j - 1 \in 1 .. i - 1 /\ j - 1 \in 1 .. Len(t)
      BY <2>3, <3>1, SMT
    <3>3. t[j - 1] = s[j]
      BY <3>1, <3>2, Zenon
    <3>. QED BY <2>1, <3>2, <3>3, Zenon DEF ClassBefore
  <2>. QED BY <2>1, <2>2, <2>3
<1>. QED BY <1>1, <1>2, SMT DEF ClassBefore

\* What d holds when the first step of s, which it began with h, is over.
StepEnds(h, s, g, k) ==
    \/ k = 1 /\ s[1].fails # "put" /\ g = h \cup {s[1].get}
    \/ k = 1 + s[1].skip /\ s[1].fails = "ignored" /\ g = h \ ToSet(s[1].undo)
    \/ k = 1 /\ s[1].fails = "put" /\ g = h \ {s[1].get}

LEMMA RestLines ==
    ASSUME NEW d, NEW h, NEW s, NEW t, NEW g, NEW k \in Nat, k >= 1, IsRest(t, s, k), s # <<>>,
           LinesGuarded(d, h, s), StepEnds(h, s, g, k)
    PROVE  LinesGuarded(d, g, t)
<1>1. \A i \in 1 .. Len(t) : i + k \in 1 .. Len(s) /\ t[i] = s[i + k]
  BY Zenon DEF IsRest
<1>2. 1 \in 1 .. Len(s)
  BY SMT DEF IsRest, IsSeq
<1>3. g \subseteq h \cup {s[1].get}
  BY Zenon DEF StepEnds
<1>4. (g \cup Gets(t)) \cap Foreign(d) = {}
  <2>1. Gets(t) \subseteq Gets(s)
    <3>. SUFFICES ASSUME NEW i \in 1 .. Len(t)
                  PROVE  t[i].get \in Gets(s)
      BY Zenon DEF Gets
    <3>. QED BY <1>1, Zenon DEF Gets
  <2>2. s[1].get \in Gets(s)
    BY <1>2, Zenon DEF Gets
  <2>3. (h \cup Gets(s)) \cap Foreign(d) = {}
    BY Zenon DEF LinesGuarded
  <2>. QED BY <1>3, <2>1, <2>2, <2>3, SMT
<1>5. CASE d \notin Leds
  <2>1. "gpio_21" \in Foreign(d)
    BY <1>5, SMT DEF Foreign
  <2>2. "gpio_21" \notin g /\ "gpio_21" \notin Gets(t)
    BY <1>4, <2>1, Zenon
  <2>3. ASSUME NEW i \in 1 .. Len(t)
        PROVE  /\ t[i].get # "gpio_21"
               /\ t[i].fails = "undo" =>
                      /\ LineFirst(t[i].undo)
                      /\ Frees(t[i].undo) \cap Foreign(d) = {}
                      /\ "gpio_21" \notin Frees(t[i].undo)
    <3>1. t[i].get # "gpio_21"
      BY <2>2, Zenon DEF Gets
    <3>2. ASSUME t[i].fails = "undo"
          PROVE  LineFirst(t[i].undo) /\ Frees(t[i].undo) \cap Foreign(d) = {}
      BY <1>1, <3>2, Zenon DEF LinesGuarded
    <3>. QED BY <2>1, <3>1, <3>2, Zenon
  <2>. QED BY <1>4, <1>5, <2>2, <2>3, Zenon DEF LinesGuarded
<1>6. CASE d \in Leds
  <2>1. k = 1 /\ (h \cup {s[1].get} \subseteq g \/ (h \subseteq g /\ s[1].fails # "undo"))
    <3>1. s[1].fails # "put" /\ s[1].skip = 0 /\ (s[1].fails = "undo" \/ s[1].undo = <<>>)
      BY <1>2, <1>6, Zenon DEF LinesGuarded
    <3>2. ToSet(<<>>) = {}
      BY SMT DEF ToSet
    <3>3. CASE s[1].fails = "ignored" /\ k = 1 + s[1].skip /\ g = h \ ToSet(s[1].undo)
      <4>1. s[1].undo = <<>>
        BY <3>1, <3>3, Zenon
      <4>2. g = h
        BY <3>2, <3>3, <4>1, Zenon
      <4>. QED BY <3>1, <3>3, <4>2, SMT
    <3>4. CASE k = 1 /\ g = h \cup {s[1].get}
      BY <3>4, SMT
    <3>. QED BY <3>1, <3>3, <3>4, Zenon DEF StepEnds
  <2>2. ASSUME NEW i \in 1 .. Len(t) + 1, ClassBefore(h, s, i + 1)
        PROVE  ClassBefore(g, t, i)
    BY <2>1, <2>2, RestClass, Zenon
  <2>3. "gpio_21" \in g => GpioClass \in g
    <3>1. s[1].get = "gpio_21" => GpioClass \in h
      <4>1. ASSUME s[1].get = "gpio_21"
            PROVE  ClassBefore(h, s, 1)
        BY <1>2, <4>1, Zenon DEF LinesGuarded
      <4>2. ~ \E j \in 1 .. 1 - 1 : TRUE
        BY SMT
      <4>. QED BY <4>1, <4>2, Zenon DEF ClassBefore
    <3>2. "gpio_21" \in h => GpioClass \in h
      BY Zenon DEF LinesGuarded
    <3>. QED BY <1>3, <2>1, <3>1, <3>2, Zenon
  <2>4. ASSUME NEW i \in 1 .. Len(t)
        PROVE  /\ t[i].fails # "put" /\ t[i].skip = 0 /\ (t[i].fails = "undo" \/ t[i].undo = <<>>)
               /\ t[i].get = "gpio_21" => ClassBefore(g, t, i)
               /\ t[i].fails = "undo" =>
                      /\ LineFirst(t[i].undo)
                      /\ Frees(t[i].undo) \cap Foreign(d) = {}
                      /\ "gpio_21" \in Frees(t[i].undo) => ClassBefore(g, t, i)
    <3>1. i + 1 \in 1 .. Len(s) /\ t[i] = s[i + 1] /\ i \in 1 .. Len(t) + 1
      <4>1. i \in 1 .. Len(t) + 1
        BY SMT DEF IsRest
      <4>. QED BY <1>1, <2>1, <4>1, Zenon
    <3>2. ClassBefore(h, s, i + 1) => ClassBefore(g, t, i)
      BY <2>2, <3>1, Zenon
    <3>. QED BY <1>6, <3>1, <3>2, Zenon DEF LinesGuarded
  <2>5. ClassBefore(g, t, Len(t) + 1)
    <3>1. Len(s) + 1 = (Len(t) + 1) + 1 /\ Len(t) + 1 \in 1 .. Len(t) + 1
      BY <1>2, <2>1, SMT DEF IsRest
    <3>2. ClassBefore(h, s, Len(s) + 1)
      BY <1>6, Zenon DEF LinesGuarded
    <3>. QED BY <2>2, <3>1, <3>2, Zenon
  <2>. QED BY <1>4, <2>3, <2>4, <2>5, Zenon DEF LinesGuarded
<1>. QED BY <1>5, <1>6

LEMMA RestOfUio ==
    ASSUME NEW h, NEW s, NEW t, NEW g, NEW k \in Nat, k >= 1, IsRest(t, s, k), s # <<>>,
           Rest(s, LoadUio), UioHolds(h, Len(s)), StepEnds(h, s, g, k)
    PROVE  Rest(t, LoadUio) /\ UioHolds(g, Len(t))
<1>. DEFINE n == Len(s)
            m == Len(t)
            first == LoadUio[7 - n]
<1>0. Len(LoadUio) = 6
  BY UioSteps
<1>1. n \in 1 .. 6 /\ m = IF k <= n THEN n - k ELSE 0
  <2>1. n # 0
    BY SMT DEF IsRest, IsSeq
  <2>2. n <= 6
    BY <1>0, Zenon DEF Rest
  <2>3. n \in Nat /\ m = IF k <= n THEN n - k ELSE 0
    BY Zenon DEF IsRest
  <2>. HIDE DEF n, m
  <2>. QED BY <2>1, <2>2, <2>3, SMT
<1>2. s[1] = first
  BY <1>1, UioSteps, SMT DEF Rest
<1>3. Rest(t, LoadUio)
  <2>1. ASSUME NEW i \in 1 .. Len(t)
        PROVE  t[i] = LoadUio[Len(LoadUio) - Len(t) + i]
    <3>1. t[i] = s[i + k] /\ i + k \in 1 .. Len(s)
      BY Zenon DEF IsRest
    <3>2. s[i + k] = LoadUio[Len(LoadUio) - Len(s) + (i + k)]
      BY <3>1, Zenon DEF Rest
    <3>3. 6 - n + (i + k) = 6 - m + i
      <4>1. i \in 1 .. m /\ i + k \in 1 .. n
        BY <3>1
      <4>. HIDE DEF n, m
      <4>. QED BY <1>1, <4>1, SMT
    <3>. QED BY <1>0, <3>1, <3>2, <3>3, Zenon
  <2>2. m <= 6
    <3>. HIDE DEF n, m
    <3>. QED BY <1>1, SMT
  <2>. QED BY <1>0, <2>1, <2>2, Zenon DEF Rest
<1>4. UioHolds(g, m)
  <2>. HIDE DEF n, m, first
  <2>0. StepEnds(h, <<first>>, g, k) /\ UioHolds(h, n)
    BY <1>2, SMT DEF StepEnds, n
  <2>1. CASE n = 6
    BY <1>1, <2>0, <2>1, UioSteps, SMT DEF StepEnds, Ignore, Without, UioHolds, first, ToSet
  <2>2. CASE n = 5
    BY <1>1, <2>0, <2>2, UioSteps, SMT DEF StepEnds, Need, UioHolds, first, ToSet
  <2>3. CASE n = 4
    BY <1>1, <2>0, <2>3, UioSteps, SMT DEF StepEnds, Without, UioHolds, first, ToSet
  <2>4. CASE n = 3
    BY <1>1, <2>0, <2>4, UioSteps, SMT DEF StepEnds, OrDie, UioHolds, first, ToSet
  <2>5. CASE n = 2
    BY <1>1, <2>0, <2>5, UioSteps, SMT DEF StepEnds, Without, UioHolds, first, ToSet
  <2>6. CASE n = 1
    BY <1>1, <2>0, <2>6, UioSteps, SMT DEF StepEnds, Ignore, Without, UioHolds, first, ToSet
  <2>. QED BY <1>1, <2>1, <2>2, <2>3, <2>4, <2>5, <2>6, SMT
<1>. QED BY <1>3, <1>4

LEMMA StepKeeps ==
    ASSUME NEW d, NEW h, NEW s, NEW t, NEW g, NEW k \in Nat, k >= 1, IsRest(t, s, k), s # <<>>,
           Initialising(d, h, s), StepEnds(h, s, g, k)
    PROVE  Initialising(d, g, t)
<1>1. g \subseteq h \cup {s[1].get} /\ 1 \in 1 .. Len(s)
  <2>1. g \subseteq h \cup {s[1].get}
    BY Zenon DEF StepEnds
  <2>2. 1 \in 1 .. Len(s)
    BY SMT DEF IsRest, IsSeq
  <2>. QED BY <2>1, <2>2
<1>2. IsProgram(s) /\ LabelsClear(d, h, s) /\ ExitClears(d, h, s) /\ PutsLast(s) /\ LinesGuarded(d, h, s)
  BY Zenon DEF Initialising
<1>3. IsProgram(t)
  BY <1>2, RestIsProgram, Zenon
<1>4. LabelsClear(d, g, t)
  BY <1>1, <1>2, RestLabels, Zenon
<1>5. PutsLast(t)
  BY <1>2, RestPuts, Zenon
<1>6. LinesGuarded(d, g, t)
  BY <1>2, RestLines, Zenon
<1>7. ExitClears(d, g, t)
  <2>1. \/ \A i \in 1 .. Len(s) : s[i].fails # "put"
        \/ k = 1 /\ s[1].fails # "put"
        \/ k = 1 /\ PutsLast(s) /\ s[1].get \notin g
    <3>1. CASE k = 1 + s[1].skip /\ s[1].fails = "ignored"
      <4>1. ASSUME NEW i \in 1 .. Len(s), s[i].fails = "put"
            PROVE  k = 1
        <5>1. s[1].skip = 0
          BY <1>1, <1>2, <4>1, Zenon DEF PutsLast
        <5>. QED BY <3>1, <5>1, SMT
      <4>. QED BY <3>1, <4>1, Zenon
    <3>2. CASE k = 1 /\ s[1].fails = "put" /\ g = h \ {s[1].get}
      BY <1>2, <3>2, Zenon
    <3>. QED BY <3>1, <3>2, Zenon DEF StepEnds
  <2>. QED BY <1>1, <1>2, <2>1, RestExit, Zenon
<1>8. ASSUME d = "uio"
      PROVE  Rest(t, LoadUio) /\ UioHolds(g, Len(t))
  BY <1>8, RestOfUio, Zenon DEF Initialising
<1>. QED BY <1>3, <1>4, <1>5, <1>6, <1>7, <1>8, Zenon DEF Initialising

-----------------------------------------------------------------------------
(* The steps of the drivers. *)

LEMMA SameDriver ==
    ASSUME NEW e, DriverInv(e), phase'[e] = phase[e], todo'[e] = todo[e],
           held'[e] = held[e], leaked'[e] = leaked[e]
    PROVE  DriverInv(e)'
BY Zenon DEF DriverInv, Oopses

\* A GPIO line that another driver has freed by its number.
LEMMA LosesLine ==
    ASSUME NEW e, DriverInv(e), phase'[e] = phase[e], todo'[e] = todo[e], leaked'[e] = leaked[e],
           NEW gone, gone \subseteq ByNumber, held'[e] = held[e] \ gone
    PROVE  DriverInv(e)'
<1>. DEFINE h == held[e]
            g == held'[e]
            s == todo[e]
<1>1. g \subseteq h
  BY Zenon
<1>2. \A r : r \notin ByNumber => (r \in g <=> r \in h)
  BY Zenon
<1>3. GpioClass \notin ByNumber /\ "uio" \notin ByNumber /\ "thread2" \notin ByNumber
  BY SMT DEF GpioClass, ByNumber
<1>4. /\ (GpioClass \in g <=> GpioClass \in h) /\ ("uio" \in g <=> "uio" \in h)
      /\ ("thread2" \in g <=> "thread2" \in h)
  BY <1>2, <1>3, Zenon
<1>5. ASSUME Initialising(e, h, s)
      PROVE  Initialising(e, g, s)
  <2>1. LabelsClear(e, g, s)
    <3>1. \A i \in 1 .. Len(s) : Reach(g, s, i) \subseteq Reach(h, s, i)
      BY <1>1, Zenon DEF Reach
    <3>. QED BY <1>5, <3>1, Zenon DEF Initialising, LabelsClear
  <2>2. ExitClears(e, g, s)
    BY <1>1, <1>5, Zenon DEF Initialising, ExitClears
  <2>3. LinesGuarded(e, g, s)
    <3>1. \A i : ClassBefore(g, s, i) <=> ClassBefore(h, s, i)
      BY <1>4, Zenon DEF ClassBefore
    <3>2. LinesGuarded(e, h, s)
      BY <1>5, Zenon DEF Initialising
    <3>3. (g \cup Gets(s)) \cap Foreign(e) = {}
      BY <1>1, <3>2, Zenon DEF LinesGuarded
    <3>4. "gpio_21" \in g => GpioClass \in g
      BY <1>1, <1>4, <3>2, Zenon DEF LinesGuarded
    <3>. QED BY <3>1, <3>2, <3>3, <3>4, Zenon DEF LinesGuarded
  <2>4. ASSUME e = "uio"
        PROVE  UioHolds(g, Len(s))
    BY <1>1, <1>4, <1>5, <2>4, Zenon DEF Initialising, UioHolds
  <2>. QED BY <1>5, <2>1, <2>2, <2>3, <2>4, Zenon DEF Initialising
<1>6. ASSUME Guarded(e, h, s)
      PROVE  Guarded(e, g, s)
  BY <1>4, <1>6, Zenon DEF Guarded
<1>7. ASSUME UioHolds(h, 0)
      PROVE  UioHolds(g, 0)
  BY <1>1, <1>4, <1>7, Zenon DEF UioHolds
<1>8. Oopses(e)' <=> Oopses(e)
  BY <1>4, Zenon DEF Oopses
<1>. HIDE DEF g, h, s
<1>9. phase'[e] = "out" => held'[e] = {}
  BY <1>1, Zenon DEF DriverInv, g, h
<1>10. phase'[e] = "init" => Initialising(e, held'[e], todo'[e])
  BY <1>5, Zenon DEF DriverInv, g, h, s
<1>11. phase'[e] = "in" =>
          /\ IF e = "uio" THEN UioHolds(g, 0) ELSE g \subseteq Frees(ExitOf[e]) \cup Kept(e)
          /\ g \cap Foreign(e) = {}
          /\ e \in Leds => GpioClass \in g
  BY <1>1, <1>4, <1>7, Zenon DEF DriverInv, h
<1>12. phase'[e] = "undo" =>
          /\ Guarded(e, g, s)
          /\ g \subseteq Frees(s) \cup Forgotten(e)
          /\ e # "globalmem" => Ordered(s, Forgotten(e))
  BY <1>1, <1>6, Zenon DEF DriverInv, h, s
<1>13. phase'[e] = "exit" =>
          /\ Guarded(e, g, s)
          /\ Oopses(e)' \/ g \subseteq Frees(s) \cup Kept(e)
          /\ Ordered(s, Kept(e))
  BY <1>1, <1>6, <1>8, Zenon DEF DriverInv, h, s
<1>14. s = todo'[e] /\ g = held'[e]
  BY DEF s, g
<1>15. leaked'[e] \subseteq Forgotten(e) /\ phase'[e] \in {"out", "init", "undo", "in", "exit", "dead"}
  BY Zenon DEF DriverInv
<1>. QED BY <1>9, <1>10, <1>11, <1>12, <1>13, <1>14, <1>15, Zenon DEF DriverInv

\* A step of d alone.
Alone(d) ==
    \A e \in Drivers : e # d =>
        /\ phase'[e] = phase[e] /\ todo'[e] = todo[e]
        /\ held'[e] = held[e] /\ leaked'[e] = leaked[e]

\* What d holds after the step is nobody else's.
Takes(d) == \A e \in Drivers : e # d => Held(d)' \cap Held(e) \cap Names = {}

LEMMA TakesNothing ==
    ASSUME NEW d \in Drivers, DriversInv, held'[d] \subseteq held[d], leaked'[d] = leaked[d]
    PROVE  Takes(d)
<1>1. Held(d)' \subseteq Held(d)
  BY Zenon DEF Held
<1>. QED BY <1>1, SMT DEF DriversInv, NamesInv, Takes

\* A step of d that touches no other driver's lines keeps the invariant if it keeps d's.
LEMMA AloneKeeps ==
    ASSUME NEW d \in Drivers, DriversInv, Alone(d), Types', DriverInv(d)', Takes(d)
    PROVE  DriversInv'
<1>1. ASSUME NEW e \in Drivers
      PROVE  DriverInv(e)'
  BY <1>1, SameDriver, Zenon DEF DriversInv, Alone
<1>2. \A e \in Drivers : e # d => Held(e)' = Held(e)
  BY Zenon DEF Held, Alone
<1>3. NamesInv'
  BY <1>2, SMT DEF DriversInv, NamesInv, Takes
<1>. QED BY <1>1, <1>3, Zenon DEF DriversInv

LEMMA DriversInit == Init => DriversInv
BY SMT DEF Init, DriversInv, Types, DriverInv, NamesInv, Held

\* One lemma for each action: it preserves the invariant.
LEMMA InsmodInv ==
    ASSUME NEW d \in Drivers, DriversInv, Insmod(d)
    PROVE  DriversInv'
<1>1. Types' /\ Alone(d)
  BY SMT DEF DriversInv, Types, Insmod, Turn, Alone
<1>2. phase'[d] = "init" /\ todo'[d] = InitOf[d] /\ held'[d] = {} /\ leaked'[d] = leaked[d]
  BY SMT DEF DriversInv, Types, DriverInv, Insmod, Turn
<1>3. Initialising(d, {}, InitOf[d])
  BY ProgramsSound, DriversAssumption, Zenon DEF Loads
<1>4. DriverInv(d)'
  BY <1>2, <1>3, SMT DEF DriversInv, DriverInv
<1>5. Takes(d)
  BY <1>2, TakesNothing, Zenon
<1>. QED BY <1>1, <1>4, <1>5, AloneKeeps, Zenon

\* The first step of module_init ends, whichever way, and another follows.
LEMMA ProgramStep ==
    ASSUME NEW d \in Drivers, DriversInv, Types', Alone(d), phase[d] = "init", phase'[d] = "init",
           leaked'[d] = leaked[d], todo[d] # <<>>,
           NEW k \in Nat, k >= 1, IsRest(todo'[d], todo[d], k),
           StepEnds(held[d], todo[d], held'[d], k), Takes(d)
    PROVE  DriversInv'
<1>1. Initialising(d, held[d], todo[d])
  BY Zenon DEF DriversInv, DriverInv
<1>2. Initialising(d, held'[d], todo'[d])
  BY <1>1, StepKeeps, Zenon
<1>3. DriverInv(d)'
  BY <1>2, SMT DEF DriversInv, DriverInv
<1>. QED BY <1>3, AloneKeeps, Zenon

LEMMA ProgramTail ==
    ASSUME NEW s, IsSeq(s), s # <<>>
    PROVE  IsRest(Tail(s), s, 1) /\ Head(s) = s[1]
<1>. DEFINE S == {s[i] : i \in 1 .. Len(s)}
<1>1. s \in Seq(S)
  BY Zenon DEF IsSeq
<1>. HIDE DEF S
<1>. QED BY <1>1, TailIsRest, SMT

LEMMA SucceedInv ==
    ASSUME NEW d \in Drivers, DriversInv, Succeed(d)
    PROVE  DriversInv'
<1>. DEFINE s == todo[d]
<1>1. Types' /\ Alone(d)
  BY SMT DEF DriversInv, Types, Succeed, Advance, Alone
<1>2. /\ phase[d] = "init" /\ phase'[d] = "init" /\ leaked'[d] = leaked[d] /\ s # <<>>
      /\ todo'[d] = Tail(s) /\ held'[d] = held[d] \cup {Head(s).get}
      /\ Head(s).fails # "put"
  BY SMT DEF DriversInv, Types, Succeed, Advance
<1>3. IsSeq(s)
  BY <1>2, Zenon DEF DriversInv, DriverInv, Initialising, IsProgram
<1>4. IsRest(todo'[d], s, 1) /\ Head(s) = s[1]
  BY <1>2, <1>3, ProgramTail, Zenon
<1>5. StepEnds(held[d], s, held'[d], 1)
  BY <1>2, <1>4, Zenon DEF StepEnds
<1>6. Takes(d)
  <2>. DEFINE r == s[1].get
  <2>1. r \in Names => \A e \in Drivers : r \notin Held(e)
    BY <1>4, Zenon DEF Succeed, Possible
  <2>2. Held(d)' = Held(d) \cup {r}
    BY <1>2, <1>4, SMT DEF Held
  <2>. HIDE DEF r
  <2>. QED BY <2>1, <2>2, SMT DEF DriversInv, NamesInv, Takes
<1>7. 1 \in Nat /\ 1 >= 1
  BY SMT
<1>. QED BY <1>1, <1>2, <1>4, <1>5, <1>6, <1>7, ProgramStep, Zenon

LEMMA FailInv ==
    ASSUME NEW d \in Drivers, DriversInv, Fail(d)
    PROVE  DriversInv'
<1>. DEFINE s == todo[d]
            step == Head(s)
<1>1. Types' /\ Alone(d) /\ leaked'[d] = leaked[d]
  BY SMT DEF DriversInv, Types, Fail, Turn, Alone
<1>2. phase[d] = "init" /\ s # <<>> /\ step.fails \in {"undo", "oops", "ignored"}
  BY SMT DEF Fail
<1>3. Initialising(d, held[d], s)
  BY <1>2, Zenon DEF DriversInv, DriverInv
<1>4. IsSeq(s)
  BY <1>3, Zenon DEF Initialising, IsProgram
<1>5. step = s[1] /\ 1 \in 1 .. Len(s)
  <2>1. IsRest(Tail(s), s, 1) /\ step = s[1]
    BY <1>2, <1>4, ProgramTail, Zenon
  <2>2. 1 \in 1 .. Len(s)
    BY <1>2, <1>4, SMT DEF IsSeq
  <2>. QED BY <2>1, <2>2
<1>6. IsSeq(step.undo) /\ step.skip \in Nat
  BY <1>3, <1>5, Zenon DEF Initialising, IsProgram
<1>7. CASE step.fails = "undo"
  <2>1. phase'[d] = "undo" /\ todo'[d] = step.undo /\ held'[d] = held[d]
    BY <1>7, SMT DEF DriversInv, Types, Fail, Turn
  <2>2. Reach(held[d], s, 1) = held[d]
    BY SMT DEF Reach
  <2>3. /\ held[d] \subseteq Frees(step.undo) \cup Forgotten(d)
        /\ d # "globalmem" => Ordered(step.undo, Forgotten(d))
    BY <1>3, <1>5, <1>7, <2>2, Zenon DEF Initialising, LabelsClear
  <2>4. Guarded(d, held[d], step.undo)
    <3>1. /\ LineFirst(step.undo)
          /\ Frees(step.undo) \cap Foreign(d) = {}
          /\ "gpio_21" \in Frees(step.undo) => ClassBefore(held[d], s, 1)
      BY <1>3, <1>5, <1>7, Zenon DEF Initialising, LinesGuarded
    <3>2. ~ \E j \in 1 .. 1 - 1 : TRUE
      BY SMT
    <3>. QED BY <1>6, <3>1, <3>2, Zenon DEF Guarded, ClassBefore
  <2>. HIDE DEF step, s
  <2>5. DriverInv(d)'
    BY <1>1, <2>1, <2>3, <2>4, SMT DEF DriversInv, DriverInv
  <2>6. Takes(d)
    BY <1>1, <2>1, TakesNothing, Zenon
  <2>. QED BY <1>1, <2>5, <2>6, AloneKeeps, Zenon
<1>8. CASE step.fails = "ignored"
  <2>1. /\ phase'[d] = "init" /\ held'[d] = held[d] \ ToSet(step.undo)
        /\ todo'[d] = SubSeq(s, 2 + step.skip, Len(s))
    BY <1>8, SMT DEF DriversInv, Types, Fail
  <2>2. IsRest(todo'[d], s, 1 + step.skip)
    <3>. DEFINE S == {s[i] : i \in 1 .. Len(s)}
                k == 1 + step.skip
    <3>1. s \in Seq(S)
      BY <1>4, Zenon DEF IsSeq
    <3>2. k \in Nat /\ 1 + k = 2 + step.skip
      BY <1>6, SMT
    <3>. HIDE DEF S, k, step, s
    <3>3. todo'[d] = SubSeq(s, 1 + k, Len(s)) /\ s # <<>>
      BY <1>2, <2>1, <3>2, Zenon
    <3>4. IsRest(todo'[d], s, k)
      BY <3>1, <3>2, <3>3, SubSeqIsRest, Zenon
    <3>. QED BY <3>4 DEF k
  <2>3. StepEnds(held[d], s, held'[d], 1 + step.skip)
    BY <1>5, <1>8, <2>1, Zenon DEF StepEnds
  <2>4. 1 + step.skip \in Nat /\ 1 + step.skip >= 1
    BY <1>6, SMT
  <2>5. Takes(d)
    BY <1>1, <2>1, TakesNothing, Zenon
  <2>. QED BY <1>1, <1>2, <2>1, <2>2, <2>3, <2>4, <2>5, ProgramStep, Zenon
<1>9. CASE step.fails = "oops"
  <2>1. phase'[d] = "dead" /\ held'[d] = held[d]
    BY <1>9, SMT DEF DriversInv, Types, Fail, Turn
  <2>2. DriverInv(d)'
    BY <1>1, <2>1, SMT DEF DriversInv, DriverInv
  <2>3. Takes(d)
    BY <1>1, <2>1, TakesNothing, Zenon
  <2>. QED BY <1>1, <2>2, <2>3, AloneKeeps, Zenon
<1>. QED BY <1>2, <1>7, <1>8, <1>9

LEMMA PutBackInv ==
    ASSUME NEW d \in Drivers, DriversInv, PutBack(d)
    PROVE  DriversInv'
<1>. DEFINE s == todo[d]
<1>1. Types' /\ Alone(d)
  BY SMT DEF DriversInv, Types, PutBack, Advance, Alone
<1>2. /\ phase[d] = "init" /\ phase'[d] = "init" /\ leaked'[d] = leaked[d] /\ s # <<>>
      /\ todo'[d] = Tail(s) /\ held'[d] = held[d] \ {Head(s).get}
      /\ Head(s).fails = "put"
  BY SMT DEF DriversInv, Types, PutBack, Advance
<1>3. IsSeq(s)
  BY <1>2, Zenon DEF DriversInv, DriverInv, Initialising, IsProgram
<1>4. IsRest(todo'[d], s, 1) /\ Head(s) = s[1]
  BY <1>2, <1>3, ProgramTail, Zenon
<1>5. StepEnds(held[d], s, held'[d], 1)
  BY <1>2, <1>4, Zenon DEF StepEnds
<1>6. Takes(d)
  BY <1>2, TakesNothing, Zenon
<1>7. 1 \in Nat /\ 1 >= 1
  BY SMT
<1>. QED BY <1>1, <1>2, <1>4, <1>5, <1>6, <1>7, ProgramStep, Zenon

LEMMA OopsInv ==
    ASSUME NEW d \in Drivers, DriversInv, Oops(d)
    PROVE  DriversInv'
<1>1. /\ Types' /\ Alone(d) /\ phase'[d] = "dead" /\ held'[d] = held[d] /\ leaked'[d] = leaked[d]
  BY SMT DEF DriversInv, Types, Oops, Turn, Alone
<1>2. DriverInv(d)'
  BY <1>1, SMT DEF DriversInv, DriverInv
<1>3. Takes(d)
  BY <1>1, TakesNothing, Zenon
<1>. QED BY <1>1, <1>2, <1>3, AloneKeeps, Zenon

LEMMA LoadedInv ==
    ASSUME NEW d \in Drivers, DriversInv, Loaded(d)
    PROVE  DriversInv'
<1>. DEFINE h == held[d]
<1>1. /\ Types' /\ Alone(d)
      /\ phase[d] = "init" /\ todo[d] = <<>> /\ phase'[d] = "in" /\ held'[d] = h /\ leaked'[d] = leaked[d]
  BY SMT DEF DriversInv, Types, Loaded, Turn, Alone
<1>2. Initialising(d, h, <<>>)
  BY <1>1, Zenon DEF DriversInv, DriverInv
<1>3. Len(<<>>) = 0 /\ 1 .. 0 = {} /\ 1 .. (0 + 1) - 1 = {}
  BY SMT
<1>4. IF d = "uio" THEN UioHolds(h, 0) ELSE h \subseteq Frees(ExitOf[d]) \cup Kept(d)
  <2>1. ASSUME d = "uio"
        PROVE  UioHolds(h, 0)
    BY <1>2, <1>3, <2>1, Zenon DEF Initialising
  <2>2. ASSUME d # "uio", NEW r \in h
        PROVE  r \in Frees(ExitOf[d]) \cup Kept(d)
    BY <1>2, <1>3, <2>2, Zenon DEF Initialising, ExitClears
  <2>. QED BY <2>1, <2>2, Zenon
<1>5. h \cap Foreign(d) = {} /\ (d \in Leds => GpioClass \in h)
  BY <1>2, <1>3, Zenon DEF Initialising, LinesGuarded, ClassBefore
<1>6. DriverInv(d)'
  <2>. HIDE DEF h
  <2>. QED BY <1>1, <1>4, <1>5, SMT DEF DriversInv, DriverInv
<1>7. Takes(d)
  BY <1>1, TakesNothing, Zenon
<1>. QED BY <1>1, <1>6, <1>7, AloneKeeps, Zenon

LEMMA RmmodInv ==
    ASSUME NEW d \in Drivers, DriversInv, Rmmod(d)
    PROVE  DriversInv'
<1>. DEFINE h == held[d]
            s == ExitOf[d]
<1>1. /\ Types' /\ Alone(d)
      /\ phase[d] = "in" /\ phase'[d] = "exit" /\ todo'[d] = s /\ held'[d] = h /\ leaked'[d] = leaked[d]
  BY SMT DEF DriversInv, Types, Rmmod, Turn, Alone
<1>2. Unloads(d, s)
  BY ProgramsSound, DriversAssumption, Zenon
<1>3. Guarded(d, h, s)
  BY <1>1, <1>2, Zenon DEF Unloads, Guarded, DriversInv, DriverInv
<1>4. Oopses(d)' \/ h \subseteq Frees(s) \cup Kept(d)
  <2>1. CASE d # "uio"
    BY <1>1, <2>1, Zenon DEF DriversInv, DriverInv
  <2>2. CASE d = "uio"
    <3>1. UioHolds(h, 0)
      BY <1>1, <2>2, Zenon DEF DriversInv, DriverInv
    <3>2. "uio" \in h \/ h \subseteq {"platform_device", "platform_driver", "uio_mem"}
      BY <3>1, SMT DEF UioHolds
    <3>3. s = <<"uio_remove", "platform_device", "platform_driver">>
      BY <2>2, ProgramOf, Zenon DEF UnloadUio
    <3>4. ASSUME "uio" \in h
          PROVE  Oopses(d)'
      <4>1. s # <<>> /\ Head(s) = "uio_remove"
        BY <3>3, SMT
      <4>. QED BY <1>1, <3>4, <4>1, Zenon DEF Oopses
    <3>5. "platform_device" \in Frees(s) /\ "platform_driver" \in Frees(s)
      BY <3>3, InParts, SMT DEF Frees
    <3>6. "uio_mem" \in Kept(d)
      BY <2>2, SMT DEF Kept, MayStay, Forgotten
    <3>. HIDE DEF h, s
    <3>. QED BY <3>2, <3>4, <3>5, <3>6, SMT
  <2>. QED BY <2>1, <2>2
<1>5. DriverInv(d)'
  <2>. HIDE DEF h, s
  <2>. QED BY <1>1, <1>2, <1>3, <1>4, SMT DEF DriversInv, DriverInv, Unloads
<1>6. Takes(d)
  BY <1>1, TakesNothing, Zenon
<1>. QED BY <1>1, <1>5, <1>6, AloneKeeps, Zenon

\* What module_exit does not release for certain is among what may be lost.
LEMMA KeptForgotten ==
    ASSUME NEW d
    PROVE  MayStay(d) \subseteq Forgotten(d) /\ MayStay(d) \subseteq Kept(d) /\ Kept(d) \subseteq Forgotten(d)
<1>1. MayStay(d) \subseteq Forgotten(d)
  BY SMT DEF MayStay, Forgotten
<1>. QED BY <1>1, Zenon DEF Kept

LEMMA UnloadedInv ==
    ASSUME NEW d \in Drivers, DriversInv, Unloaded(d)
    PROVE  DriversInv'
<1>. DEFINE h == held[d]
<1>1. /\ Types' /\ Alone(d) /\ todo[d] = <<>> /\ phase[d] \in {"undo", "exit"}
      /\ phase'[d] = "out" /\ held'[d] = {} /\ leaked'[d] = leaked[d] \cup h
  BY SMT DEF DriversInv, Types, Unloaded, Turn, Alone
<1>2. Frees(<<>>) = {}
  BY SMT DEF Frees
<1>3. h \subseteq Forgotten(d)
  BY <1>1, <1>2, KeptForgotten, Zenon DEF DriversInv, DriverInv, Oopses
<1>4. DriverInv(d)'
  <2>. HIDE DEF h
  <2>. QED BY <1>1, <1>3, SMT DEF DriversInv, DriverInv
<1>5. Takes(d)
  <2>1. Held(d)' = Held(d)
    BY <1>1, SMT DEF Held
  <2>. QED BY <2>1, SMT DEF DriversInv, NamesInv, Takes
<1>. QED BY <1>1, <1>4, <1>5, AloneKeeps, Zenon

\* Releasing the first of s takes only that from a driver that has s to release.
LEMMA FreesFirst ==
    ASSUME NEW s, IsSeq(s), s # <<>>
    PROVE  /\ Frees(s) = Parts(s[1]) \cup Frees(Tail(s))
           /\ IsRest(Tail(s), s, 1) /\ Head(s) = s[1] /\ 1 \in 1 .. Len(s)
<1>1. IsRest(Tail(s), s, 1) /\ Head(s) = s[1]
  BY ProgramTail
<1>2. 1 \in 1 .. Len(s) /\ Len(s) \in Nat
  BY <1>1, SMT DEF IsRest, IsSeq
<1>. DEFINE t == Tail(s)
<1>. HIDE DEF t
<1>3. Len(t) = Len(s) - 1 /\ \A i \in 1 .. Len(t) : i + 1 \in 1 .. Len(s) /\ t[i] = s[i + 1]
  <2>1. IsRest(t, s, 1)
    BY <1>1 DEF t
  <2>2. 1 <= Len(s)
    BY <1>2, SMT
  <2>. QED BY <2>1, <2>2, Zenon DEF IsRest
<1>4. ASSUME NEW i \in 1 .. Len(s), i # 1
      PROVE  i - 1 \in 1 .. Len(t) /\ t[i - 1] = s[i]
  <2>1. i - 1 \in 1 .. Len(t) /\ (i - 1) + 1 = i
    BY <1>2, <1>3, <1>4, SMT
  <2>. QED BY <1>3, <2>1, Zenon
<1>5. ASSUME NEW x
      PROVE  x \in Frees(s) <=> x \in Parts(s[1]) \/ x \in Frees(t)
  <2>1. ASSUME x \in Frees(s)
        PROVE  x \in Parts(s[1]) \/ x \in Frees(t)
    <3>1. PICK i \in 1 .. Len(s) : x \in Parts(s[i])
      BY <2>1, Zenon DEF Frees
    <3>. QED BY <1>4, <3>1, Zenon DEF Frees
  <2>2. ASSUME x \in Parts(s[1]) \/ x \in Frees(t)
        PROVE  x \in Frees(s)
    BY <1>2, <1>3, <2>2, Zenon DEF Frees
  <2>. QED BY <2>1, <2>2
<1>. QED BY <1>1, <1>2, <1>5, Zenon DEF t

LEMMA ReleaseInv ==
    ASSUME NEW d \in Drivers, DriversInv, Release(d)
    PROVE  DriversInv'
<1>. DEFINE s == todo[d]
            t == Tail(s)
            gone == Parts(Head(s))
            h == held[d]
<1>0. PICK stays \in SUBSET (gone \cap MayStay(d)) : held' = Released(d, gone \ stays)
  BY Zenon DEF Release
<1>. DEFINE off == gone \ stays
<1>1. /\ Types' /\ phase[d] \in {"undo", "exit"} /\ s # <<>> /\ ~Oopses(d)
      /\ phase' = phase /\ leaked' = leaked /\ todo'[d] = t /\ held'[d] = h \ off
      /\ \A e \in Drivers : e # d => todo'[e] = todo[e]
  BY <1>0, SMT DEF DriversInv, Types, Release, Released, Advance
<1>2. \A e \in Drivers : e # d => held'[e] = held[e]
                                   \/ (off \subseteq ByNumber /\ held'[e] = held[e] \ off)
  BY <1>0, SMT DEF DriversInv, Types, Release, Released
<1>3. IsSeq(s) /\ Guarded(d, h, s)
  BY <1>1, Zenon DEF DriversInv, DriverInv, Guarded
<1>4. /\ Frees(s) = gone \cup Frees(t)
      /\ IsRest(t, s, 1) /\ gone = Parts(s[1]) /\ 1 \in 1 .. Len(s)
  BY <1>1, <1>3, FreesFirst, Zenon
<1>5. \A i \in 1 .. Len(t) : i + 1 \in 1 .. Len(s) /\ t[i] = s[i + 1] /\ 1 < i + 1
  BY <1>4, SMT DEF IsRest
<1>6. \A i, j \in 1 .. Len(t) : i < j => i + 1 < j + 1
  BY SMT
<1>7. Guarded(d, h \ off, t)
  <2>1. IsSeq(t)
    BY <1>4, Zenon DEF IsRest
  <2>2. LineFirst(t)
    BY <1>3, <1>5, <1>6, Zenon DEF Guarded, LineFirst
  <2>3. Frees(t) \cap Foreign(d) = {}
    BY <1>3, <1>4, Zenon DEF Guarded
  <2>4. ASSUME "gpio_21" \in Frees(t)
        PROVE  GpioClass \in h \ off
    <3>1. GpioClass \in h
      BY <1>3, <1>4, <2>4, Zenon DEF Guarded
    <3>2. PICK j \in 1 .. Len(t) : "gpio_21" \in Parts(t[j])
      BY <2>4, Zenon DEF Frees
    <3>3. GpioClass \notin gone
      BY <1>3, <1>4, <1>5, <3>2, Zenon DEF Guarded, LineFirst
    <3>. QED BY <3>1, <3>3
  <2>. QED BY <2>1, <2>2, <2>3, <2>4, Zenon DEF Guarded
<1>8. ASSUME NEW lost, Ordered(s, lost)
      PROVE  Ordered(t, lost)
  BY <1>5, <1>6, <1>8, Zenon DEF Ordered
<1>9. ASSUME NEW lost, MayStay(d) \subseteq lost, h \subseteq Frees(s) \cup lost
      PROVE  h \ off \subseteq Frees(t) \cup lost
  BY <1>0, <1>4, <1>9, Zenon
<1>13. MayStay(d) \subseteq Forgotten(d) /\ MayStay(d) \subseteq Kept(d)
  BY KeptForgotten, Zenon
<1>10. DriverInv(d)'
  <2>1. CASE phase[d] = "undo"
    <3>1. /\ h \ off \subseteq Frees(t) \cup Forgotten(d)
          /\ d # "globalmem" => Ordered(t, Forgotten(d))
      BY <1>8, <1>9, <1>13, <2>1, Zenon DEF DriversInv, DriverInv
    <3>. HIDE DEF h, s, t, off, gone
    <3>. QED BY <1>1, <1>7, <2>1, <3>1, SMT DEF DriversInv, DriverInv
  <2>2. CASE phase[d] = "exit"
    <3>1. h \ off \subseteq Frees(t) \cup Kept(d) /\ Ordered(t, Kept(d))
      BY <1>1, <1>8, <1>9, <1>13, <2>2, Zenon DEF DriversInv, DriverInv
    <3>. HIDE DEF h, s, t, off, gone
    <3>. QED BY <1>1, <1>7, <2>2, <3>1, SMT DEF DriversInv, DriverInv
  <2>. QED BY <1>1, <2>1, <2>2
<1>11. ASSUME NEW e \in Drivers, e # d
       PROVE  DriverInv(e)'
  <2>1. DriverInv(e) /\ phase'[e] = phase[e] /\ todo'[e] = todo[e] /\ leaked'[e] = leaked[e]
    BY <1>1, <1>11, Zenon DEF DriversInv
  <2>2. CASE held'[e] = held[e]
    BY <2>1, <2>2, SameDriver, Zenon
  <2>3. CASE off \subseteq ByNumber /\ held'[e] = held[e] \ off
    BY <2>1, <2>3, LosesLine, Zenon
  <2>. QED BY <1>2, <1>11, <2>2, <2>3
<1>12. NamesInv'
  <2>1. \A e \in Drivers : Held(e)' \subseteq Held(e)
    BY <1>1, <1>2, Zenon DEF Held
  <2>. QED BY <2>1, Zenon DEF DriversInv, NamesInv
<1>. QED BY <1>1, <1>10, <1>11, <1>12, Zenon DEF DriversInv

LEMMA UnchangedInv ==
    ASSUME DriversInv, UNCHANGED vars
    PROVE  DriversInv'
BY Zenon DEF DriversInv, Types, DriverInv, NamesInv, Held, Oopses, vars

LEMMA DriversNext ==
    ASSUME DriversInv, [Next]_vars
    PROVE  DriversInv'
BY InsmodInv, SucceedInv, FailInv, PutBackInv, ReleaseInv, OopsInv, LoadedInv, RmmodInv,
   UnloadedInv, UnchangedInv, Zenon DEF Next

\* In every reachable state, whichever drivers there are and whichever calls fail,
\* a driver holds no more than what its labels and its module_exit are fit for.
THEOREM DriversInvariant == Spec => []DriversInv
BY DriversInit, DriversNext, PTL DEF Spec

\* A module_init that returns an error, whichever call failed, and a module_exit
\* that returns have given back all that the driver had got but for what the
\* labels of simple_timer, globalmem, oled_spi and uio forget and what del_timer
\* and globalmem_exit do not wait for.
THEOREM FailuresLeakNothing == Spec => []FailedLoadLeaksNothing
<1>1. DriversInv => FailedLoadLeaksNothing
  BY Zenon DEF DriversInv, DriverInv, FailedLoadLeaksNothing
<1>. QED BY <1>1, DriversInvariant, PTL

\* A driver whose module_exit returns holds nothing any more, but for a timer
\* that its callback has armed again, the waiting threads of globalmem, the
\* reference on the SPI master and the memory of a uio_probe that failed.
THEOREM UnloadingReleases == Spec => []UnloadReleasesAll
<1>1. DriversInv => UnloadReleasesAll
  <2>. SUFFICES ASSUME DriversInv, NEW d \in Drivers, phase[d] = "exit", todo[d] = <<>>
                PROVE  held[d] \subseteq {"spi_master", "uio_mem"} \cup MayStay(d)
    BY Zenon DEF UnloadReleasesAll
  <2>1. Frees(<<>>) = {}
    BY SMT DEF Frees
  <2>2. held[d] \subseteq Kept(d)
    BY <2>1, Zenon DEF DriversInv, DriverInv, Oopses
  <2>. QED BY <2>2, Zenon DEF Kept
<1>. QED BY <1>1, DriversInvariant, PTL

\* What stands on something that is not released now still stands afterwards.
LEMMA SparedStands ==
    ASSUME NEW have, NEW gone, NEW r, r \notin gone, Spares(gone, r), ~(r = "irq_11" /\ gone = {"tasklet"}),
           Standing(r, have, Uses)
    PROVE  Standing(r, have \ gone, Uses)
<1>. SUFFICES ASSUME NEW need \in Uses, need[1] = r
              PROVE  need[2] \cap (have \ gone) # {}
  BY Zenon DEF Standing
<1>1. need[2] \cap have # {}
  BY Zenon DEF Standing
<1>2. need[2] \cap gone = {}
  BY Zenon DEF Spares
<1>. QED BY <1>1, <1>2, Zenon

LEMMA ReleaseSparesUsers ==
    ASSUME NEW d \in Drivers, DriversInv, Release(d), ~(phase[d] = "undo" /\ d = "globalmem"),
           NEW r \in held'[d], ~TaskletGoesFirst(d, r), Standing(r, held[d], Uses)
    PROVE  Standing(r, held'[d], Uses)
<1>. DEFINE s == todo[d]
            h == held[d]
            gone == Parts(Head(s))
            lost == IF phase[d] = "undo" THEN Forgotten(d) ELSE Kept(d)
<1>0. PICK stays \in SUBSET (gone \cap MayStay(d)) : held' = Released(d, gone \ stays)
  BY Zenon DEF Release
<1>1. /\ phase[d] \in {"undo", "exit"} /\ s # <<>> /\ ~Oopses(d)
      /\ held'[d] = h \ (gone \ stays)
  BY <1>0, SMT DEF DriversInv, Types, Release, Released
<1>2. IsSeq(s)
  BY <1>1, Zenon DEF DriversInv, DriverInv, Guarded
<1>3. /\ Frees(s) = gone \cup Frees(Tail(s)) /\ IsRest(Tail(s), s, 1)
      /\ gone = Parts(s[1]) /\ 1 \in 1 .. Len(s)
  BY <1>1, <1>2, FreesFirst, Zenon
<1>4. h \subseteq Frees(s) \cup lost /\ Ordered(s, lost)
  <2>1. CASE phase[d] = "undo"
    BY <2>1, Zenon DEF DriversInv, DriverInv
  <2>2. CASE phase[d] = "exit"
    <3>1. lost = Kept(d)
      BY <2>2, SMT
    <3>. QED BY <1>1, <2>2, <3>1, Zenon DEF DriversInv, DriverInv
  <2>. QED BY <1>1, <2>1, <2>2
<1>. HIDE DEF lost
<1>8. CASE r \in gone
  <2>1. r \in {"timer", "wait_thread", "wait_thread2"}
    <3>1. r \in stays
      BY <1>1, <1>8, Zenon
    <3>2. r \in MayStay(d)
      BY <1>0, <3>1, Zenon
    <3>. QED BY <3>2, SMT DEF MayStay
  <2>2. \A need \in Uses : need[1] # r
    BY <2>1, SMT DEF Uses, Needs
  <2>. QED BY <2>2, Zenon DEF Standing
<1>9. CASE r \notin gone
  <2>5. r \in h /\ r \notin gone
    BY <1>1, <1>9, Zenon
  <2>6. Spares(gone, r)
    <3>1. CASE r \in lost
      BY <1>3, <1>4, <3>1, Zenon DEF Ordered
    <3>2. CASE r \in Frees(Tail(s))
      <4>1. PICK j \in 1 .. Len(Tail(s)) : r \in Parts(Tail(s)[j])
        BY <3>2, Zenon DEF Frees
      <4>2. j + 1 \in 1 .. Len(s) /\ Tail(s)[j] = s[j + 1]
        BY <1>3, Zenon DEF IsRest
      <4>3. 1 < j + 1
        BY SMT
      <4>. QED BY <1>3, <1>4, <4>1, <4>2, <4>3, Zenon DEF Ordered
    <3>. QED BY <1>3, <1>4, <2>5, <3>1, <3>2, Zenon
  <2>7. ~(r = "irq_11" /\ gone = {"tasklet"})
    <3>1. Head(s) \in gone
      BY InParts, Zenon
    <3>2. gone = {"tasklet"} => Head(s) = "tasklet"
      BY <3>1, Zenon
    <3>. HIDE DEF gone
    <3>. QED BY <3>2, Zenon DEF TaskletGoesFirst, s
  <2>8. Standing(r, h \ gone, Uses)
    <3>. HIDE DEF h, gone
    <3>1. Standing(r, h, Uses)
      BY DEF h
    <3>. QED BY <2>5, <2>6, <2>7, <3>1, SparedStands, Zenon
  <2>9. h \ gone \subseteq held'[d]
    BY <1>1, Zenon
  <2>. HIDE DEF h, gone
  <2>. QED BY <2>8, <2>9, Zenon DEF Standing
<1>. QED BY <1>8, <1>9

LEMMA StepSparesUsers ==
    ASSUME DriversInv, Next, NEW d \in Drivers, phase[d] \in {"undo", "exit"},
           Len(todo'[d]) < Len(todo[d]),
           ~(phase[d] = "undo" /\ d = "globalmem"), NEW r \in held'[d],
           ~TaskletGoesFirst(d, r), Standing(r, held[d], Uses)
    PROVE  Standing(r, held'[d], Uses)
<1>1. todo'[d] # todo[d]
  <2>. DEFINE n == Len(todo[d])
  <2>1. n \in Nat
    BY SMT DEF DriversInv, DriverInv, Guarded, IsSeq
  <2>. HIDE DEF n
  <2>2. ~(n < n)
    BY <2>1, SMT
  <2>. QED BY <2>2, Zenon DEF n
<1>2. PICK e \in Drivers : \/ Insmod(e) \/ Succeed(e) \/ Fail(e) \/ PutBack(e) \/ Release(e) \/ Oops(e)
                           \/ Loaded(e) \/ Rmmod(e) \/ Unloaded(e)
  BY Zenon DEF Next
<1>3. e = d
  BY <1>1, <1>2, SMT DEF DriversInv, Types, Insmod, Succeed, Fail, PutBack, Release, Oops,
     Loaded, Rmmod,
                         Unloaded, Turn, Advance
<1>4. Release(d) \/ held'[d] = held[d] \/ held'[d] = {}
  BY <1>2, <1>3, SMT DEF DriversInv, Types, Insmod, Succeed, Fail, PutBack, Oops, Loaded,
     Rmmod, Unloaded
<1>. QED BY <1>4, ReleaseSparesUsers, Zenon

\* Neither the labels nor module_exit release what something held still stands on,
\* except globalmem_exit the tasklet of its interrupt.
THEOREM UsersGoFirst == Spec => UsersFirst
<1>. DEFINE A == \A d \in Drivers :
                     /\ phase[d] \in {"undo", "exit"} /\ Len(todo'[d]) < Len(todo[d])
                     /\ ~(phase[d] = "undo" /\ d = "globalmem")
                     => \A r \in held'[d] :
                            \/ TaskletGoesFirst(d, r)
                            \/ Standing(r, held[d], Uses) => Standing(r, held'[d], Uses)
<1>1. DriversInv /\ [Next]_vars => [A]_vars
  BY StepSparesUsers, Zenon
<1>2. Spec => [][A]_vars
  <2>. HIDE DEF A
  <2>. QED BY <1>1, DriversInvariant, PTL DEF Spec
<1>. QED BY <1>2 DEF UsersFirst

\* Who holds a line of an LED has the class that keeps the other driver out.
LEMMA LineAndClass ==
    ASSUME NEW d \in Drivers, DriversInv, phase[d] \in {"init", "in"},
           NEW r \in held[d], r \in {"gpio_21", "gpio_23"}
    PROVE  IF r = "gpio_21" THEN d \in Leds /\ GpioClass \in held[d] ELSE d = "oled_spi"
<1>1. held[d] \cap Foreign(d) = {}
  BY Zenon DEF DriversInv, DriverInv, Initialising, LinesGuarded
<1>2. IF r = "gpio_21" THEN d \in Leds ELSE d = "oled_spi"
  BY <1>1, SMT DEF Foreign
<1>3. ASSUME r = "gpio_21"
      PROVE  GpioClass \in held[d]
  <2>1. CASE phase[d] = "init"
    BY <1>3, <2>1, Zenon DEF DriversInv, DriverInv, Initialising, LinesGuarded
  <2>2. CASE phase[d] = "in"
    BY <1>2, <1>3, <2>2, Zenon DEF DriversInv, DriverInv
  <2>. QED BY <2>1, <2>2
<1>. QED BY <1>2, <1>3

LEMMA ReleaseSparesOthers ==
    ASSUME NEW d \in Drivers, NEW e \in Drivers, e # d, DriversInv, Release(e),
           phase[d] \in {"init", "in"},
           NEW r \in held[d], r \notin held'[d]
    PROVE  r = "gpio_24"
<1>. DEFINE s == todo[e]
            gone == Parts(Head(s))
<1>0. PICK stays \in SUBSET (gone \cap MayStay(e)) : held' = Released(e, gone \ stays)
  BY Zenon DEF Release
<1>1. r \in ByNumber /\ r \in gone /\ phase[e] \in {"undo", "exit"} /\ s # <<>>
  <2>1. gone \ stays \subseteq ByNumber /\ r \in gone \ stays /\ phase[e] \in {"undo", "exit"} /\ s # <<>>
    BY <1>0, SMT DEF DriversInv, Types, Release, Released
  <2>. QED BY <2>1, Zenon
<1>2. Guarded(e, held[e], s) /\ r \in Frees(s)
  <2>1. Guarded(e, held[e], s)
    BY <1>1, Zenon DEF DriversInv, DriverInv
  <2>2. gone \subseteq Frees(s)
    BY <1>1, <2>1, FreesFirst, Zenon DEF Guarded
  <2>. QED BY <1>1, <2>1, <2>2, Zenon
<1>. HIDE DEF s, gone
<1>3. r \in {"gpio_21", "gpio_23", "gpio_24"}
  BY <1>1, Zenon DEF ByNumber
<1>4. r # "gpio_21"
  <2>. SUFFICES ASSUME r = "gpio_21"
                PROVE  FALSE
    OBVIOUS
  <2>1. GpioClass \in held[e]
    BY <1>2, Zenon DEF Guarded
  <2>2. GpioClass \in held[d]
    BY LineAndClass, SMT
  <2>3. GpioClass \in Names
    BY SMT DEF GpioClass, Names
  <2>4. Held(d) \cap Held(e) \cap Names = {}
    BY Zenon DEF DriversInv, NamesInv
  <2>. QED BY <2>1, <2>2, <2>3, <2>4, Zenon DEF Held
<1>5. r # "gpio_23"
  <2>. SUFFICES ASSUME r = "gpio_23"
                PROVE  FALSE
    OBVIOUS
  <2>1. d = "oled_spi"
    BY LineAndClass, SMT
  <2>2. "gpio_23" \notin Foreign(e)
    BY <1>2, Zenon DEF Guarded
  <2>3. e = "oled_spi"
    BY <2>2, SMT DEF Foreign
  <2>. QED BY <2>1, <2>3
<1>. QED BY <1>3, <1>4, <1>5

\* A step of d's own either shortens its program or takes nothing from it.
LEMMA OwnStep ==
    ASSUME NEW d \in Drivers, DriversInv, phase[d] \in {"init", "in"},
           \/ Insmod(d) \/ Succeed(d) \/ Fail(d) \/ PutBack(d) \/ Release(d) \/ Oops(d)
           \/ Loaded(d) \/ Rmmod(d) \/ Unloaded(d)
    PROVE  held[d] \subseteq held'[d] \/ Len(todo'[d]) # Len(todo[d])
<1>. DEFINE s == todo[d]
<1>1. held'[d] = held[d] \/ held[d] \subseteq held'[d] \/ Fail(d) \/ PutBack(d)
  BY SMT DEF DriversInv, Types, Insmod, Succeed, Release, Oops, Loaded, Rmmod, Unloaded
<1>2. ASSUME Fail(d) \/ PutBack(d), held'[d] # held[d]
      PROVE  Len(todo'[d]) # Len(s)
  <2>1. phase[d] = "init" /\ s # <<>>
    BY <1>2, Zenon DEF Fail, PutBack
  <2>2. IsProgram(s) /\ IsSeq(s)
    BY <2>1, Zenon DEF DriversInv, DriverInv, Initialising, IsProgram
  <2>3. Head(s) = s[1] /\ 1 \in 1 .. Len(s) /\ IsRest(Tail(s), s, 1)
    BY <2>1, <2>2, FreesFirst, Zenon
  <2>4. PICK k \in Nat : k >= 1 /\ IsRest(todo'[d], s, k)
    <3>1. CASE PutBack(d)
      <4>1. todo'[d] = Tail(s)
        BY <3>1, SMT DEF DriversInv, Types, PutBack, Advance
      <4>. QED BY <2>3, <4>1, SMT
    <3>2. CASE Fail(d)
      <4>1. todo'[d] = SubSeq(s, 2 + Head(s).skip, Len(s))
        BY <1>2, <3>2, SMT DEF DriversInv, Types, Fail
      <4>2. Head(s).skip \in Nat
        BY <2>2, <2>3, Zenon DEF IsProgram
      <4>. DEFINE k == 1 + Head(s).skip
                  S == {s[i] : i \in 1 .. Len(s)}
      <4>3. k \in Nat /\ k >= 1 /\ 1 + k = 2 + Head(s).skip
        BY <4>2, SMT
      <4>4. s \in Seq(S)
        BY <2>2, Zenon DEF IsSeq
      <4>. HIDE DEF k, S
      <4>5. IsRest(todo'[d], s, k)
        BY <2>1, <4>1, <4>3, <4>4, SubSeqIsRest, Zenon
      <4>. QED BY <4>3, <4>5, Zenon
    <3>. QED BY <1>2, <3>1, <3>2
  <2>. DEFINE n == Len(s)
              m == Len(todo'[d])
  <2>5. n \in Nat /\ m = IF k <= n THEN n - k ELSE 0
    BY <2>4, Zenon DEF IsRest
  <2>6. n # 0
    BY <2>1, <2>2, SMT DEF IsSeq
  <2>. HIDE DEF n, m
  <2>7. m # n
    BY <2>4, <2>5, <2>6, SMT
  <2>. QED BY <2>7 DEF m, n
<1>. QED BY <1>1, <1>2, Zenon

\* A driver that is loaded or loading loses nothing to another one but GPIO line 24.
THEOREM OthersAreSpared == Spec => SparesOthers
<1>. DEFINE A == \A d \in Drivers : phase[d] \in {"init", "in"} /\ Len(todo'[d]) = Len(todo[d]) =>
                     held[d] \ held'[d] \subseteq {"gpio_24"}
<1>1. DriversInv /\ [Next]_vars => [A]_vars
  <2>. SUFFICES ASSUME DriversInv, Next, NEW d \in Drivers, phase[d] \in {"init", "in"},
                       Len(todo'[d]) = Len(todo[d]), NEW r \in held[d], r \notin held'[d]
                PROVE  r = "gpio_24"
    BY Zenon
  <2>1. PICK e \in Drivers : \/ Insmod(e) \/ Succeed(e) \/ Fail(e) \/ PutBack(e) \/ Release(e)
                             \/ Oops(e) \/ Loaded(e) \/ Rmmod(e) \/ Unloaded(e)
    BY Zenon DEF Next
  <2>2. e # d
    BY <2>1, OwnStep, Zenon
  <2>3. Release(e)
    BY <2>1, <2>2, SMT DEF DriversInv, Types, Insmod, Succeed, Fail, PutBack, Oops, Loaded,
       Rmmod, Unloaded
  <2>. QED BY <2>2, <2>3, ReleaseSparesOthers, Zenon
<1>2. Spec => [][A]_vars
  <2>. HIDE DEF A
  <2>. QED BY <1>1, DriversInvariant, PTL DEF Spec
<1>. QED BY <1>2 DEF SparesOthers
=============================================================================
