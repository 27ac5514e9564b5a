------------------------------- MODULE Timer --------------------------------
(***************************************************************************)
(* misc/hpet.c and misc/timer.c, with the tables of acpi.c and the look-up *)
(* of interrupts/madt.c: finding the HPET, setting it up while its counter *)
(* may run, arming a comparator, and the clock getNanos reads.             *)
(*                                                                         *)
(* Every access to a register of the HPET is a step of its own; the        *)
(* counter ticks between any two of them.                                  *)
(***************************************************************************)
EXTENDS Acpi

CONSTANTS
  Unit,             \* 1000000: femtoseconds in a nanosecond
  Periods,          \* clockPeriod: femtoseconds from tick to tick
  StartCounters,    \* what the counter holds when the kernel starts
  Base,             \* hpet->address.address, where the comparators begin
  Comparators,      \* numTimers + 1
  Delay,            \* the nanoseconds of the watchdog
  MaxCounter        \* bound on the counter

ASSUME TimerAssumption ==
  /\ Unit \in Nat \ {0} /\ Periods \subseteq Nat \ {0}
  /\ StartCounters \subseteq 0..MaxCounter /\ MaxCounter \in Nat
  /\ Comparators \in Nat \ {0} /\ Base \in Nat /\ Base >= Comparators
  /\ Delay \in Nat

VARIABLES
  pc,
  hpet,             \* the table, or NULL
  period,           \* capabilities: the period of the counter
  counter, running, \* the main counter, and whether it is enabled
  useInterrupts, value,  \* comparator configuration and value, by address
  freqMult, freqDiv, nanosOffset,
  i,
  madt, picMasked,
  isSetup, useHpet,
  elapsed           \* history: ticks since the kernel enabled the counter

hardware == <<period, counter, running, useInterrupts, value, elapsed>>
clockVars == <<freqMult, freqDiv, nanosOffset>>
timerVars == <<hpet, i, madt, picMasked, isSetup, useHpet>>
vars == <<acpiVars, pc, hardware, clockVars, timerVars>>

\* Addresses of comparators: those of the HPET, and as many from 0 on.
Addresses == (0..(Comparators - 1)) \cup (Base..(Base + Comparators - 1))

Init ==
  /\ AcpiInit
  /\ pc = "confuseAcpi"
  /\ hpet = NULL
  /\ period \in Periods
  /\ counter \in StartCounters
  /\ running \in BOOLEAN
  /\ useInterrupts \in {[a \in Addresses |-> on /\ a >= Base] : on \in BOOLEAN}
  /\ value = [a \in Addresses |-> 0]
  /\ freqMult = 1 /\ freqDiv = 1 /\ nanosOffset = 0
  /\ i = 0
  /\ madt = NULL /\ picMasked = FALSE
  /\ isSetup = FALSE /\ useHpet = FALSE
  /\ elapsed = 0

\* The hardware counts while it is enabled.
Tick ==
  /\ running
  /\ counter < MaxCounter
  /\ counter' = counter + 1
  /\ elapsed' = elapsed + 1
  /\ UNCHANGED <<acpiVars, pc, period, running, useInterrupts, value, clockVars, timerVars>>

-----------------------------------------------------------------------------
(* Reading the clock.                                                      *)

Reading == (counter \div freqMult) * freqDiv
hpet_getNanos == Reading - nanosOffset

\* Mutated: the clock can be read before timerSetup is done.
getNanosEarly == IF hpet # NULL /\ freqMult # 0 THEN hpet_getNanos ELSE 0

getNanos == IF isSetup /\ useHpet THEN hpet_getNanos ELSE 0

-----------------------------------------------------------------------------
(* hpetSetup                                                               *)

At(step) == pc = step
Goto(step) == pc' = step

Confuse ==
  /\ At("confuseAcpi")
  /\ confuseAcpi /\ Goto("find")
  /\ UNCHANGED <<hardware, clockVars, timerVars>>

\* kpanic for a root pointer that is not sound.
Panic ==
  /\ At("confuseAcpi")
  /\ PointerPanics /\ Goto("panic")
  /\ UNCHANGED <<acpiVars, hardware, clockVars, timerVars>>

Find ==
  /\ At("find")
  /\ hpet' = getAcpiTable("HPET")
  /\ Goto(IF hpet' = NULL THEN "pit" ELSE "disable")
  /\ UNCHANGED <<acpiVars, hardware, clockVars, i, madt, picMasked, isSetup, useHpet>>

Disable ==
  /\ At("disable") /\ Goto("period")
  /\ running' = FALSE
  /\ UNCHANGED <<acpiVars, period, counter, useInterrupts, value, elapsed, clockVars, timerVars>>

\* Mutated: the divisor is rounded up.
DivisorUp == period \div Unit + 1

Divisor == period \div Unit

Period ==
  /\ At("period") /\ Goto("comparators")
  /\ IF period >= Unit THEN freqMult' = 1 /\ freqDiv' = Divisor
     ELSE freqMult' = period \div Unit /\ freqDiv' = 1
  /\ UNCHANGED <<acpiVars, hardware, nanosOffset, timerVars>>

\* readTimerConfig and writeTimerConfig: an address without the HPET's base.
TimerConfig(index) == index

SetComparator ==
  /\ At("comparators") /\ i < Comparators
  /\ useInterrupts' = [useInterrupts EXCEPT ![TimerConfig(i)] = FALSE]
  /\ i' = i + 1
  /\ UNCHANGED <<acpiVars, pc, period, counter, running, value, elapsed, clockVars,
                 hpet, madt, picMasked, isSetup, useHpet>>

madtSetup ==
  /\ At("comparators") /\ i >= Comparators /\ Goto("offset")
  /\ picMasked' = TRUE
  /\ madt' = getAcpiTable("MADT")
  /\ UNCHANGED <<acpiVars, hardware, clockVars, hpet, i, isSetup, useHpet>>

\* A division by zero ends in irq00Handler's panic.
Divides == freqMult # 0

ReadOffset ==
  /\ At("offset") /\ Divides /\ Goto("enable")
  /\ nanosOffset' = Reading
  /\ UNCHANGED <<acpiVars, hardware, freqMult, freqDiv, timerVars>>

Trap ==
  /\ At("offset") /\ ~Divides /\ Goto("trap")
  /\ UNCHANGED <<acpiVars, hardware, clockVars, timerVars>>

Enable ==
  /\ At("enable") /\ Goto("setTimer")
  /\ running' = TRUE
  /\ elapsed' = 0
  /\ UNCHANGED <<acpiVars, period, counter, useInterrupts, value, clockVars, timerVars>>

-----------------------------------------------------------------------------
(* hpet_setTimer(0, 0, Delay), and the rest of timerSetup.                 *)

Quiet ==
  /\ At("setTimer") /\ Goto("deadline")
  /\ useInterrupts' = [useInterrupts EXCEPT ![TimerConfig(0)] = FALSE]
  /\ UNCHANGED <<acpiVars, period, counter, running, value, elapsed, clockVars, timerVars>>

Deadline == ((Delay + hpet_getNanos + 2) * freqMult) \div freqDiv

SetDeadline ==
  /\ At("deadline") /\ Goto("arm")
  /\ value' = [value EXCEPT ![TimerConfig(0)] = Deadline]
  /\ UNCHANGED <<acpiVars, period, counter, running, useInterrupts, elapsed, clockVars, timerVars>>

Arm ==
  /\ At("arm") /\ Goto("return")
  /\ useInterrupts' = [useInterrupts EXCEPT ![TimerConfig(0)] = TRUE]
  /\ UNCHANGED <<acpiVars, period, counter, running, value, elapsed, clockVars, timerVars>>

\* hpetSetup returns 1, or 0 and pitSetup does nothing.
Return ==
  /\ At("return") \/ At("pit")
  /\ Goto("isSetup")
  /\ useHpet' = At("return")
  /\ UNCHANGED <<acpiVars, hardware, clockVars, hpet, i, madt, picMasked, isSetup>>

Ready ==
  /\ At("isSetup") /\ Goto("done")
  /\ isSetup' = TRUE
  /\ UNCHANGED <<acpiVars, hardware, clockVars, hpet, i, madt, picMasked, useHpet>>

timerSetup ==
  \/ Confuse \/ Panic
  \/ Find \/ Disable \/ Period \/ SetComparator \/ madtSetup \/ ReadOffset \/ Trap \/ Enable
  \/ Quiet \/ SetDeadline \/ Arm \/ Return \/ Ready

Next == timerSetup \/ Tick

\* The kernel's steps are taken; the counter may stop counting at any time.
Spec == Init /\ [][Next]_vars /\ WF_vars(timerSetup)
-----------------------------------------------------------------------------
(* Properties.                                                             *)

\* The clock never goes back, from boot on: neither while it is set up, with a
\* counter that had been running, nor when the first reading is taken.
ClockNeverBack == [][getNanos' >= getNanos]_vars

\* A counter that is only now enabled gives the clock its zero: it stands
\* still from the reading of the offset on.
OffsetHolds == At("enable") => hpet_getNanos = 0

\* The clock counts from the moment the counter was enabled; it is never ahead
\* and loses less than one nanosecond with each tick, whatever the period.
ClockRate ==
  /\ OffsetHolds
  /\ isSetup /\ useHpet =>
       /\ getNanos * Unit <= elapsed * period
       /\ elapsed * period - getNanos * Unit <= elapsed * (Unit - 1)

\* Among the firmware's tables the first sound one of a name is found, and the
\* HPET is in use just when it has one.
HpetUsed ==
  /\ SearchRight
  /\ At("done") => (useHpet <=> acpiSetup /\ ~isAcpiV2 /\ Sound("HPET") # {})
=============================================================================
