----------------------------- MODULE BootProofs -----------------------------
(***************************************************************************)
(* What holds of every boot, for any lists of tags and tables, any period  *)
(* of the counter and any bounds: the parts of the kernel are called only  *)
(* when they are set up, and the clock never goes back.                    *)
(***************************************************************************)
EXTENDS Boot, TLAPS, WellFoundedInduction

\* How far boot is, and what that says of the parts set up, of the interrupt
\* flag and of the timer.
StageInv ==
  /\ stage \in 1..11
  /\ stage > 1 => "framebuffer" \in ready
  /\ stage > 3 => "memory" \in ready
  /\ stage > 4 => "heap" \in ready
  /\ stage > 7 => "interrupts" \in ready
  /\ intFlag => stage > 8
  /\ pc # "confuseAcpi" => stage > 9
  /\ halted => ~intFlag

\* The place of each call of _start.
LEMMA Places ==
  ASSUME stage \in 1..11
  PROVE  /\ Order[stage] = "framebuffer" <=> stage = 1
         /\ Order[stage] = "cli" <=> stage = 2
         /\ Order[stage] = "memory" <=> stage = 3
         /\ Order[stage] = "heap" <=> stage = 4
         /\ Order[stage] = "background" <=> stage = 5
         /\ Order[stage] = "log" <=> stage = 6
         /\ Order[stage] = "interrupts" <=> stage = 7
         /\ Order[stage] = "sti" <=> stage = 8
         /\ Order[stage] = "rsdp" <=> stage = 9
         /\ Order[stage] = "timer" <=> stage = 10
         /\ Order[stage] = "stop" <=> stage = 11
  BY SMT DEF Order

\* Boot begins with nothing set up.
LEMMA StageInit == BootInit => StageInv
  BY SMT DEF BootInit, Init, StageInv

\* Each step of _start finds its parts set up and leaves its own behind it.
LEMMA StageNext == StageInv /\ [BootNext]_allVars => StageInv'
<1> SUFFICES ASSUME StageInv, [BootNext]_allVars
             PROVE  StageInv'
  OBVIOUS
<1> USE DEF StageInv
<1> USE Places
<1>1. CASE NoFramebuffer
  BY <1>1, SMT DEF NoFramebuffer, Now, Stop, vars
<1>2. CASE Framebuffer
  BY <1>2, SMT DEF Framebuffer, Now, Done, vars
<1>3. ASSUME NEW part \in {"memory", "heap", "background", "interrupts"}, SetUp(part)
      PROVE  StageInv'
  BY <1>3, SMT DEF SetUp, Now, Done, vars
<1>4. CASE Log
  BY <1>4, SMT DEF Log, Now, Done, vars
<1>5. CASE Flag
  <2>1. stage' = stage + 1 /\ UNCHANGED <<pc, ready, halted>>
    BY <1>5 DEF Flag, Done, vars
  <2>2. ~halted
    BY <1>5 DEF Flag, Now
  <2>3. CASE Now("cli")
    <3>1. stage = 2 /\ ~Now("sti")
      BY <2>3, SMT DEF Now
    <3>2. ~intFlag'
      BY <1>5, <3>1 DEF Flag
    <3> QED
      BY <2>1, <2>2, <3>1, <3>2, SMT
  <2>4. CASE Now("sti")
    <3>1. stage = 8
      BY <2>4, SMT DEF Now
    <3> QED
      BY <2>1, <2>2, <3>1, SMT
  <2> QED
    BY <1>5, <2>3, <2>4 DEF Flag
<1>6. CASE FindRsdp
  BY <1>6, SMT DEF FindRsdp, Now, Stop, Done, vars
<1>7. CASE TimerStep
  BY <1>7, SMT DEF TimerStep, Now
<1>8. CASE TimerDone
  BY <1>8, SMT DEF TimerDone, Now, Done, vars
<1>9. CASE TimerPanic
  BY <1>9, SMT DEF TimerPanic, Now, Stop, vars
<1>10. CASE Finish
  BY <1>10, SMT DEF Finish, Now, Stop, vars
<1>11. CASE NotEnoughMemory
  BY <1>11, SMT DEF NotEnoughMemory, Now, Stop, vars
<1>12. CASE Count
  BY <1>12, SMT DEF Count, Tick, bootVars
<1>13. CASE UNCHANGED allVars
  BY <1>13, SMT DEF allVars, vars, bootVars
<1> QED
  BY <1>1, <1>2, <1>3, <1>4, <1>5, <1>6, <1>7, <1>8, <1>9, <1>10, <1>11, <1>12, <1>13
     DEF BootNext, Start

\* The parts set up so far are those the next call needs.
LEMMA StageEnough == StageInv => CalledWhenReady
<1> SUFFICES ASSUME StageInv
             PROVE  CalledWhenReady
  OBVIOUS
<1> USE DEF StageInv
<1>1. Needs[Order[stage]] \subseteq ready
  <2>1. \/ Order[stage] \in {"framebuffer", "cli", "stop"}
        \/ stage = 3 /\ Order[stage] = "memory"
        \/ stage = 4 /\ Order[stage] = "heap"
        \/ stage = 5 /\ Order[stage] = "background"
        \/ stage = 6 /\ Order[stage] = "log"
        \/ stage = 7 /\ Order[stage] = "interrupts"
        \/ stage = 8 /\ Order[stage] = "sti"
        \/ stage = 9 /\ Order[stage] = "rsdp"
        \/ stage = 10 /\ Order[stage] = "timer"
    BY Places, SMT
  <2> QED
    BY <2>1, SMT DEF Needs, Allocates
<1>2. TableLoaded
  BY SMT DEF TableLoaded, At
<1>3. HaltedDeaf
  BY DEF HaltedDeaf
<1> QED
  BY <1>1, <1>2, <1>3 DEF CalledWhenReady

\* Whatever the boot loader and the firmware hand over, no part of the kernel is
\* called before it is set up, interrupts are on only with the descriptor table
\* loaded, and none is delivered after the end.
THEOREM BootOrdered == BootSpec => []CalledWhenReady
<1>1. BootInit => StageInv
  BY StageInit
<1>2. StageInv /\ [BootNext]_allVars => StageInv'
  BY StageNext
<1>3. StageInv => CalledWhenReady
  BY StageEnough
<1> QED
  BY <1>1, <1>2, <1>3, PTL DEF BootSpec
-----------------------------------------------------------------------------
(* The clock.  Once the offset is read, the reading is the ticks since     *)
(* then times the whole nanoseconds of a tick.                             *)

\* The steps between finding the HPET and reading it as a clock.
Stopped == pc \in {"period", "comparators", "offset", "enable"}
Rated == pc \in {"comparators", "offset"}
Offset == pc \in {"enable", "setTimer", "deadline", "arm", "return"} \/ useHpet

ClockInv ==
  /\ counter \in Nat /\ elapsed \in Nat /\ period \in Nat
  /\ freqMult \in Nat /\ freqDiv \in Nat /\ nanosOffset \in Int
  /\ Stopped => ~running
  /\ Rated => freqMult = 0 \/ (freqMult = 1 /\ freqDiv = period \div Unit)
  /\ Offset => freqMult = 1 /\ freqDiv = period \div Unit
  /\ pc = "enable" => nanosOffset = counter * freqDiv
  /\ Offset /\ pc # "enable" => nanosOffset = (counter - elapsed) * freqDiv
  /\ useHpet => pc \in {"isSetup", "done"}
  /\ isSetup => pc = "done"

\* What SMT knows of a rounded division.
LEMMA Division ==
  ASSUME NEW p \in Nat, NEW u \in Nat \ {0}
  PROVE  /\ p \div u \in Nat
         /\ u * (p \div u) <= p
         /\ p < u * (p \div u) + u
         /\ p < u => p \div u = 0
         /\ p \div 1 = p
  BY SMT

\* A reading less the offset is what came after the offset.
LEMMA Ticks ==
  ASSUME NEW c \in Int, NEW e \in Int, NEW d \in Int
  PROVE  c * d - (c - e) * d = e * d
  BY SMT

\* A tick rounded down to d nanoseconds loses less than one in each of e ticks.
LEMMA Rounding ==
  ASSUME NEW e \in Nat, NEW d \in Nat, NEW p \in Nat, NEW u \in Nat \ {0},
         u * d <= p, p < u * d + u
  PROVE  (e * d) * u <= e * p /\ e * p - (e * d) * u <= e * (u - 1)
  BY SMT

\* One more tick never shows less time.
LEMMA TickOn ==
  ASSUME NEW e \in Nat, NEW d \in Nat
  PROVE  e * d \in Nat /\ (e + 1) * d \in Nat /\ (e + 1) * d >= e * d
  BY SMT

\* Before timerSetup there is no clock, whatever the counter holds.
LEMMA ClockInit == BootInit => ClockInv
<1> SUFFICES ASSUME BootInit
             PROVE  ClockInv
  OBVIOUS
<1>1. counter \in Nat /\ period \in Nat
  BY TimerAssumption, SMT DEF BootInit, Init
<1> QED
  BY <1>1, SMT DEF BootInit, Init, ClockInv, Stopped, Rated, Offset

\* What a step changes neither of the timer nor of the clock.
LEMMA ClockSame ==
  ASSUME ClockInv, UNCHANGED <<pc, hardware, clockVars, timerVars>>
  PROVE  ClockInv'
  BY SMT DEF ClockInv, Stopped, Rated, Offset, hardware, clockVars, timerVars

\* The counter ticks only before it is disabled and after it is enabled again.
LEMMA ClockTick == ASSUME ClockInv, Tick PROVE ClockInv'
<1>1. /\ running /\ counter' = counter + 1 /\ elapsed' = elapsed + 1
      /\ UNCHANGED <<pc, period, freqMult, freqDiv, nanosOffset, useHpet, isSetup>>
  BY DEF Tick, clockVars, timerVars
<1>2. ~Stopped /\ ~Stopped'
  BY <1>1 DEF ClockInv, Stopped
<1>3. counter - elapsed = counter' - elapsed'
  BY <1>1, SMT DEF ClockInv
<1> QED
  BY <1>1, <1>2, <1>3, SMT DEF ClockInv, Stopped, Rated, Offset

\* Each step of timerSetup, hpetSetup and hpet_setTimer keeps the clock as it is to be.
LEMMA ClockStep == ASSUME ClockInv, timerSetup PROVE ClockInv'
<1> USE DEF ClockInv, Stopped, Rated, Offset, At, Goto, hardware, clockVars, timerVars
<1>1. CASE Confuse \/ Panic
  BY <1>1, SMT DEF Confuse, Panic
<1>2. CASE Find
  BY <1>2, SMT DEF Find
<1>3. CASE Disable
  BY <1>3, SMT DEF Disable
<1>4. CASE Period
  <2>1. period \div Unit \in Nat /\ (period < Unit => period \div Unit = 0)
    BY TimerAssumption, Division
  <2>2. Unit \in Nat
    BY TimerAssumption
  <2> QED
    BY <1>4, <2>1, <2>2, SMT DEF Period, Divisor
<1>5. CASE SetComparator
  BY <1>5, SMT DEF SetComparator
<1>6. CASE madtSetup
  BY <1>6, SMT DEF madtSetup
<1>7. CASE ReadOffset
  <2>1. freqMult = 1
    BY <1>7 DEF ReadOffset, Divides
  <2>2. Reading = counter * freqDiv
    BY <2>1, Division DEF Reading
  <2> QED
    BY <1>7, <2>1, <2>2, SMT DEF ReadOffset
<1>8. CASE Trap
  BY <1>8, SMT DEF Trap
<1>9. CASE Enable
  BY <1>9, SMT DEF Enable
<1>10. CASE Quiet \/ SetDeadline \/ Arm
  BY <1>10, SMT DEF Quiet, SetDeadline, Arm
<1>11. CASE Return
  <2>1. CASE pc = "return"
    BY <1>11, <2>1, SMT DEF Return
  <2>2. CASE pc = "pit"
    <3>1. pc # "return"
      BY <2>2
    <3>2. ~useHpet'
      BY <1>11, <3>1 DEF Return
    <3> QED
      BY <1>11, <2>2, <3>2, SMT DEF Return
  <2>3. pc = "return" \/ pc = "pit"
    BY <1>11 DEF Return
  <2> QED
    BY <2>1, <2>2, <2>3
<1>12. CASE Ready
  BY <1>12, SMT DEF Ready
<1> QED
  BY <1>1, <1>2, <1>3, <1>4, <1>5, <1>6, <1>7, <1>8, <1>9, <1>10, <1>11, <1>12
     DEF timerSetup

\* The steps of boot that leave the timer alone.
LEMMA BootCases ==
  ASSUME [BootNext]_allVars
  PROVE  timerSetup \/ Tick \/ UNCHANGED vars
  BY DEF BootNext, Start, NoFramebuffer, Framebuffer, SetUp, Log, Flag, FindRsdp, TimerStep,
         TimerDone, TimerPanic, Finish, NotEnoughMemory, Count, allVars

\* So does every step of boot.
LEMMA ClockNext == ClockInv /\ [BootNext]_allVars => ClockInv'
  BY BootCases, ClockStep, ClockTick, ClockSame DEF vars

\* What the clock shows: nothing until it is set up, then the ticks.
TicksShown == getNanos = IF isSetup /\ useHpet THEN elapsed * freqDiv ELSE 0

\* The invariant fixes what the clock shows.
LEMMA Shown == ClockInv => TicksShown
<1> SUFFICES ASSUME ClockInv
             PROVE  getNanos = IF isSetup /\ useHpet THEN elapsed * freqDiv ELSE 0
  BY DEF TicksShown
<1>1. CASE isSetup /\ useHpet
  <2>1. freqMult = 1 /\ nanosOffset = (counter - elapsed) * freqDiv
    BY <1>1 DEF ClockInv, Offset
  <2>2. Reading = counter * freqDiv
    BY <2>1, Division DEF Reading, ClockInv
  <2> QED
    BY <1>1, <2>1, <2>2, Ticks DEF getNanos, hpet_getNanos, ClockInv
<1>2. CASE ~(isSetup /\ useHpet)
  BY <1>2 DEF getNanos
<1> QED
  BY <1>1, <1>2

\* A step of the counter or of timerSetup never sets the clock back.
LEMMA NanosGrow ==
  ASSUME ClockInv, ClockInv', TicksShown, TicksShown', [BootNext]_allVars
  PROVE  [getNanos' >= getNanos]_vars
<1>1. CASE Tick
  <2>1. elapsed' = elapsed + 1 /\ UNCHANGED <<freqDiv, isSetup, useHpet>>
    BY <1>1 DEF Tick, clockVars, timerVars
  <2>2. elapsed * freqDiv \in Nat /\ elapsed' * freqDiv >= elapsed * freqDiv
    BY <2>1, TickOn DEF ClockInv
  <2> QED
    BY <2>1, <2>2, SMT DEF TicksShown
<1>2. CASE timerSetup
  <2>1. CASE Ready
    <3>1. elapsed' * freqDiv' \in Nat
      BY TickOn DEF ClockInv
    <3>2. ~isSetup
      BY <2>1, SMT DEF Ready, At, ClockInv
    <3> QED
      BY <3>1, <3>2, SMT DEF TicksShown
  <2>2. CASE ~Ready
    <3>1. ~isSetup'
      BY <1>2, <2>2, SMT
         DEF timerSetup, Confuse, Panic, Find, Disable, Period, SetComparator, madtSetup,
             ReadOffset, Trap, Enable, Quiet, SetDeadline, Arm, Return, At, Goto, ClockInv,
             timerVars
    <3>2. ~isSetup
      BY <1>2, <2>2, SMT
         DEF timerSetup, Confuse, Panic, Find, Disable, Period, SetComparator, madtSetup,
             ReadOffset, Trap, Enable, Quiet, SetDeadline, Arm, Return, At, Goto, ClockInv,
             timerVars
    <3> QED
      BY <3>1, <3>2, SMT DEF TicksShown
  <2> QED
    BY <2>1, <2>2
<1>3. CASE UNCHANGED vars
  BY <1>3
<1> QED
  BY <1>1, <1>2, <1>3, BootCases

\* From boot on the clock never goes back: not while it is set up, with a counter
\* that had been running, and not when the first reading is taken.
THEOREM ClockMonotone == BootSpec => ClockNeverBack
<1>1. BootInit => ClockInv
  BY ClockInit
<1>2. ClockInv /\ [BootNext]_allVars => ClockInv'
  BY ClockNext
<1>3. ClockInv => TicksShown
  BY Shown
<1>4. ClockInv /\ ClockInv' /\ TicksShown /\ TicksShown' /\ [BootNext]_allVars
        => [getNanos' >= getNanos]_vars
  BY NanosGrow
<1> QED
  BY <1>1, <1>2, <1>3, <1>4, PTL DEF BootSpec, ClockNeverBack

\* Ticks times rounded nanoseconds are as near to the time as ClockRate says.
LEMMA RateHolds == ASSUME ClockInv, TicksShown PROVE ClockRate
<1>1. OffsetHolds
  <2> SUFFICES ASSUME pc = "enable"
               PROVE  hpet_getNanos = 0
    BY DEF OffsetHolds, At
  <2>1. freqMult = 1 /\ nanosOffset = counter * freqDiv
    BY DEF ClockInv, Offset
  <2>2. Reading = counter * freqDiv
    BY <2>1, Division DEF Reading, ClockInv
  <2> QED
    BY <2>1, <2>2, SMT DEF hpet_getNanos, ClockInv
<1>2. ASSUME isSetup, useHpet
      PROVE  /\ getNanos * Unit <= elapsed * period
             /\ elapsed * period - getNanos * Unit <= elapsed * (Unit - 1)
  <2>1. getNanos = elapsed * freqDiv
    BY <1>2 DEF TicksShown
  <2>2. freqDiv = period \div Unit
    BY <1>2 DEF ClockInv, Offset
  <2>3. Unit \in Nat \ {0} /\ period \in Nat /\ elapsed \in Nat
    BY TimerAssumption DEF ClockInv
  <2>4. freqDiv \in Nat /\ Unit * freqDiv <= period /\ period < Unit * freqDiv + Unit
    BY <2>2, <2>3, Division
  <2> QED
    BY <2>1, <2>3, <2>4, Rounding
<1> QED
  BY <1>1, <1>2 DEF ClockRate

\* For every period of the counter the clock starts from zero, is never ahead, and
\* loses less than a nanosecond with each tick.
THEOREM ClockAccurate == BootSpec => []ClockRate
<1>1. BootInit => ClockInv
  BY ClockInit
<1>2. ClockInv /\ [BootNext]_allVars => ClockInv'
  BY ClockNext
<1>3. ClockInv => ClockRate
  BY Shown, RateHolds
<1> QED
  BY <1>1, <1>2, <1>3, PTL DEF BootSpec

-----------------------------------------------------------------------------
(* The tables.                                                             *)

\* A set of numbers that is not empty has a least one.
LEMMA LeastOf ==
  ASSUME NEW S \in SUBSET Nat, S # {}
  PROVE  \E n \in S : \A m \in S : n <= m
<1>1. PICK n \in S : \A m \in S : ~(<<m, n>> \in OpToRel(<, Nat))
  BY NatLessThanWellFounded, WFMin
<1>2. \A m \in S : ~(m < n)
  BY <1>1 DEF OpToRel
<1> QED
  BY <1>2

\* The loop of getAcpiTable over the first m tables, as the rounds of f.
RoundOf(s, f, n) == IF n = 0 THEN NULL ELSE Round(s, f[n - 1], n)
IsLoop(s, f, m) == f = [n \in 0..m |-> RoundOf(s, f, n)]

\* The loop has its rounds, however long the table is.
LEMMA LoopExists ==
  ASSUME NEW s, NEW l \in Nat
  PROVE  \E f : IsLoop(s, f, l)
<1> DEFINE S == {m \in Nat : ~ \E f : IsLoop(s, f, m)}
<1> SUFFICES ASSUME S # {} PROVE FALSE
  OBVIOUS
<1>1. PICK m \in S : \A n \in S : m <= n
  BY LeastOf
<1>2. CASE m = 0
  <2> DEFINE g == [n \in 0..0 |-> NULL]
  <2>1. \A n \in 0..0 : RoundOf(s, g, n) = NULL
    BY DEF RoundOf
  <2>2. IsLoop(s, g, 0)
    BY <2>1 DEF IsLoop
  <2> QED
    BY <1>2, <2>2
<1>3. CASE m # 0
  <2>1. m - 1 \in Nat /\ ~(m <= m - 1)
    BY <1>3
  <2>2. PICK f : IsLoop(s, f, m - 1)
    BY <1>1, <2>1
  <2> DEFINE g == [n \in 0..m |-> RoundOf(s, f, n)]
  <2>3. \A n \in 0..(m - 1) : f[n] = RoundOf(s, f, n)
    BY <2>2 DEF IsLoop
  <2>4. \A n \in 0..(m - 1) : g[n] = f[n]
    BY <2>3
  <2>5. ASSUME NEW n \in 0..m
        PROVE  RoundOf(s, g, n) = RoundOf(s, f, n)
    <3>1. CASE n = 0
      BY <3>1 DEF RoundOf
    <3>2. CASE n # 0
      <4>1. g[n - 1] = f[n - 1]
        BY <2>4, <3>2
      <4> HIDE DEF g
      <4> QED
        BY <4>1, <3>2 DEF RoundOf
    <3> QED
      BY <3>1, <3>2
  <2>6. IsLoop(s, g, m)
    BY <2>5 DEF IsLoop
  <2> QED
    BY <2>6
<1> QED
  BY <1>2, <1>3

\* What the first n tables have: none to return, or k the first of them.
Best(s, k, n) ==
  IF Sound(s) \cap (1..n) = {} THEN k = NULL
  ELSE k \in Sound(s) \cap (1..n) /\ \A j \in Sound(s) \cap (1..n) : k <= j

\* The search returns with the first sound table of the name.
LEMMA SearchFinds ==
  ASSUME Len(rsdt) \in Nat, DOMAIN rsdt = 1..Len(rsdt), NEW s
  PROVE  Best(s, Search(s), Len(rsdt))
<1> DEFINE l == Len(rsdt)
           f == CHOOSE g : IsLoop(s, g, l)
<1>1. IsLoop(s, f, l)
  BY LoopExists
<1>2. Search(s) = f[l]
  BY DEF Search, IsLoop, RoundOf
<1>3. \A n \in 0..l : f[n] = RoundOf(s, f, n)
  BY <1>1 DEF IsLoop
<1> HIDE DEF f, l
<1> DEFINE S == {n \in 0..l : ~Best(s, f[n], n)}
<1>4. S # {} => FALSE
  <2> SUFFICES ASSUME S # {} PROVE FALSE
    OBVIOUS
  <2>1. PICK n \in S : \A m \in S : n <= m
    <3>1. S \in SUBSET Nat
      BY DEF l
    <3> HIDE DEF S
    <3> QED
      BY <3>1, LeastOf
  <2>2. n # 0
    <3>1. f[0] = NULL
      BY <1>3 DEF RoundOf, l
    <3> QED
      BY <2>1, <3>1 DEF Best
  <2>3. n \in 1..l /\ n - 1 \in 0..l /\ ~(n <= n - 1)
    BY <2>2 DEF l
  <2>4. Best(s, f[n - 1], n - 1)
    BY <2>1, <2>3
  <2>5. f[n] = Round(s, f[n - 1], n)
    BY <1>3, <2>2, <2>3 DEF RoundOf
  <2>6. n \in Sound(s) <=> rsdt[n].sound /\ rsdt[n].signature = s
    BY <2>3 DEF Sound, l
  <2>7. 1..n = (1..(n - 1)) \cup {n}
    BY <2>3 DEF l
  <2>8. CASE Sound(s) \cap (1..(n - 1)) # {}
    <3>1. f[n - 1] \in Sound(s) \cap (1..(n - 1)) /\ \A j \in Sound(s) \cap (1..(n - 1)) : f[n - 1] <= j
      BY <2>4, <2>8 DEF Best
    <3>2. f[n] = f[n - 1]
      BY <2>5, <3>1 DEF Round, NULL
    <3>3. Best(s, f[n], n)
      BY <2>3, <2>7, <3>1, <3>2 DEF Best
    <3> QED
      BY <3>3
  <2>9. CASE Sound(s) \cap (1..(n - 1)) = {}
    <3>1. f[n - 1] = NULL
      BY <2>4, <2>9 DEF Best
    <3>2. f[n] = IF n \in Sound(s) THEN n ELSE NULL
      BY <2>5, <2>6, <3>1 DEF Round
    <3>3. Sound(s) \cap (1..n) = IF n \in Sound(s) THEN {n} ELSE {}
      BY <2>7, <2>9
    <3>4. Best(s, f[n], n)
      BY <2>3, <3>2, <3>3 DEF Best
    <3> QED
      BY <3>4
  <2> QED
    BY <2>8, <2>9
<1>5. l \in 0..l
  BY DEF l
<1> QED
  BY <1>2, <1>4, <1>5 DEF l

\* The firmware's tables, and what is known of the HPET at each step.
HpetInv ==
  /\ Len(rsdt) \in Nat /\ DOMAIN rsdt = 1..Len(rsdt)
  /\ pc \in {"disable", "period", "comparators", "offset", "enable",
             "setTimer", "deadline", "arm", "return"} => getAcpiTable("HPET") # NULL
  /\ pc = "pit" => getAcpiTable("HPET") = NULL
  /\ pc \in {"isSetup", "done"} => (useHpet <=> getAcpiTable("HPET") # NULL)

\* Boot starts with a root table and before the search.
LEMMA HpetInit == BootInit => HpetInv
<1> SUFFICES ASSUME BootInit PROVE HpetInv
  OBVIOUS
<1>1. PICK n \in 0..MaxTables : rsdt \in [1..n -> Tables]
  BY DEF BootInit, Init, AcpiInit
<1>2. n \in Nat
  BY AcpiAssumption
<1>3. Len(rsdt) = n /\ DOMAIN rsdt = 1..n
  BY <1>1, <1>2
<1> QED
  BY <1>2, <1>3 DEF BootInit, Init, HpetInv

\* What is found does not change once confuseAcpi is done.
LEMMA FoundStays ==
  ASSUME UNCHANGED acpiVars
  PROVE  /\ Len(rsdt)' = Len(rsdt) /\ (DOMAIN rsdt)' = DOMAIN rsdt
         /\ getAcpiTable("HPET")' = getAcpiTable("HPET")
  BY DEF acpiVars, getAcpiTable, Search, Round

\* Each step of timerSetup keeps to what is known.
LEMMA HpetStep == HpetInv /\ [BootNext]_allVars => HpetInv'
<1> SUFFICES ASSUME HpetInv, [BootNext]_allVars
             PROVE  HpetInv'
  OBVIOUS
<1> DEFINE Found == {"disable", "period", "comparators", "offset", "enable",
                     "setTimer", "deadline", "arm", "return"}
<1>1. ASSUME UNCHANGED acpiVars, pc \in Found, pc' \in Found \cup {"trap"}
      PROVE  HpetInv'
  BY <1>1, FoundStays DEF HpetInv
<1>2. CASE Confuse \/ Panic
  BY <1>2 DEF Confuse, Panic, confuseAcpi, At, Goto, acpiVars, HpetInv
<1>3. CASE Find
  BY <1>3, FoundStays DEF Find, At, Goto, HpetInv
<1>4. CASE Disable \/ Period \/ SetComparator \/ madtSetup \/ ReadOffset \/ Trap \/ Enable
  BY <1>1, <1>4 DEF Disable, Period, SetComparator, madtSetup, ReadOffset, Trap, Enable, At, Goto
<1>5. CASE Quiet \/ SetDeadline \/ Arm
  BY <1>1, <1>5 DEF Quiet, SetDeadline, Arm, At, Goto
<1>6. CASE Return
  BY <1>6, FoundStays DEF Return, At, Goto, HpetInv
<1>7. CASE Ready
  BY <1>7, FoundStays DEF Ready, At, Goto, HpetInv
<1>8. CASE Tick \/ UNCHANGED vars
  BY <1>8, FoundStays DEF Tick, vars, timerVars, HpetInv
<1> QED
  BY <1>2, <1>3, <1>4, <1>5, <1>6, <1>7, <1>8, BootCases DEF timerSetup

\* The search is right, and the outcome of timerSetup is that of the search.
LEMMA HpetRight == HpetInv => HpetUsed
<1> SUFFICES ASSUME HpetInv PROVE HpetUsed
  OBVIOUS
<1>1. ASSUME NEW s
      PROVE  IF Sound(s) = {} THEN Search(s) = NULL
             ELSE Search(s) \in Sound(s) /\ \A j \in Sound(s) : Search(s) <= j
  <2>1. Sound(s) \cap (1..Len(rsdt)) = Sound(s)
    BY DEF HpetInv, Sound
  <2> QED
    BY <2>1, SearchFinds DEF HpetInv, Best
<1>2. SearchRight
  BY <1>1 DEF SearchRight, getAcpiTable
<1>3. getAcpiTable("HPET") # NULL <=> acpiSetup /\ ~isAcpiV2 /\ Sound("HPET") # {}
  <2>1. NULL \notin Sound("HPET")
    BY DEF HpetInv, Sound, NULL
  <2> QED
    BY <1>1, <2>1 DEF getAcpiTable
<1> QED
  BY <1>2, <1>3 DEF HpetInv, HpetUsed, At

\* For every root table, whatever its length and its tables: the search returns the
\* first sound table of the name, and the HPET is used just when there is one.
THEOREM HpetFound == BootSpec => []HpetUsed
<1>1. BootInit => HpetInv
  BY HpetInit
<1>2. HpetInv /\ [BootNext]_allVars => HpetInv'
  BY HpetStep
<1>3. HpetInv => HpetUsed
  BY HpetRight
<1> QED
  BY <1>1, <1>2, <1>3, PTL DEF BootSpec
=============================================================================
