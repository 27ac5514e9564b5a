-------------------------------- MODULE Boot --------------------------------
(***************************************************************************)
(* _start of kernel.c: the tags of the boot loader, the order in which the *)
(* parts of the kernel are set up, the interrupt flag on the way, and the  *)
(* ways boot ends.  Its last part is the set-up of the timer, composed     *)
(* here with the module Timer step by step.                                *)
(***************************************************************************)
EXTENDS Timer, FiniteSets, SequencesExt

CONSTANT MaxTags    \* bound on the list of tags

VARIABLES
  tags,             \* the identifiers in the boot loader's list
  stage,            \* the number of the step of Order that is next
  ready,            \* the parts of the kernel that are set up
  intFlag,
  halted            \* in a loop of hlt, in kpanic or at the end of _start

bootVars == <<tags, stage, ready, intFlag, halted>>
allVars == <<vars, bootVars>>

Identifiers == {"framebuffer", "memmap", "rsdp", "other"}

\* getTag: the first tag with the identifier, if there is one.
getTag(id) == SelectInSeq(tags, LAMBDA tag : tag = id)

\* Mutated: the memory map is logged before there is a heap.
OrderLogFirst == <<"framebuffer", "cli", "memory", "background", "log", "heap",
                   "interrupts", "sti", "rsdp", "timer", "stop">>

\* The calls of _start.
Order == <<"framebuffer", "cli", "memory", "heap", "background", "log",
           "interrupts", "sti", "rsdp", "timer", "stop">>

Allocates == {"framebuffer", "memory", "heap"}

\* The parts each of them calls into, through whatever it calls, a line of the log
\* before it and a panic included: every line and every panic takes the screen, and
\* kalloc may expand the heap by pages.  Not counted is the kalloc of pmm_split in
\* initKernelHeap: RoomToSplit of SetupMemoryMap is that the table has room.
Needs ==
  [framebuffer |-> {}, cli |-> {}, stop |-> {},
   memory |-> {"framebuffer"},                     \* memory.c:93-97
   heap |-> {"framebuffer", "memory"},             \* heap.c:11, memory.c:440
   background |-> Allocates,                       \* framebuffer.c:106, memory.c:456
   log |-> Allocates,                              \* memory.c:224, logging.c:31, 182
   interrupts |-> {"framebuffer"},                 \* kernel.c:105
   sti |-> {"framebuffer"},                        \* kernel.c:108
   rsdp |-> {"framebuffer"},                       \* kernel.c:113-114
   timer |-> Allocates]                            \* acpi.c:64, timer.c:12

BootInit ==
  /\ Init
  /\ tags \in UNION {[1..n -> Identifiers] : n \in 0..MaxTags}
  /\ stage = 1
  /\ ready = {}
  /\ intFlag = FALSE
  /\ halted = FALSE

Now(step) == ~halted /\ Order[stage] = step
Done == stage' = stage + 1
Stop == halted' = TRUE /\ intFlag' = FALSE

\* Without a frame buffer there is nothing to show anything on.
NoFramebuffer ==
  /\ Now("framebuffer") /\ getTag("framebuffer") = 0
  /\ Stop
  /\ UNCHANGED <<vars, tags, stage, ready>>

Framebuffer ==
  /\ Now("framebuffer") /\ getTag("framebuffer") # 0
  /\ ready' = ready \cup {"framebuffer"}
  /\ Done
  /\ UNCHANGED <<vars, tags, intFlag, halted>>

\* The tag of the memory map is read without a check: without one, what follows
\* is undefined, and the step is not taken.
SetUp(part) ==
  /\ Now(part)
  /\ part = "memory" => getTag("memmap") # 0
  /\ ready' = ready \cup {part}
  /\ Done
  /\ UNCHANGED <<vars, tags, intFlag, halted>>

\* setupMemoryMap panics when no region can take the table.
NotEnoughMemory ==
  /\ Now("memory") /\ getTag("memmap") # 0
  /\ Stop
  /\ UNCHANGED <<vars, tags, stage, ready>>

\* The lines of boot and printPmm change nothing here: the buffer that printMemory
\* prints from is freed again.
Log ==
  /\ Now("log") /\ Done
  /\ UNCHANGED <<vars, tags, ready, intFlag, halted>>

Flag ==
  /\ Now("cli") \/ Now("sti")
  /\ intFlag' = Now("sti")
  /\ Done
  /\ UNCHANGED <<vars, tags, ready, halted>>

\* A missing tag is a panic.
FindRsdp ==
  /\ Now("rsdp")
  /\ IF getTag("rsdp") = 0 THEN Stop /\ UNCHANGED stage
     ELSE Done /\ UNCHANGED <<intFlag, halted>>
  /\ UNCHANGED <<vars, tags, ready>>

\* confuseAcpi and timerSetup; hpet_setTimer begins with cli and ends with sti.
TimerStep ==
  /\ Now("timer")
  /\ timerSetup
  /\ intFlag' = (At("arm") \/ (intFlag /\ ~At("setTimer")))
  /\ UNCHANGED <<tags, stage, ready, halted>>

TimerDone ==
  /\ Now("timer") /\ At("done") /\ Done
  /\ UNCHANGED <<vars, tags, ready, intFlag, halted>>

\* Mutated: a division by zero is only logged, and divides again.
TimerPanicOnly ==
  /\ Now("timer") /\ At("panic")
  /\ Stop
  /\ UNCHANGED <<vars, tags, stage, ready>>

\* kpanic, or kpanici from irq00Handler.
TimerPanic ==
  /\ Now("timer") /\ (At("panic") \/ At("trap"))
  /\ Stop
  /\ UNCHANGED <<vars, tags, stage, ready>>

Finish ==
  /\ Now("stop")
  /\ Stop
  /\ UNCHANGED <<vars, tags, stage, ready>>

Start ==
  \/ NoFramebuffer \/ Framebuffer \/ NotEnoughMemory
  \/ \E part \in {"memory", "heap", "background", "interrupts"} : SetUp(part)
  \/ Log \/ Flag \/ FindRsdp \/ TimerStep \/ TimerDone \/ TimerPanic \/ Finish

Count == Tick /\ UNCHANGED bootVars

BootNext == Start \/ Count

BootSpec == BootInit /\ [][BootNext]_allVars /\ WF_allVars(Start)
-----------------------------------------------------------------------------
(* Properties.                                                             *)

\* Interrupts are on only with the kernel's descriptor table loaded, and a
\* division by zero in hpet_getNanos finds its handler.
TableLoaded == (intFlag \/ At("trap")) => "interrupts" \in ready

\* However boot ends, nothing is delivered any more.
HaltedDeaf == halted => ~intFlag

\* No part of the kernel is called before it is set up, by _start or by an
\* interrupt, and none after the end.
CalledWhenReady ==
  /\ ~halted => Needs[Order[stage]] \subseteq ready
  /\ TableLoaded
  /\ HaltedDeaf

\* Boot ends for every list of tags with a memory map, every root pointer and
\* every period: it stops at a panic or at the end of _start.
BootEnds == (getTag("memmap") # 0) => <>[]halted
=============================================================================
