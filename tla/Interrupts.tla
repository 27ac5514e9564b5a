----------------------------- MODULE Interrupts -----------------------------
(***************************************************************************)
(* Exceptions of interrupts/: the descriptor table, the assembly stubs,    *)
(* their handlers and the panic screen, executed instruction by            *)
(* instruction by a processor that delivers exceptions in C code and       *)
(* non-maskable interrupts between any two instructions.                   *)
(*                                                                         *)
(* The stack is a sequence of words whose length stands for %rsp: what is  *)
(* below %rsp is gone.  An address of code is a number, so that it can be  *)
(* pushed, cut into the fields of a descriptor and jumped to.              *)
(***************************************************************************)
EXTENDS Integers, Sequences, SequencesExt, FiniteSets

CONSTANTS
  Vectors,          \* the exceptions that happen in C code
  ErrorCodes,       \* the error codes the processor gives
  Piece,            \* 2^16: what a 16-bit field of a descriptor holds
  MaxInterrupts     \* bound on the exceptions and interrupts of a behaviour

NMI == 2
NotPresent == 11
AllVectors == 0..31
NULL == 0

\* The exceptions for which the processor pushes an error code.
PushesError == {8, 10, 11, 12, 13, 14, 17, 21, 29, 30}

ASSUME InterruptsAssumption ==
  /\ Vectors \subseteq 0..20 /\ ErrorCodes \subseteq Nat /\ 0 \in ErrorCodes
  /\ Piece \in Nat /\ Piece > 1 /\ MaxInterrupts \in Nat

VARIABLES
  idtTable,
  rip, regs, stack, intFlag,
  nmiBlocked,       \* until the next iretq
  shown,            \* what the panic screen shows
  interrupted,      \* history: the contexts that wait for an iretq
  taken             \* counts up to MaxInterrupts

vars == <<idtTable, rip, regs, stack, intFlag, nmiBlocked, shown, interrupted, taken>>

rsp == Len(stack)
Junk == 999
Word(b) == IF b THEN 1 ELSE 0

Registers == {"rax", "rbx", "rcx", "rdx", "rbp", "rsi", "rdi", "r8", "r9", "r10",
              "r11", "r12", "r13", "r14", "r15"}

\* What a C function of the System V ABI may change.
CallerSaved == {"rax", "rcx", "rdx", "rsi", "rdi", "r8", "r9", "r10", "r11"}

-----------------------------------------------------------------------------
(* The stubs.                                                              *)

PushOrder == <<"r15", "r14", "r13", "r12", "r11", "r10", "r9", "r8",
               "rdi", "rsi", "rsp", "rbp", "rdx", "rcx", "rbx", "rax">>

\* Mutated: rsi and rdi are popped in the order they were pushed.
PopOrderSwapped == <<"rax", "rbx", "rcx", "rdx", "rbp", "rsp", "rdi", "rsi",
                     "r8", "r9", "r10", "r11", "r12", "r13", "r14", "r15">>

PopOrder == <<"rax", "rbx", "rcx", "rdx", "rbp", "rsp", "rsi", "rdi",
              "r8", "r9", "r10", "r11", "r12", "r13", "r14", "r15">>

\* Mutated: the page fault's stub pushes a 0 on top of the error code.
StubsWithoutCodeShort == {8, 10, 11, 12, 13, 17, 30}

\* The stubs that leave the place of the error code to the processor.
StubsWithoutCode == {8, 10, 11, 12, 13, 14, 17, 30}

Stub(v) ==
  (IF v \in StubsWithoutCode THEN <<>> ELSE << <<"push 0">> >>)
  \o [i \in 1..16 |-> <<"push", PushOrder[i]>>]
  \o << <<"mov rsp, rdi">>, <<"call handler">> >>
  \o [i \in 1..16 |-> <<"pop", PopOrder[i]>>]
  \o << <<"pop irqErrorCode">>, <<"iretq">> >>

\* Code addresses: C code, then 64 addresses for each stub and its handler.
Main == 1..2
Stubs(v) == (v + 1) * 64
HandlerEntry(v) == Stubs(v) + 48
HandlerExit(v) == Stubs(v) + 49
Halt == 40 * 64

VectorAt(a) == (a \div 64) - 1
Offset(a) == a % 64
InStub == rip >= 64 /\ rip < Halt /\ Offset(rip) < 48
InHandler == rip >= 64 /\ rip < Halt /\ Offset(rip) >= 48
Instruction == Stub(VectorAt(rip))[Offset(rip) + 1]

-----------------------------------------------------------------------------
(* setupInterrupts                                                         *)

\* 0x0e | (mode & 1) | ((mode << 6) & 0x80)
Attributes(mode) == [present |-> mode \div 2 = 1, trap |-> mode % 2 = 1]

setInterrupt(handler, mode) ==
  [offset0 |-> handler % Piece,
   offset1 |-> (handler \div Piece) % Piece,
   offset2 |-> handler \div (Piece * Piece),
   attributes |-> Attributes(mode)]

IRQ_MODE_DISABLED == 0
IRQ_MODE_INTERRUPT == 2

\* Mutated: the faults from "segment not present" on are left disabled.
setupInterruptsShort ==
  [v \in AllVectors |-> IF v <= 10 THEN setInterrupt(Stubs(v), IRQ_MODE_INTERRUPT)
                        ELSE setInterrupt(NULL, IRQ_MODE_DISABLED)]

setupInterrupts ==
  [v \in AllVectors |-> IF v <= 15 THEN setInterrupt(Stubs(v), IRQ_MODE_INTERRUPT)
                        ELSE setInterrupt(NULL, IRQ_MODE_DISABLED)]

\* Boot after "lidt" and "sti": every register holds something of its own.
Init ==
  /\ idtTable = setupInterrupts
  /\ rip = 1
  /\ \E value \in {[r \in Registers |-> 1000 + CHOOSE i \in 1..16 : PushOrder[i] = r]} :
       regs = value
  /\ stack = <<Junk, Junk>>
  /\ intFlag = TRUE
  /\ nmiBlocked = FALSE
  /\ shown = <<>>
  /\ interrupted = <<>>
  /\ taken = 0

-----------------------------------------------------------------------------
(* The processor.                                                          *)

Gate(v) == idtTable[v].offset0 + Piece * idtTable[v].offset1
           + Piece * Piece * idtTable[v].offset2

\* The stack is aligned to two words before the frame is pushed.
Aligned == IF rsp % 2 = 0 THEN stack ELSE Append(stack, Junk)

Deliver(v, code) ==
  /\ stack' = Aligned \o <<16, rsp, Word(intFlag), 8, rip>>
              \o (IF v \in PushesError THEN <<code>> ELSE <<>>)
  /\ rip' = Gate(v)
  /\ intFlag' = (intFlag /\ idtTable[v].attributes.trap)
  /\ interrupted' = Append(interrupted,
       [rip |-> rip, regs |-> regs, rsp |-> rsp, rflags |-> Word(intFlag), vector |-> v,
        code |-> IF v \in PushesError THEN code ELSE 0])
  /\ taken' = taken + 1
  /\ UNCHANGED <<idtTable, regs, shown>>

\* A descriptor that is not present raises an exception of its own.
Exception(v, code) ==
  /\ rip \in Main \/ InHandler
  /\ taken < MaxInterrupts
  /\ IF idtTable[v].attributes.present THEN Deliver(v, code)
     ELSE Deliver(NotPresent, 8 * v + 2)
  /\ UNCHANGED nmiBlocked

NonMaskable ==
  /\ ~nmiBlocked
  /\ taken < MaxInterrupts
  /\ Deliver(NMI, 0)
  /\ nmiBlocked' = TRUE

-----------------------------------------------------------------------------
(* The instructions of a stub.                                             *)

Step == rip' = rip + 1

RegisterWord(r) == IF r = "rsp" THEN rsp ELSE regs[r]
Push(word) == stack' = Append(stack, word)
Popped == stack[rsp]

PushZero ==
  /\ InStub /\ Instruction = <<"push 0">>
  /\ Push(0) /\ Step
  /\ UNCHANGED <<idtTable, regs, intFlag, nmiBlocked, shown, interrupted, taken>>

PushRegister ==
  /\ InStub /\ Instruction[1] = "push"
  /\ Push(RegisterWord(Instruction[2])) /\ Step
  /\ UNCHANGED <<idtTable, regs, intFlag, nmiBlocked, shown, interrupted, taken>>

PassFrame ==
  /\ InStub /\ Instruction = <<"mov rsp, rdi">>
  /\ regs' = [regs EXCEPT !["rdi"] = rsp]
  /\ Step
  /\ UNCHANGED <<idtTable, stack, intFlag, nmiBlocked, shown, interrupted, taken>>

CallHandler ==
  /\ InStub /\ Instruction = <<"call handler">>
  /\ Push(rip + 1)
  /\ rip' = HandlerEntry(VectorAt(rip))
  /\ UNCHANGED <<idtTable, regs, intFlag, nmiBlocked, shown, interrupted, taken>>

PopRegister ==
  /\ InStub /\ Instruction[1] = "pop" /\ Instruction[2] # "rsp"
  /\ regs' = [regs EXCEPT ![Instruction[2]] = Popped]
  /\ stack' = Front(stack)
  /\ Step
  /\ UNCHANGED <<idtTable, intFlag, nmiBlocked, shown, interrupted, taken>>

\* pop %rsp: the word popped is where the stack ends from now on.
PopRsp ==
  /\ InStub /\ Instruction = <<"pop", "rsp">>
  /\ stack' = SubSeq(stack, 1, Popped)
  /\ Step
  /\ UNCHANGED <<idtTable, regs, intFlag, nmiBlocked, shown, interrupted, taken>>

PopErrorCode ==
  /\ InStub /\ Instruction = <<"pop irqErrorCode">>
  /\ stack' = Front(stack)
  /\ Step
  /\ UNCHANGED <<idtTable, regs, intFlag, nmiBlocked, shown, interrupted, taken>>

Iretq ==
  /\ InStub /\ Instruction = <<"iretq">>
  /\ rip' = stack[rsp]
  /\ intFlag' = (stack[rsp - 2] = 1)
  /\ stack' = SubSeq(stack, 1, stack[rsp - 3])
  /\ nmiBlocked' = FALSE
  /\ interrupted' = Front(interrupted)
  /\ UNCHANGED <<idtTable, regs, shown, taken>>

-----------------------------------------------------------------------------
(* The handlers and kpanici.                                               *)

Panics == {0, 5, 6, 7, 8, 11, 12, 13, 14, 17, 18, 19, 20, 30}

\* A handler that returns may have changed the registers a C function may.
HandlerLogs ==
  /\ InHandler /\ rip = HandlerEntry(VectorAt(rip)) /\ VectorAt(rip) \notin Panics
  /\ regs' = [r \in Registers |-> IF r \in CallerSaved THEN Junk ELSE regs[r]]
  /\ rip' = HandlerExit(VectorAt(rip))
  /\ UNCHANGED <<idtTable, stack, intFlag, nmiBlocked, shown, interrupted, taken>>

HandlerReturns ==
  /\ InHandler /\ rip = HandlerExit(VectorAt(rip))
  /\ rip' = Popped
  /\ stack' = Front(stack)
  /\ UNCHANGED <<idtTable, regs, intFlag, nmiBlocked, shown, interrupted, taken>>

\* struct interrupt_frame
Fields == <<"rax", "rbx", "rcx", "rdx", "rbp", "rsp0", "rsi", "rdi",
            "r8", "r9", "r10", "r11", "r12", "r13", "r14", "r15",
            "errorCode", "rip", "cs", "rflags", "rsp", "ss">>

\* Where the C code goes on after the instruction at rip.
ReturnAddress == 3 - rip

FieldAt(frame, i) == stack[frame - i]
Field(frame, name) == FieldAt(frame, CHOOSE i \in 0..21 : Fields[i + 1] = name)

regNames == <<"rax", "rbx", "rcx", "rdx", "rsp", "rbp", "rsi", "rdi",
              "r8", "r9", "r10", "r11", "r12", "r13", "r14", "r15">>

\* Mutated: the registers are counted from the word after the frame's first.
ScreenLate(frame) ==
  [rip |-> Field(frame, "rip"),
   registers |-> [i \in 1..16 |-> <<regNames[i], FieldAt(frame, i)>>]]

\* The lines kpanici prints: temp = (&data->rax)[i] next to regNames[i].
Screen(frame) ==
  [rip |-> Field(frame, "rip"),
   registers |-> [i \in 1..16 |-> <<regNames[i], FieldAt(frame, i - 1)>>]]

\* kpanic, called by C code: it pushes the registers for its own screen.
PanicPushOrder == <<"r15", "r14", "r13", "r12", "r11", "r10", "r9", "r8",
                    "rdi", "rsi", "rsp", "rbp", "rdx", "rcx", "rbx", "rax">>

kpanic ==
  /\ rip \in Main
  /\ shown' = <<[rip |-> ReturnAddress,
                registers |-> [i \in 1..16 |-> <<regNames[i], RegisterWord(PanicPushOrder[17 - i])>>]]>>
  /\ intFlag' = FALSE
  /\ rip' = Halt
  /\ UNCHANGED <<idtTable, regs, stack, nmiBlocked, interrupted, taken>>

kpanici ==
  /\ InHandler /\ rip = HandlerEntry(VectorAt(rip)) /\ VectorAt(rip) \in Panics
  /\ shown' = <<Screen(regs["rdi"])>>
  /\ intFlag' = FALSE
  /\ rip' = Halt
  /\ UNCHANGED <<idtTable, regs, stack, nmiBlocked, interrupted, taken>>

-----------------------------------------------------------------------------
(* The code that is interrupted: it pushes, pops, loads, sti and cli.      *)

Continue == rip' = ReturnAddress

MainStack ==
  /\ rip \in Main
  /\ stack' = IF rsp = 2 THEN Append(stack, Junk) ELSE Front(stack)
  /\ Continue
  /\ UNCHANGED <<idtTable, regs, intFlag, nmiBlocked, shown, interrupted, taken>>

MainFlag ==
  /\ rip \in Main
  /\ intFlag' = ~intFlag
  /\ Continue
  /\ UNCHANGED <<idtTable, regs, stack, nmiBlocked, shown, interrupted, taken>>

Instructions ==
  \/ PushZero \/ PushRegister \/ PassFrame \/ CallHandler
  \/ PopRegister \/ PopRsp \/ PopErrorCode \/ Iretq
  \/ HandlerLogs \/ HandlerReturns \/ kpanici
  \/ MainStack \/ MainFlag

Next ==
  \/ Instructions \/ kpanic
  \/ \E v \in Vectors, code \in ErrorCodes : Exception(v, code)
  \/ NonMaskable

\* The processor goes on; nothing has to interrupt it.
Spec == Init /\ [][Next]_vars /\ WF_vars(Instructions)
-----------------------------------------------------------------------------
(* Properties.                                                             *)

\* The faults, after which the processor executes the same instruction again,
\* and the aborts; without #TS, which takes a task switch.
FaultsAndAborts == {0, 5, 6, 7, 8, 11, 12, 13, 14, 16, 17, 18, 19, 20}

\* An iretq gives the interrupted code back its instruction, every register,
\* its stack and its interrupt flag, however deep the exceptions nest and
\* between whichever two instructions of a stub they arrive.  It never goes back
\* to an instruction that would fault again for ever.
ReturnsUnchanged ==
  [][Iretq => LET was == Last(interrupted)
              IN /\ was.vector \notin FaultsAndAborts
                 /\ rip' = was.rip /\ regs' = was.regs
                 /\ Len(stack') = was.rsp /\ Word(intFlag') = was.rflags]_vars

\* A handler finds in its frame, field by field, what was interrupted and the
\* error code: the order of the pushes is the order of struct interrupt_frame,
\* with the stub's 0 exactly where the processor gives no error code.
FrameMatches ==
  (InHandler /\ rip = HandlerEntry(VectorAt(rip))) =>
    LET was == Last(interrupted)
        frame == regs["rdi"]
    IN /\ was.vector = VectorAt(rip)
       /\ \A r \in Registers : Field(frame, r) = was.regs[r]
       /\ Field(frame, "errorCode") = was.code
       /\ Field(frame, "rip") = was.rip
       /\ Field(frame, "rsp") = was.rsp
       /\ Field(frame, "rflags") = was.rflags

\* The ABI's alignment at every call of a handler, from code with any stack.
CallsAligned ==
  (InStub /\ Instruction = <<"call handler">>) => rsp % 2 = 0

\* Interrupts stay off from the first instruction of a stub to the last.
InterruptsOff == (InStub \/ InHandler) => ~intFlag

\* Every handler is called as C code may expect it to be.
HandlersSafe == FrameMatches /\ CallsAligned /\ InterruptsOff

Panicked == shown # <<>>

\* What a panic is about: the fault's context or that of kpanic's caller.
Context ==
  IF rip \in Main THEN [rip |-> ReturnAddress, regs |-> regs] ELSE Last(interrupted)

\* The panic screen shows the rip of the fault, not one of an interrupt that
\* arrived meanwhile, and each register but rsp and rbp next to its name.
ScreenRight ==
  [][shown' # shown =>
       /\ shown'[1].rip = Context.rip
       /\ \A i \in 1..16 : LET row == shown'[1].registers[i]
                           IN row[1] \notin {"rsp", "rbp"} => row[2] = Context.regs[row[1]]]_vars

\* Every exception that does not stop the kernel is returned from.
HandlersReturn == (interrupted # <<>>) ~> (interrupted = <<>> \/ Panicked)
=============================================================================
