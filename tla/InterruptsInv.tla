---------------------------- MODULE InterruptsInv ----------------------------
(***************************************************************************)
(* The inductive invariant behind the theorems of InterruptsProofs: how    *)
(* far each exception that has been taken is in its stub, and what is on   *)
(* the stack for it.  An exception's point of execution is the processor's *)
(* for the innermost one and the context the next one interrupted for any  *)
(* other, so that one definition serves for both.                          *)
(***************************************************************************)
EXTENDS Interrupts

Interruption ==
  [rip : Int, regs : [Registers -> Int], rsp : Nat, rflags : {0, 1},
   vector : 0..15, code : Int]

\* Where a stub is: 0 before "push 0", which some stubs leave out, 1 before the
\* first push of a register, 17 before "mov", 18 before "call", 19 before the
\* first pop, 35 before the pop of the error code and 36 before "iretq".
Extra(v) == IF v \in StubsWithoutCode THEN 1 ELSE 0
At(v, q) == Stubs(v) + q - Extra(v)
Places(v) == Extra(v)..36

Instr(q) ==
  IF q = 0 THEN <<"push 0">>
  ELSE IF q <= 16 THEN <<"push", PushOrder[q]>>
  ELSE IF q = 17 THEN <<"mov rsp, rdi">>
  ELSE IF q = 18 THEN <<"call handler">>
  ELSE IF q <= 34 THEN <<"pop", PopOrder[q - 18]>>
  ELSE IF q = 35 THEN <<"pop irqErrorCode">>
  ELSE <<"iretq">>

\* How many words of the frame are on the stack.
Height(q) == IF q <= 17 THEN 5 + q ELSE IF q = 18 THEN 22 ELSE 41 - q

\* The stack when c was interrupted, aligned, and the frame on top of it: what
\* the processor pushes, the error code and the registers.
Base(c) == c.rsp + (c.rsp % 2)
Saved(c, r) == IF r = "rsp" THEN Base(c) + 16 ELSE c.regs[r]
FrameWord(c, w) ==
  IF w <= 5 THEN <<16, c.rsp, c.rflags, 8, c.rip>>[w]
  ELSE IF w = 6 THEN c.code
  ELSE Saved(c, PushOrder[w - 6])

Framed(c, s, n) == \A w \in 1..n : s[Base(c) + w] = FrameWord(c, w)

\* The registers that have their old values from the handler's return on.
Restored(q) == {PopOrder[j] : j \in {i \in 1..16 : i <= q - 19}}
Kept(q) ==
  IF q <= 17 THEN Registers
  ELSE IF q = 18 THEN Registers \ {"rdi"}
  ELSE (Registers \ CallerSaved) \cup (Registers \cap Restored(q))

SameRegs(c, p, R) == \A r \in R : p.regs[r] = c.regs[r]

StubAt(c, p, s, q) ==
  /\ p.rip = At(c.vector, q)
  /\ p.rsp = Base(c) + Height(q)
  /\ Framed(c, s, Height(q))
  /\ SameRegs(c, p, Kept(q))
  /\ q = 18 => p.regs["rdi"] = Base(c) + 22
  /\ q >= 19 => c.vector \notin Panics

\* The handler's frame is below its return address.
HandlerAt(c, p, s) ==
  /\ p.rsp = Base(c) + 23
  /\ Framed(c, s, 22)
  /\ s[Base(c) + 23] = At(c.vector, 19)
  /\ \/ /\ p.rip = HandlerEntry(c.vector)
        /\ SameRegs(c, p, Kept(18))
        /\ p.regs["rdi"] = Base(c) + 22
     \/ /\ p.rip = HandlerExit(c.vector)
        /\ c.vector \notin Panics
        /\ SameRegs(c, p, Kept(19))

\* What holds of an exception that interrupted c and is executing at p.
LevelInv(c, p, s) ==
  /\ c.vector \notin StubsWithoutCode => c.code = 0
  /\ p.rflags = 0
  /\ Base(c) <= p.rsp
  /\ \/ p.rip = Halt
     \/ HandlerAt(c, p, s)
     \/ \E q \in Places(c.vector) : StubAt(c, p, s, q)

Running == [rip |-> rip, regs |-> regs, rsp |-> rsp, rflags |-> Word(intFlag)]
Depth == Len(interrupted)

TypeInv ==
  /\ idtTable = setupInterrupts
  /\ rip \in Int /\ regs \in [Registers -> Int]
  /\ stack \in Seq(Int)
  /\ interrupted \in Seq(Interruption)

\* The innermost exception is the processor's, every other one waits for the
\* next, and their frames lie on the stack in that order.
StackInv ==
  /\ Depth = 0 => rip \in Main \cup {Halt}
  /\ Depth > 0 => /\ interrupted[1].rip \in Main \cup {Halt}
                  /\ LevelInv(interrupted[Depth], Running, stack)
  /\ \A i \in 1..(Depth - 1) : LevelInv(interrupted[i], interrupted[i + 1], stack)
  /\ \A i, j \in 1..Depth : i <= j => interrupted[i].rsp <= interrupted[j].rsp

NestingInv == TypeInv /\ StackInv
=============================================================================
