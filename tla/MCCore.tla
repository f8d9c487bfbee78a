------------------------------ MODULE MCCore --------------------------------
(***************************************************************************)
(* Small instances of Core for TLC.  Words are numbers modulo WordMod and  *)
(* instructions one word long, so program, data and immediates fit in it.  *)
(* There are three registers: 0 is x0.                                     *)
(***************************************************************************)
EXTENDS Core, Sequences, FiniteSets

\* Numbers above half the range are negative.
Signed(a) == IF a >= WordMod \div 2 THEN a - WordMod ELSE a

\* Bit by bit, for the eight-bit words used here at most.
Bits == {1, 2, 4, 8}
Bit(a, k) == (a \div k) % 2
SumOf(bits) == (IF 1 \in bits THEN 1 ELSE 0) + (IF 2 \in bits THEN 2 ELSE 0)
               + (IF 4 \in bits THEN 4 ELSE 0) + (IF 8 \in bits THEN 8 ELSE 0)

MCOrW(a, b)     == SumOf({k \in Bits : Bit(a, k) = 1 \/ Bit(b, k) = 1})
MCAndNotW(a, b) == SumOf({k \in Bits : Bit(a, k) = 1 /\ Bit(b, k) = 0})

MCHolds(fn, a, b) ==
  CASE fn = "beq" -> a = b
    [] fn = "blt" -> Signed(a) < Signed(b)
    [] OTHER      -> a # b

\* Two functions of the ALU are enough to tell operands and their order apart.
MCAlu(fn, a, b) == IF fn = "sub" THEN (a - b) % WordMod ELSE (a + b) % WordMod

-----------------------------------------------------------------------------
Inst(op, rs1, rs2, rd, imm) ==
  [op |-> op, fn |-> "add", rs1 |-> rs1, rs2 |-> rs2, rd |-> rd, imm |-> imm, uimm |-> 0,
   csr |-> "none", wc |-> "none", zimm |-> FALSE]

CsrI(name, wc, rd, rs1)     == [Inst("csr", rs1, 0, rd, 0) EXCEPT !.csr = name, !.wc = wc]
CsrImm(name, wc, uimm)      == [CsrI(name, wc, 0, 0) EXCEPT !.zimm = TRUE, !.uimm = uimm]
Beq(rs1, rs2, off)          == [Inst("branch", rs1, rs2, 0, off) EXCEPT !.fn = "beq"]
Nop                         == Inst("opimm", 0, 0, 0, 0)
Loop                        == Inst("jal", 0, 0, 0, 0)
Mret                        == Inst("xret", 0, 2, 0, 0)

\* An instruction memory with the given words from address at on, Loop elsewhere.
Image(at, code) ==
  [a \in Word |-> IF a >= at /\ a < at + Len(code) THEN code[a - at + 1] ELSE Loop]

(***************************************************************************)
(* core_hazards: all programs of four instructions out of HazardSet.       *)
(***************************************************************************)
HazardSet ==
  { Inst("load", 2, 0, 1, 0),                        \* lw    x1, 0(x2)
    Inst("load", 1, 0, 1, 1),                        \* lw    x1, 1(x1)
    Inst("opimm", 1, 0, 1, 1),                       \* addi  x1, x1, 1
    Inst("opimm", 1, 2, 0, 3),                       \* addi  x0, x1, 3
    [Inst("op", 1, 2, 2, 0) EXCEPT !.fn = "sub"],    \* sub   x2, x1, x2
    Inst("store", 2, 1, 0, 1),                       \* sw    x1, 1(x2)
    Beq(1, 2, 2),                                    \* beq   x1, x2, .+2
    Inst("jalr", 1, 0, 2, 3),                        \* jalr  x2, 3(x1)
    CsrI("mscratch", "swap", 1, 2),                  \* csrrw x1, mscratch, x2
    Inst("lui", 0, 0, 1, 6),                         \* lui   x1, 6
    Inst("auipc", 0, 0, 2, 2) }                      \* auipc x2, 2

HazardPrograms == { Image(0, <<i, j, k, l>>) : i, j, k, l \in HazardSet }

HazardMems == { [a \in Word |-> (a * 3 + 1) % WordMod] }

(***************************************************************************)
(* core_traps: the handler at address 0 borrows x2 through mscratch; main  *)
(* enables the timer interrupt and runs three instructions out of a set.   *)
(* Quiet instructions leave the trap machinery alone.                      *)
(***************************************************************************)
Handler == << CsrI("mscratch", "swap", 2, 2), CsrI("mscratch", "swap", 2, 2), Mret >>

\* A handler that moves its return address and returns at once.
HastyHandler == << Inst("opimm", 0, 0, 1, 8), CsrI("mepc", "swap", 1, 1), Mret >>

Quiet ==
  { Inst("opimm", 1, 0, 1, 1),                       \* addi  x1, x1, 1
    Inst("load", 1, 0, 2, 0),                        \* lw    x2, 0(x1)
    Inst("store", 1, 2, 0, 1),                       \* sw    x2, 1(x1)
    Beq(1, 2, 2),                                    \* beq   x1, x2, .+2
    CsrI("mscratch", "swap", 1, 2),                  \* csrrw x1, mscratch, x2
    CsrImm("mstatus", "clear", 8) }                  \* csrci mstatus, MIE

Loud ==
  { CsrI("mtvec", "swap", 1, 1),                     \* csrrw x1, mtvec, x1
    CsrI("mip", "set", 1, 0),                        \* csrr  x1, mip
    CsrI("minstret", "swap", 1, 1),                  \* csrrw x1, minstret, x1
    Mret }

Main(code) == << CsrImm("mie", "set", 2), CsrImm("mstatus", "set", 8) >> \o code

MainPC == 4

TrapImage(handler, code) ==
  [a \in Word |-> IF a < 3 THEN handler[a + 1] ELSE Image(MainPC, Main(code))[a]]

QuietPrograms == { TrapImage(Handler, <<i, j, k>>) : i, j, k \in Quiet }
LoudPrograms  ==
  UNION { { TrapImage(h, <<i, j, k>>), TrapImage(h, <<j, i, k>>) } :
            h \in {Handler, HastyHandler}, i \in Loud, j, k \in Loud \cup Quiet }

TrapPrograms == QuietPrograms \cup LoudPrograms

TrapMems == { [a \in Word |-> (a * 3 + 1) % WordMod] }

\* After power-on the core is not reset again.
PoweredSpec == Init /\ [][Clock]_vars

EndPC == MainPC + 5

\* The sequential execution of a program with interrupts disabled: its state after n steps.
Undisturbed(p, mem0) ==
  LET step(s) ==
        LET i   == p[s.pc]
            a   == ReadReg(s.regs, i.rs1)
            b   == ReadReg(s.regs, i.rs2)
            alu == ExecResult(i, a, b)
            v   == Result(i, alu, Target(i, s.pc, a), NextPC(s.pc), s.mem[alu],
                          ReadCsr(s.csr, i.csr, FALSE))
        IN [ regs |-> [WriteReg(s.regs, i, v) EXCEPT ![X0] = 0],
             mem  |-> WriteMem(s.mem, i, alu, b),
             csr  |-> CsrAfter(s.csr, i, alu, FALSE),
             pc   |-> IF Jumps(i, a, b) THEN Target(i, s.pc, a) ELSE NextPC(s.pc) ]
      run[n \in 0 .. 5] ==
        IF n = 0
        THEN [regs |-> [r \in Reg |-> 0], mem |-> mem0, csr |-> ResetCsr, pc |-> ResetPC]
        ELSE IF run[n - 1].pc >= EndPC THEN run[n - 1] ELSE step(run[n - 1])
  IN run[5]

\* Interrupts whose handler restores what it borrows are invisible to the program they
\* interrupt: whenever and however often they come (CLINT.sv, datapath.sv savePC), it
\* ends with the registers and the memory of a run without any.
InterruptsAreTransparent ==
  imem \in QuietPrograms /\ SavePC = EndPC =>
    \E mem0 \in InitMems :
      LET end == Undisturbed(imem, mem0)
      IN ArchRegs = end.regs /\ ArchMem = end.mem

(***************************************************************************)
(* core_masking: main disables interrupts, works, and enables them again,  *)
(* as rt_hw_interrupt_disable and rt_hw_interrupt_enable do.               *)
(***************************************************************************)
MaskingPrograms ==
  { TrapImage(Handler, << CsrImm("mstatus", "clear", 8), Inst("opimm", 1, 0, 1, 1), Nop,
                          CsrImm("mstatus", "set", 8) >>) }

CriticalSection == {MainPC + 3, MainPC + 4}

\* Between rt_hw_interrupt_disable and rt_hw_interrupt_enable (context_gcc.S) interrupts
\* are off: clearing mstatus.MIE is the kernel's only mutual exclusion.
CriticalSectionIsMasked == SavePC \in CriticalSection => ~CsrAfterM.MIE
=============================================================================
