----------------------------- MODULE CoreProofs -----------------------------
(***************************************************************************)
(* Proofs about the pipeline, for every program, word size and choice of   *)
(* the arithmetic functions.                                               *)
(***************************************************************************)
EXTENDS Core, TLAPS

AnyInstr == Instr \cup {Bubble}

-----------------------------------------------------------------------------
(***************************************************************************)
(* What the combinational operators return.                                *)
(***************************************************************************)
\* The adders of fetchCL.sv and executeCL.sv wrap around at the width of a word.
LEMMA PlusType ==
  ASSUME NEW a \in Word, NEW b \in Word
  PROVE  Plus(a, b) \in Word
BY WordAssumption DEF Plus, Word

LEMMA Constants ==
  /\ 0 \in Word
  /\ {InstrBytes, ResetPC, TimerCause, Unimplemented, MIEMask, MTIEMask} \subseteq Word
  /\ {MStatusBase, MStatusBase + MIEMask} \subseteq Word
  /\ InstretMod \in Nat \ {0} /\ 0 .. InstretMod - 1 \subseteq Word
  /\ MIEMask \in Nat \ {0} /\ MTIEMask \in Nat \ {0} /\ InstrBytes \in Nat \ {0}
BY WordAssumption DEF Word

LEMMA BubbleFacts ==
  /\ ~Retire(Bubble) /\ ~ResultSrc(Bubble) /\ ~MemWrite(Bubble)
  /\ ~RegWrite(Bubble) /\ ~IsReturn(Bubble) /\ ~ReadsCsr(Bubble)
  /\ \A a, b : ~Jumps(Bubble, a, b)
BY DEF Bubble, Retire, ResultSrc, MemWrite, RegWrite, IsReturn, ReadsCsr, Jumps, System

LEMMA FieldTypes ==
  ASSUME NEW i \in AnyInstr
  PROVE  /\ i.fn \in Fns /\ i.rs1 \in Reg /\ i.rs2 \in Reg /\ i.rd \in Reg
         /\ i.imm \in Word /\ i.uimm \in Word
         /\ i.csr \in Csrs \cup {"none"} /\ i.wc \in WriteControls /\ i.zimm \in BOOLEAN
<1>1. CASE i \in Instr
  BY <1>1 DEF Instr
<1>2. CASE i = Bubble
  BY <1>2, RegAssumption, Constants DEF Bubble, Fns, WriteControls
<1> QED BY <1>1, <1>2 DEF AnyInstr

LEMMA ExecTypes ==
  ASSUME NEW i \in AnyInstr, NEW a \in Word, NEW b \in Word, NEW pc \in Word
  PROVE  /\ ExecResult(i, a, b) \in Word
         /\ Target(i, pc, a) \in Word
         /\ NextPC(pc) \in Word
<1>1. SrcB(i, b) \in Word
  BY FieldTypes DEF SrcB
<1>2. ExecResult(i, a, b) \in Word
  BY <1>1, FieldTypes, FunctionAssumption DEF ExecResult
<1>3. Target(i, pc, a) \in Word
  BY FieldTypes, PlusType DEF Target
<1>4. NextPC(pc) \in Word
  BY Constants, PlusType DEF NextPC
<1> QED BY <1>2, <1>3, <1>4

LEMMA ReadCsrType ==
  ASSUME NEW c \in CsrState, NEW name \in Csrs \cup {"none"}, NEW line \in BOOLEAN
  PROVE  ReadCsr(c, name, line) \in Word
<1>1. ASSUME name \in {"mepc", "mtvec", "mcause", "mscratch", "mtval", "minstret"}
      PROVE  c[name] \in Word
  BY <1>1, Constants DEF CsrState
<1>2. CASE name = "mstatus"
  BY <1>2, Constants, WordAssumption DEF ReadCsr, Word
<1>3. CASE name = "mie"
  BY <1>3, Constants DEF ReadCsr
<1>4. CASE name = "mip"
  BY <1>4, Constants DEF ReadCsr
<1>5. CASE name = "none"
  BY <1>5, Constants DEF ReadCsr
<1>6. CASE name \in {"mepc", "mtvec", "mcause", "mscratch", "mtval", "minstret"}
  BY <1>6, <1>1 DEF ReadCsr
<1> QED BY <1>2, <1>3, <1>4, <1>5, <1>6 DEF Csrs

LEMMA AlignType ==
  ASSUME NEW v \in Word
  PROVE  Align(v) \in Word
<1>1. v \in Nat /\ v < WordMod /\ WordMod \in Nat
  BY WordAssumption DEF Word
<1>2. v % InstrBytes \in 0 .. v
  BY <1>1, Constants
<1> QED BY <1>1, <1>2 DEF Align, Word

LEMMA WriteCsrType ==
  ASSUME NEW c \in CsrState, NEW name \in Csrs \cup {"none"}, NEW v \in Word
  PROVE  WriteCsr(c, name, v) \in CsrState
<1>0. HasBit(v, MIEMask) \in BOOLEAN /\ HasBit(v, MTIEMask) \in BOOLEAN
  BY DEF HasBit
<1>1. CASE name = "mstatus"
  BY <1>0, <1>1 DEF WriteCsr, CsrState
<1>2. CASE name = "mie"
  BY <1>0, <1>2 DEF WriteCsr, CsrState
<1>3. CASE name = "mtvec"
  BY <1>3, AlignType DEF WriteCsr, CsrState
<1>4. CASE name \in {"mepc", "mcause", "mscratch", "mtval"}
  BY <1>4 DEF WriteCsr, CsrState
<1>5. CASE name \in {"mip", "minstret", "none"}
  BY <1>5 DEF WriteCsr, CsrState
<1> QED BY <1>1, <1>2, <1>3, <1>4, <1>5 DEF Csrs

LEMMA CsrAfterType ==
  ASSUME NEW c \in CsrState, NEW i \in AnyInstr, NEW alu \in Word, NEW line \in BOOLEAN
  PROVE  CsrAfter(c, i, alu, line) \in CsrState
<1> DEFINE wd == IF i.zimm THEN i.uimm ELSE alu
           v  == CsrResult(i.wc, ReadCsr(c, i.csr, line), wd)
<1>1. wd \in Word /\ ReadCsr(c, i.csr, line) \in Word
  BY FieldTypes, ReadCsrType
<1>2. v \in Word
  <2> HIDE DEF wd
  <2> QED BY <1>1, FieldTypes, FunctionAssumption DEF CsrResult, WriteControls
<1>3. c.minstret \in 0 .. InstretMod - 1
  BY DEF CsrState
<1>4. CountRetired(c.minstret, i, v) \in 0 .. InstretMod - 1
  <2> HIDE DEF v
  <2>1. v \in Nat /\ c.minstret + 1 \in Nat
    BY <1>2, <1>3, Constants DEF Word
  <2>2. v % InstretMod \in 0 .. InstretMod - 1 /\ (c.minstret + 1) % InstretMod \in 0 .. InstretMod - 1
    BY <2>1, Constants
  <2> QED BY <2>2, <1>3 DEF CountRetired
<1>5. WriteCsr(c, i.csr, v) \in CsrState
  <2> HIDE DEF v
  <2> QED BY <1>2, FieldTypes, WriteCsrType
<1> QED
  <2> HIDE DEF v, wd
  <2>1. CsrAfter(c, i, alu, line) = [WriteCsr(c, i.csr, v) EXCEPT !.minstret = CountRetired(c.minstret, i, v)]
    BY DEF CsrAfter, v, wd
  <2> QED BY <2>1, <1>4, <1>5 DEF CsrState

LEMMA ResultTypes ==
  ASSUME NEW i \in AnyInstr, NEW alu \in Word, NEW target \in Word, NEW pc4 \in Word,
         NEW loaded \in Word, NEW csrRead \in Word
  PROVE  /\ LoadPCResult(i, alu, target, pc4) \in Word
         /\ Result(i, alu, target, pc4, loaded, csrRead) \in Word
BY DEF LoadPCResult, Result

-----------------------------------------------------------------------------
(***************************************************************************)
(* Type correctness.                                                       *)
(***************************************************************************)
LEMMA Bubbles ==
  /\ BubbleD \in DType /\ BubbleE \in EType /\ BubbleM \in MType /\ BubbleW \in WType
BY Constants, RegAssumption DEF BubbleD, BubbleE, BubbleM, BubbleW, DType, EType, MType, WType

LEMMA ReadRegType ==
  ASSUME NEW rf \in [Reg -> Word], NEW r \in Reg
  PROVE  ReadReg(rf, r) \in Word
BY Constants DEF ReadReg

\* What the stages compute from well-typed registers.
LEMMA StageTypes ==
  ASSUME TypeOK
  PROVE  /\ LoadPCResultM \in Word
         /\ ResultM \in Word
         /\ RegsAfterW \in [Reg -> Word]
         /\ CsrAfterM \in CsrState
         /\ RD1E \in Word /\ RD2E \in Word
         /\ PCTargetE \in Word
         /\ SavePC \in Word
         /\ Fetched \in DType /\ Decoded \in EType /\ Executed \in MType
         /\ Committed \in WType
<1>1. /\ m.instr \in AnyInstr /\ m.alu \in Word /\ m.wdata \in Word
      /\ m.target \in Word /\ m.pc4 \in Word
  BY DEF TypeOK, MType, AnyInstr
<1>2. /\ e.instr \in AnyInstr /\ e.pc \in Word /\ e.rd1 \in Word /\ e.rd2 \in Word
  BY DEF TypeOK, EType, AnyInstr
<1>3. d.instr \in AnyInstr /\ d.pc \in Word
  BY DEF TypeOK, DType, AnyInstr
<1>4. w.wen \in BOOLEAN /\ w.rd \in Reg /\ w.val \in Word
  BY DEF TypeOK, WType
<1>5. /\ pcF \in Word /\ csr \in CsrState /\ irq \in BOOLEAN /\ imem \in [Word -> Instr]
      /\ regs \in [Reg -> Word] /\ mem \in [Word -> Word]
  BY DEF TypeOK
<1>6. LoadPCResultM \in Word
  BY <1>1, ResultTypes, Constants DEF LoadPCResultM
<1>7. ResultM \in Word
  <2>1. ReadCsr(csr, m.instr.csr, irq) \in Word
    BY <1>1, <1>5, FieldTypes, ReadCsrType
  <2>2. mem[m.alu] \in Word
    BY <1>1, <1>5
  <2> QED BY <2>1, <2>2, <1>1, ResultTypes DEF ResultM
<1>8. RegsAfterW \in [Reg -> Word]
  BY <1>4, <1>5 DEF RegsAfterW
<1>9. CsrAfterM \in CsrState
  BY <1>1, <1>5, CsrAfterType DEF CsrAfterM
<1>10. RD1E \in Word /\ RD2E \in Word
  BY <1>2, <1>4, <1>6 DEF RD1E, RD2E, Forward
<1>11. PCTargetE \in Word
  BY <1>2, <1>10, ExecTypes DEF PCTargetE
<1>12. SavePC \in Word
  BY <1>2, <1>3, <1>5 DEF SavePC
<1>13. Fetched \in DType
  BY <1>5 DEF Fetched, DType
<1>14. Decoded \in EType
  <2>1. d.instr.rs1 \in Reg /\ d.instr.rs2 \in Reg
    BY <1>3, FieldTypes
  <2> QED BY <2>1, <1>3, <1>8, ReadRegType DEF Decoded, EType, AnyInstr
<1>15. Executed \in MType
  BY <1>2, <1>10, <1>11, ExecTypes DEF Executed, MType, AnyInstr
<1>16. Committed \in WType
  <2>1. m.instr.rd \in Reg /\ RegWrite(m.instr) \in BOOLEAN
    BY <1>1, FieldTypes DEF RegWrite
  <2> QED BY <2>1, <1>7 DEF Committed, WType
<1> QED BY <1>6, <1>7, <1>8, <1>9, <1>10, <1>11, <1>12, <1>13, <1>14, <1>15, <1>16

LEMMA CommitTypes ==
  ASSUME TypeOK, Commit
  PROVE  /\ w' \in WType /\ regs' \in [Reg -> Word] /\ mem' \in [Word -> Word]
         /\ irq' \in BOOLEAN /\ imem' \in [Word -> Instr]
<1>1. mem' \in [Word -> Word]
  <2>1. m.alu \in Word /\ m.wdata \in Word /\ mem \in [Word -> Word]
    BY DEF TypeOK, MType
  <2> QED BY <2>1 DEF Commit, WriteMem
<1>2. irq' \in BOOLEAN
  BY ProgramAssumption DEF Commit
<1> QED BY <1>1, <1>2, StageTypes DEF Commit, TypeOK

LEMMA TrapTypes ==
  ASSUME NEW c \in CsrState, NEW pc \in Word
  PROVE  EnterTrap(c, pc) \in CsrState /\ LeaveTrap(c) \in CsrState
BY Constants DEF EnterTrap, LeaveTrap, CsrState

\* Every register of the core keeps a value of its type, on every clock edge and reset.
THEOREM TypeCorrect == Spec => []TypeOK
<1>1. Init => TypeOK
  <2> SUFFICES ASSUME Init PROVE TypeOK
    OBVIOUS
  <2>1. csr \in CsrState
    BY Constants DEF Init, ResetCsr, CsrState
  <2> QED BY <2>1, Bubbles, Constants, ProgramAssumption DEF Init, TypeOK
<1>2. TypeOK /\ [Next]_vars => TypeOK'
  <2> SUFFICES ASSUME TypeOK, [Next]_vars PROVE TypeOK'
    OBVIOUS
  <2>1. CASE Advance
    <3>1. d' \in DType /\ e' \in EType /\ m' \in MType
      BY <2>1, StageTypes, Bubbles DEF Advance, TypeOK
    <3>2. pcF' \in Word
      BY <2>1, StageTypes, PlusType, Constants DEF Advance, TypeOK, NextPC
    <3> QED BY <2>1, <3>1, <3>2, CommitTypes, StageTypes DEF Advance, TypeOK
  <2>2. CASE TakeInterrupt \/ ReturnFromTrap \/ InterceptReturn
    <3>1. Commit /\ Flush
      BY <2>2 DEF TakeInterrupt, ReturnFromTrap, InterceptReturn
    <3>2. csr.mtvec \in Word /\ csr.mepc \in Word
      BY DEF TypeOK, CsrState
    <3>3. pcF' \in Word /\ csr' \in CsrState
      BY <2>2, <3>2, StageTypes, TrapTypes DEF TakeInterrupt, ReturnFromTrap, InterceptReturn
    <3> QED BY <3>1, <3>3, CommitTypes, Bubbles DEF Flush, TypeOK
  <2>3. CASE Reset
    <3>1. ResetCsr \in CsrState
      BY Constants DEF ResetCsr, CsrState
    <3> QED BY <2>3, <3>1, Bubbles, Constants, ProgramAssumption DEF Reset, Flush, TypeOK
  <2>4. CASE UNCHANGED vars
    BY <2>4 DEF vars, TypeOK
  <2> QED BY <2>1, <2>2, <2>3, <2>4 DEF Next, Clock
<1> QED BY <1>1, <1>2, PTL DEF Spec

-----------------------------------------------------------------------------
(***************************************************************************)
(* The inductive invariant of the pipeline.                                *)
(***************************************************************************)
\* What execute latched is what the register file holds now: it was written before it
\* was read (regFile is clocked by ~CLK).
Latched ==
  Retire(e.instr) => /\ e.rd1 = ReadReg(regs, e.instr.rs1)
                     /\ e.rd2 = ReadReg(regs, e.instr.rs2)

IInv == TypeOK /\ InOrder /\ NoLoadUse /\ Latched

LEMMA InstrRetires == \A i \in Instr : Retire(i) /\ i # Bubble
BY DEF Instr, Ops, Retire, Bubble

LEMMA InitInv == Init => InOrder /\ NoLoadUse /\ Latched
BY BubbleFacts DEF Init, InOrder, NoLoadUse, Latched, BubbleD, BubbleE, BubbleM

LEMMA AdvanceInOrder ==
  ASSUME TypeOK, InOrder, Advance
  PROVE  InOrder'
<1>1. /\ m' = Executed /\ imem' = imem
      /\ e' = IF FlushE THEN BubbleE ELSE Decoded
      /\ d' = IF FlushD THEN BubbleD ELSE IF LwStall THEN d ELSE Fetched
      /\ pcF' = IF LwStall THEN pcF ELSE IF PCSrcE THEN PCTargetE ELSE NextPC(pcF)
  BY DEF Advance, Commit
<1>2. Retire(Fetched.instr) /\ Fetched.instr = imem[Fetched.pc] /\ Fetched.pc = pcF
  BY InstrRetires DEF Fetched, TypeOK
<1>3. CASE PCSrcE
  BY <1>1, <1>3, BubbleFacts DEF FlushD, FlushE, BubbleD, BubbleE, InOrder
<1>4. CASE ~PCSrcE /\ LwStall
  BY <1>1, <1>4, BubbleFacts DEF FlushD, FlushE, BubbleE, InOrder
<1>5. CASE ~PCSrcE /\ ~LwStall
  <2>1. d' = Fetched /\ e' = Decoded /\ pcF' = NextPC(pcF)
    BY <1>1, <1>5 DEF FlushD, FlushE
  <2>2. e'.instr = d.instr /\ e'.pc = d.pc
    BY <2>1 DEF Decoded
  <2> QED BY <1>1, <1>2, <2>1, <2>2 DEF InOrder
<1> QED BY <1>3, <1>4, <1>5

LEMMA AdvanceNoLoadUse ==
  ASSUME TypeOK, Advance
  PROVE  NoLoadUse'
<1>1. m'.instr = e.instr
  BY DEF Advance, Executed
<1>2. CASE FlushE
  BY <1>2, BubbleFacts DEF Advance, BubbleE, NoLoadUse
<1>3. CASE ~FlushE
  <2>1. e'.instr = d.instr /\ ~LwStall
    BY <1>3 DEF Advance, Decoded, FlushE
  <2> QED BY <1>1, <2>1 DEF LwStall, NoLoadUse
<1> QED BY <1>2, <1>3

LEMMA AdvanceLatched ==
  ASSUME TypeOK, Advance
  PROVE  Latched'
<1>1. regs' = RegsAfterW
  BY DEF Advance, Commit
<1>2. CASE FlushE
  BY <1>2, BubbleFacts DEF Advance, BubbleE, Latched
<1>3. CASE ~FlushE
  <2>1. e' = Decoded
    BY <1>3 DEF Advance
  <2> QED BY <1>1, <2>1 DEF Decoded, Latched, ReadReg
<1> QED BY <1>2, <1>3

\* A trap and a reset leave nothing in decode and execute.
LEMMA FlushInv ==
  ASSUME Flush
  PROVE  InOrder' /\ NoLoadUse' /\ Latched'
<1>1. ~Retire(d'.instr) /\ ~Retire(e'.instr)
  BY BubbleFacts DEF Flush, BubbleD, BubbleE
<1> QED BY <1>1 DEF InOrder, NoLoadUse, Latched

LEMMA StepInv ==
  ASSUME IInv, [Next]_vars
  PROVE  (InOrder /\ NoLoadUse /\ Latched)'
<1>1. CASE Advance
  BY <1>1, AdvanceInOrder, AdvanceNoLoadUse, AdvanceLatched DEF IInv
<1>2. CASE TakeInterrupt \/ ReturnFromTrap \/ InterceptReturn \/ Reset
  <2>1. Flush
    BY <1>2 DEF TakeInterrupt, ReturnFromTrap, InterceptReturn, Reset
  <2> QED BY <2>1, FlushInv
<1>3. CASE UNCHANGED vars
  BY <1>3 DEF vars, IInv, InOrder, NoLoadUse, Latched, ReadReg
<1> QED BY <1>1, <1>2, <1>3 DEF Next, Clock

THEOREM Invariant == Spec => []IInv
<1>1. Init => InOrder /\ NoLoadUse /\ Latched
  BY InitInv
<1>2. TypeOK /\ InOrder /\ NoLoadUse /\ Latched /\ [Next]_vars
        => (InOrder /\ NoLoadUse /\ Latched)'
  BY StepInv DEF IInv
<1>3. TypeOK /\ InOrder /\ NoLoadUse /\ Latched <=> IInv
  BY DEF IInv
<1> QED BY <1>1, <1>2, <1>3, TypeCorrect, PTL DEF Spec

\* Fetch, decode and execute hold consecutive instructions of one path of the program.
THEOREM PathIsConsecutive == Spec => []InOrder
<1>1. IInv => InOrder
  BY DEF IInv
<1> QED BY <1>1, Invariant, PTL

\* An instruction never runs beside the load or CSR instruction it reads from.
THEOREM LoadUseIsStalled == Spec => []NoLoadUse
<1>1. IInv => NoLoadUse
  BY DEF IInv
<1> QED BY <1>1, Invariant, PTL

LEMMA ForwardIsFresh ==
  ASSUME TypeOK, NEW r \in Reg, ResultSrc(m.instr) => m.instr.rd # r
  PROVE  Forward(r, ReadReg(regs, r)) = ArchRegs[r]
<1>1. RegsAfterW \in [Reg -> Word] /\ ResultM \in Word /\ regs \in [Reg -> Word]
  BY StageTypes DEF TypeOK
<1>2. m.instr.rd \in Reg
  BY FieldTypes DEF TypeOK, MType, AnyInstr
<1>3. CASE r = X0
  BY <1>1, <1>3 DEF Forward, ReadReg, ArchRegs, WriteReg
<1>4. CASE r # X0 /\ RegWrite(m.instr) /\ m.instr.rd = r
  <2>1. ~ResultSrc(m.instr)
    BY <1>4
  <2>2. ResultM = LoadPCResultM
    BY <2>1 DEF ResultM, Result, LoadPCResultM
  <2> QED BY <1>1, <1>2, <1>4, <2>2 DEF Forward, ArchRegs, WriteReg
<1>5. CASE r # X0 /\ ~(RegWrite(m.instr) /\ m.instr.rd = r)
  <2>1. ArchRegs[r] = RegsAfterW[r]
    BY <1>1, <1>2, <1>5 DEF ArchRegs, WriteReg
  <2>2. RegsAfterW[r] = IF w.wen /\ w.rd = r THEN w.val ELSE regs[r]
    BY <1>1 DEF RegsAfterW
  <2> QED BY <1>5, <2>1, <2>2 DEF Forward, ReadReg
<1> QED BY <1>3, <1>4, <1>5

LEMMA FreshFromInv == IInv => OperandsFresh
<1> SUFFICES ASSUME IInv, Retire(e.instr)
             PROVE  RD1E = ArchRegs[e.instr.rs1] /\ RD2E = ArchRegs[e.instr.rs2]
  BY DEF OperandsFresh
<1>1. TypeOK /\ NoLoadUse /\ Latched
  BY DEF IInv
<1>2. e.instr.rs1 \in Reg /\ e.instr.rs2 \in Reg
  BY <1>1, FieldTypes DEF TypeOK, EType, AnyInstr
<1>3. /\ RD1E = Forward(e.instr.rs1, ReadReg(regs, e.instr.rs1))
      /\ RD2E = Forward(e.instr.rs2, ReadReg(regs, e.instr.rs2))
  BY <1>1 DEF Latched, RD1E, RD2E
<1>4. ResultSrc(m.instr) => m.instr.rd # e.instr.rs1 /\ m.instr.rd # e.instr.rs2
  BY <1>1 DEF NoLoadUse
<1> QED BY <1>1, <1>2, <1>3, <1>4, ForwardIsFresh

\* Forwarding gives every instruction the operands of a sequential execution.
THEOREM ForwardingIsCorrect == Spec => []OperandsFresh
BY Invariant, FreshFromInv, PTL

-----------------------------------------------------------------------------
(***************************************************************************)
(* The pipeline implements the sequential machine: THEOREM Refinement.     *)
(* Every clock edge is one step of ISA, or a stutter, on the architectural *)
(* state (ArchRegs, ArchMem, SavePC, CsrAfterM).                           *)
(***************************************************************************)
\* ISA has its own copy of the operators of RV32, with the same definitions.
LEMMA SameControl ==
  ASSUME NEW i, NEW a, NEW b, NEW c, NEW f, NEW t, NEW r, NEW line
  PROVE  /\ Arch!IsReturn(i) = IsReturn(i)
         /\ Arch!Pending(c, line) = Pending(c, line)
         /\ Arch!ExecResult(i, a, b) = ExecResult(i, a, b)
         /\ Arch!Jumps(i, a, b) = Jumps(i, a, b)
         /\ Arch!NextPC(a) = NextPC(a)
         /\ Arch!Target(i, a, b) = Target(i, a, b)
         /\ Arch!ReadReg(f, r) = ReadReg(f, r)
         /\ Arch!WriteReg(f, i, a) = WriteReg(f, i, a)
         /\ Arch!WriteMem(f, i, a, b) = WriteMem(f, i, a, b)
         /\ Arch!Result(i, a, b, c, f, t) = Result(i, a, b, c, f, t)
         /\ Arch!EnterTrap(c, a) = EnterTrap(c, a)
         /\ Arch!LeaveTrap(c) = LeaveTrap(c)
         /\ Arch!ReadCsr(c, a, line) = ReadCsr(c, a, line)
BY DEF Arch!IsReturn, IsReturn, Arch!Pending, Pending, Arch!ExecResult, ExecResult,
       Arch!SrcB, SrcB, Arch!System, System, Arch!Jumps, Jumps, Arch!NextPC, NextPC,
       Arch!Plus, Plus, Arch!Target, Target, Arch!ReadReg, ReadReg, Arch!WriteReg, WriteReg,
       Arch!RegWrite, RegWrite, Arch!WriteMem, WriteMem, Arch!MemWrite, MemWrite,
       Arch!Result, Result, Arch!ResultSrc, ResultSrc, Arch!ReadsCsr, ReadsCsr,
       Arch!LoadPCResult, LoadPCResult, Arch!EnterTrap, EnterTrap, Arch!LeaveTrap, LeaveTrap,
       Arch!ReadCsr, ReadCsr

LEMMA SameCsrAfter ==
  ASSUME NEW c, NEW i, NEW alu, NEW line
  PROVE  Arch!CsrAfter(c, i, alu, line) = CsrAfter(c, i, alu, line)
BY DEF Arch!CsrAfter, CsrAfter, Arch!ReadCsr, ReadCsr, Arch!CsrResult, CsrResult,
       Arch!WriteCsr, WriteCsr, Arch!HasBit, HasBit, Arch!Align, Align,
       Arch!CountRetired, CountRetired, Arch!Retire, Retire

LEMMA SameTypes ==
  Arch!Word = Word /\ Arch!Instr = Instr /\ Arch!ResetCsr = ResetCsr
BY DEF Arch!Word, Word, Arch!Instr, Instr, Arch!Ops, Ops, Arch!Fns, Fns, Arch!Csrs, Csrs,
       Arch!WriteControls, WriteControls, Arch!ResetCsr, ResetCsr

-----------------------------------------------------------------------------
\* A bubble in the memory stage leaves the CSRs as they are.
LEMMA BubbleCsr ==
  ASSUME NEW c \in CsrState, NEW alu, NEW line
  PROVE  CsrAfter(c, Bubble, alu, line) = c
<1> DEFINE v == CsrResult("none", ReadCsr(c, "none", line), alu)
<1>1. CsrAfter(c, Bubble, alu, line)
        = [WriteCsr(c, "none", v) EXCEPT !.minstret = CountRetired(c.minstret, Bubble, v)]
  BY DEF CsrAfter, Bubble
<1> HIDE DEF v
<1>2. WriteCsr(c, "none", v) = c
  BY DEF WriteCsr
<1>3. CountRetired(c.minstret, Bubble, v) = c.minstret
  BY DEF CountRetired, Bubble, Retire
<1>4. [c EXCEPT !.minstret = c.minstret] = c
  BY DEF CsrState
<1> QED BY <1>1, <1>2, <1>3, <1>4

\* Only x0 is lost by making it read zero before rather than after a write.
LEMMA ZeroX0 ==
  ASSUME NEW f \in [Reg -> Word], NEW i \in AnyInstr, NEW v \in Word
  PROVE  [WriteReg([f EXCEPT ![X0] = 0], i, v) EXCEPT ![X0] = 0]
           = [WriteReg(f, i, v) EXCEPT ![X0] = 0]
<1>1. i.rd \in Reg
  BY FieldTypes
<1>2. CASE RegWrite(i)
  <2> DEFINE g == [[f EXCEPT ![X0] = 0] EXCEPT ![i.rd] = v]
             h == [f EXCEPT ![i.rd] = v]
  <2>1. g \in [Reg -> Word] /\ h \in [Reg -> Word]
    BY <1>1, Constants
  <2>2. \A r \in Reg : [g EXCEPT ![X0] = 0][r] = [h EXCEPT ![X0] = 0][r]
    BY <1>1, Constants
  <2>3. [g EXCEPT ![X0] = 0] \in [Reg -> Word] /\ [h EXCEPT ![X0] = 0] \in [Reg -> Word]
    BY <2>1, Constants
  <2>4. [g EXCEPT ![X0] = 0] = [h EXCEPT ![X0] = 0]
    <3> HIDE DEF g, h
    <3> QED BY <2>2, <2>3
  <2> QED BY <1>2, <2>4 DEF WriteReg
<1>3. CASE ~RegWrite(i)
  <2>1. [[f EXCEPT ![X0] = 0] EXCEPT ![X0] = 0] = [f EXCEPT ![X0] = 0]
    OBVIOUS
  <2> QED BY <1>3, <2>1 DEF WriteReg
<1> QED BY <1>2, <1>3

\* The instruction in execute is the one at the architectural pc, and reads the
\* architectural registers.
LEMMA InExecute ==
  ASSUME IInv, Retire(e.instr)
  PROVE  /\ SavePC = e.pc /\ imem[SavePC] = e.instr
         /\ ReadReg(ArchRegs, e.instr.rs1) = RD1E
         /\ ReadReg(ArchRegs, e.instr.rs2) = RD2E
<1>1. SavePC = e.pc /\ imem[SavePC] = e.instr
  BY DEF SavePC, IInv, InOrder
<1>2. RegsAfterW \in [Reg -> Word] /\ ResultM \in Word
  BY StageTypes DEF IInv
<1>3. ArchRegs[X0] = 0
  BY <1>2, RegAssumption DEF ArchRegs, WriteReg
<1>4. \A r \in Reg : ReadReg(ArchRegs, r) = ArchRegs[r]
  BY <1>3 DEF ReadReg
<1>5. e.instr.rs1 \in Reg /\ e.instr.rs2 \in Reg
  BY FieldTypes DEF IInv, TypeOK, EType, AnyInstr
<1>6. OperandsFresh
  BY FreshFromInv
<1> QED BY <1>1, <1>4, <1>5, <1>6 DEF OperandsFresh

\* What a clock edge other than a reset does to the part of the architectural state
\* that is behind execute: the write-back and the store of memory were counted already.
LEMMA CommitArch ==
  ASSUME Commit
  PROVE  /\ RegsAfterW' = WriteReg(RegsAfterW, m.instr, ResultM)
         /\ mem' = ArchMem
         /\ imem' = imem
<1>1. w' = Committed /\ regs' = RegsAfterW
  BY DEF Commit
<1>2. RegsAfterW' = IF w'.wen THEN [regs' EXCEPT ![w'.rd] = w'.val] ELSE regs'
  BY DEF RegsAfterW
<1>3. RegsAfterW' = IF RegWrite(m.instr) THEN [RegsAfterW EXCEPT ![m.instr.rd] = ResultM]
                    ELSE RegsAfterW
  BY <1>1, <1>2 DEF Committed
<1> QED BY <1>3 DEF WriteReg, Commit, ArchMem

\* A bubble entering the memory stage: the architectural data does not change.
LEMMA BubbleArch ==
  ASSUME Commit, m'.instr = Bubble, csr' \in CsrState
  PROVE  ArchRegs' = ArchRegs /\ ArchMem' = ArchMem /\ CsrAfterM' = csr'
<1>1. ArchRegs' = [WriteReg(RegsAfterW', Bubble, ResultM') EXCEPT ![X0] = 0]
  BY DEF ArchRegs
<1>2. ArchRegs' = ArchRegs
  BY <1>1, CommitArch, BubbleFacts DEF ArchRegs, WriteReg
<1>3. ArchMem' = ArchMem
  BY CommitArch, BubbleFacts DEF ArchMem, WriteMem
<1>4. CsrAfterM' = csr'
  BY BubbleCsr DEF CsrAfterM
<1> QED BY <1>2, <1>3, <1>4

-----------------------------------------------------------------------------
\* An instruction that enters the memory stage is executed.
LEMMA AdvanceExecutes ==
  ASSUME IInv, TypeOK', Advance, Retire(e.instr)
  PROVE  Arch!Execute
<1> DEFINE i   == e.instr
           alu == ExecResult(i, RD1E, RD2E)
           v   == Result(i, alu, PCTargetE, NextPC(e.pc), ArchMem[alu],
                         ReadCsr(CsrAfterM, i.csr, irq'))
<1>1. /\ ~Pending(csr, irq) /\ ~IsReturn(i) /\ Commit /\ m' = Executed /\ csr' = CsrAfterM
      /\ e' = IF FlushE THEN BubbleE ELSE Decoded
      /\ d' = IF FlushD THEN BubbleD ELSE IF LwStall THEN d ELSE Fetched
      /\ pcF' = IF LwStall THEN pcF ELSE IF PCSrcE THEN PCTargetE ELSE NextPC(pcF)
  BY DEF Advance
<1>2. /\ SavePC = e.pc /\ imem[SavePC] = i
      /\ ReadReg(ArchRegs, i.rs1) = RD1E /\ ReadReg(ArchRegs, i.rs2) = RD2E
  BY InExecute
<1>3. /\ m'.instr = i /\ m'.alu = alu /\ m'.wdata = RD2E
      /\ m'.target = PCTargetE /\ m'.pc4 = NextPC(e.pc)
  BY <1>1 DEF Executed
<1>4. ResultM' = v
  BY <1>1, <1>3, CommitArch DEF ResultM
<1>5. ArchRegs' = [WriteReg(ArchRegs, i, v) EXCEPT ![X0] = 0]
  <2> HIDE DEF v
  <2> DEFINE f == WriteReg(RegsAfterW, m.instr, ResultM)
  <2>1. ArchRegs' = [WriteReg(f, i, v) EXCEPT ![X0] = 0]
    BY <1>1, <1>3, <1>4, CommitArch DEF ArchRegs
  <2>2. f \in [Reg -> Word]
    BY StageTypes, FieldTypes DEF IInv, TypeOK, MType, AnyInstr, WriteReg
  <2>3. i \in AnyInstr /\ e.pc \in Word
    BY DEF IInv, TypeOK, EType, AnyInstr
  <2>4. v \in Word
    <3>1. RD1E \in Word /\ RD2E \in Word /\ PCTargetE \in Word /\ CsrAfterM \in CsrState
      BY StageTypes DEF IInv
    <3>2. alu \in Word /\ NextPC(e.pc) \in Word
      BY <2>3, <3>1, ExecTypes
    <3>3. mem' \in [Word -> Word] /\ irq' \in BOOLEAN
      BY DEF TypeOK
    <3>4. ArchMem[alu] \in Word
      BY <1>1, <3>2, <3>3, CommitArch
    <3>5. ReadCsr(CsrAfterM, i.csr, irq') \in Word
      BY <2>3, <3>1, <3>3, FieldTypes, ReadCsrType
    <3> HIDE DEF alu, i
    <3> QED BY <2>3, <3>1, <3>2, <3>4, <3>5, ResultTypes DEF v
  <2>5. ArchRegs = [f EXCEPT ![X0] = 0]
    BY DEF ArchRegs
  <2> HIDE DEF f, i
  <2> QED BY <2>1, <2>2, <2>3, <2>4, <2>5, ZeroX0
<1>6. ArchMem' = WriteMem(ArchMem, i, alu, RD2E)
  BY <1>1, <1>3, CommitArch DEF ArchMem
<1>7. SavePC' = IF PCSrcE THEN PCTargetE ELSE NextPC(e.pc)
  <2>1. CASE PCSrcE
    <3>1. ~LwStall
      BY <2>1 DEF PCSrcE, Jumps, LwStall, ResultSrc, System
    <3>2. pcF' = PCTargetE /\ e' = BubbleE /\ d' = BubbleD
      BY <1>1, <2>1, <3>1 DEF FlushE, FlushD
    <3> QED BY <2>1, <3>2, BubbleFacts DEF SavePC, BubbleE, BubbleD
  <2>2. CASE ~PCSrcE
    <3>1. Retire(d.instr) /\ d.pc = NextPC(e.pc)
      BY DEF IInv, InOrder
    <3>2. CASE LwStall
      BY <1>1, <2>2, <3>1, <3>2, BubbleFacts DEF FlushE, FlushD, SavePC, BubbleE
    <3>3. CASE ~LwStall
      BY <1>1, <2>2, <3>1, <3>3 DEF FlushE, SavePC, Decoded
    <3> QED BY <3>2, <3>3
  <2> QED BY <2>1, <2>2
<1>8. CsrAfterM' = CsrAfter(CsrAfterM, i, alu, irq')
  BY <1>1, <1>3 DEF CsrAfterM
<1>9. irq' \in BOOLEAN
  BY DEF TypeOK
<1> HIDE DEF alu
<1>10. /\ Arch!ReadReg(ArchRegs, i.rs1) = RD1E /\ Arch!ReadReg(ArchRegs, i.rs2) = RD2E
       /\ Arch!ExecResult(i, RD1E, RD2E) = alu
  BY <1>2, SameControl DEF alu
<1>11. /\ Arch!Result(i, alu, Arch!Target(i, SavePC, RD1E), Arch!NextPC(SavePC), ArchMem[alu],
                      Arch!ReadCsr(CsrAfterM, i.csr, irq')) = v
       /\ Arch!Jumps(i, RD1E, RD2E) = PCSrcE
       /\ Arch!Target(i, SavePC, RD1E) = PCTargetE
       /\ Arch!NextPC(SavePC) = NextPC(e.pc)
  BY <1>2, SameControl DEF PCSrcE, PCTargetE
<1> HIDE DEF v, i
<1>12. ArchRegs' = [Arch!WriteReg(ArchRegs, i, v) EXCEPT ![X0] = 0]
  BY <1>5, SameControl
<1>13. ArchMem' = Arch!WriteMem(ArchMem, i, alu, RD2E)
  BY <1>6, SameControl
<1>14. CsrAfterM' = Arch!CsrAfter(CsrAfterM, i, alu, irq')
  BY <1>8, SameCsrAfter
<1>15. ~Arch!Pending(csr, irq) /\ ~Arch!IsReturn(i)
  BY <1>1, SameControl DEF i
<1>16. Arch!Tick
  BY <1>1, <1>9, CommitArch DEF Arch!Tick
<1> QED
  BY <1>1, <1>2, <1>7, <1>10, <1>11, <1>12, <1>13, <1>14, <1>15, <1>16 DEF Arch!Execute

\* A bubble that enters the memory stage executes nothing.
LEMMA AdvanceWaits ==
  ASSUME IInv, TypeOK', Advance, ~Retire(e.instr)
  PROVE  Arch!Wait
<1>1. /\ ~Pending(csr, irq) /\ Commit /\ m' = Executed /\ csr' = CsrAfterM
      /\ e' = IF FlushE THEN BubbleE ELSE Decoded
      /\ d' = IF FlushD THEN BubbleD ELSE IF LwStall THEN d ELSE Fetched
      /\ pcF' = IF LwStall THEN pcF ELSE IF PCSrcE THEN PCTargetE ELSE NextPC(pcF)
  BY DEF Advance
<1>2. e.instr = Bubble
  BY InstrRetires DEF IInv, TypeOK, EType
<1>3. ~LwStall /\ ~PCSrcE
  BY <1>2, BubbleFacts DEF LwStall, PCSrcE
<1>4. e' = Decoded /\ d' = Fetched /\ pcF' = NextPC(pcF)
  BY <1>1, <1>3 DEF FlushE, FlushD
<1>5. SavePC' = SavePC
  <2>1. e'.instr = d.instr /\ e'.pc = d.pc
    BY <1>4 DEF Decoded
  <2>2. Retire(d'.instr) /\ d'.pc = pcF
    BY <1>4, InstrRetires DEF Fetched, IInv, TypeOK
  <2>3. ~Retire(e.instr)
    OBVIOUS
  <2> QED BY <2>1, <2>2, <2>3 DEF SavePC
<1>6. csr' \in CsrState /\ irq' \in BOOLEAN
  BY DEF TypeOK
<1>7. ArchRegs' = ArchRegs /\ ArchMem' = ArchMem /\ CsrAfterM' = CsrAfterM
  BY <1>1, <1>2, <1>6, BubbleArch DEF Executed
<1>8. ~Arch!Pending(csr, irq)
  BY <1>1, SameControl
<1>9. Arch!Tick
  BY <1>1, <1>6, CommitArch DEF Arch!Tick
<1> QED BY <1>1, <1>5, <1>7, <1>8, <1>9 DEF Arch!Wait

\* A trap drops the three front stages, so its target is the architectural pc.
LEMMA FlushArch ==
  ASSUME TypeOK', Commit, Flush
  PROVE  /\ ArchRegs' = ArchRegs /\ ArchMem' = ArchMem /\ CsrAfterM' = csr'
         /\ SavePC' = pcF'
         /\ Arch!Tick
<1>1. csr' \in CsrState /\ irq' \in BOOLEAN
  BY DEF TypeOK
<1>2. m'.instr = Bubble
  BY DEF Flush, BubbleM
<1>3. ArchRegs' = ArchRegs /\ ArchMem' = ArchMem /\ CsrAfterM' = csr'
  BY <1>1, <1>2, BubbleArch
<1>4. ~Retire(e'.instr) /\ ~Retire(d'.instr)
  BY BubbleFacts DEF Flush, BubbleE, BubbleD
<1>5. SavePC' = pcF'
  BY <1>4 DEF SavePC
<1> QED BY <1>1, <1>3, <1>5, CommitArch DEF Arch!Tick

\* Only an instruction of the program is a return from a trap.
LEMMA ReturnAtSavePC ==
  ASSUME IInv, IsReturn(e.instr)
  PROVE  IsReturn(imem[SavePC])
<1>1. Retire(e.instr)
  BY DEF IsReturn, Retire
<1> QED BY <1>1, InExecute

LEMMA TrapSteps ==
  ASSUME IInv, TypeOK', TakeInterrupt \/ ReturnFromTrap \/ InterceptReturn
  PROVE  Arch!TakeInterrupt \/ Arch!Return \/ Arch!InterceptedReturn
<1>1. Commit /\ Flush
  BY DEF TakeInterrupt, ReturnFromTrap, InterceptReturn
<1>2. /\ ArchRegs' = ArchRegs /\ ArchMem' = ArchMem /\ CsrAfterM' = csr'
      /\ SavePC' = pcF' /\ Arch!Tick
  BY <1>1, FlushArch
<1>3. CASE TakeInterrupt
  <2>1. Pending(csr, irq) /\ pcF' = csr.mtvec /\ csr' = EnterTrap(CsrAfterM, SavePC)
    BY <1>3 DEF TakeInterrupt
  <2>2. Arch!Pending(csr, irq) /\ csr' = Arch!EnterTrap(CsrAfterM, SavePC)
    BY <2>1, SameControl
  <2> QED BY <1>2, <2>1, <2>2 DEF Arch!TakeInterrupt
<1>4. CASE ReturnFromTrap
  <2>1. ~Pending(csr, irq) /\ pcF' = csr.mepc /\ csr' = LeaveTrap(CsrAfterM)
    BY <1>4 DEF ReturnFromTrap
  <2>2. /\ ~Arch!Pending(csr, irq) /\ csr' = Arch!LeaveTrap(CsrAfterM)
        /\ Arch!IsReturn(imem[SavePC])
    BY <1>4, <2>1, SameControl, ReturnAtSavePC DEF ReturnFromTrap
  <2> QED BY <1>2, <2>1, <2>2 DEF Arch!Return
<1>5. CASE InterceptReturn
  <2>1. Pending(csr, irq) /\ pcF' = csr.mtvec /\ csr' = LeaveTrap(CsrAfterM)
    BY <1>5 DEF InterceptReturn
  <2>2. /\ Arch!Pending(csr, irq) /\ csr' = Arch!LeaveTrap(CsrAfterM)
        /\ Arch!IsReturn(imem[SavePC])
    BY <1>5, <2>1, SameControl, ReturnAtSavePC DEF InterceptReturn
  <2> QED BY <1>2, <2>1, <2>2 DEF Arch!InterceptedReturn
<1> QED BY <1>3, <1>4, <1>5

LEMMA ResetStep ==
  ASSUME IInv, TypeOK', Reset
  PROVE  Arch!Reset
<1>1. /\ pcF' = ResetPC /\ Flush /\ w' = BubbleW /\ regs' = [r \in Reg |-> 0]
      /\ csr' = ResetCsr /\ imem' = imem /\ mem' = mem
  BY DEF Reset
<1>2. m'.instr = Bubble /\ ~Retire(e'.instr) /\ ~Retire(d'.instr)
  BY <1>1, BubbleFacts DEF Flush, BubbleE, BubbleD, BubbleM
<1>3. RegsAfterW' = regs'
  <2>1. ~w'.wen
    BY <1>1 DEF BubbleW
  <2> QED BY <2>1 DEF RegsAfterW
<1>4. ArchRegs' = [r \in Reg |-> 0]
  <2>1. ArchRegs' = [regs' EXCEPT ![X0] = 0]
    BY <1>2, <1>3, BubbleFacts DEF ArchRegs, WriteReg
  <2> QED BY <1>1, <2>1
<1>5. ArchMem' = mem
  BY <1>1, <1>2, BubbleFacts DEF ArchMem, WriteMem
<1>6. \E a \in Word, v \in Word : mem = [ArchMem EXCEPT ![a] = v]
  <2>1. m.alu \in Word /\ m.wdata \in Word /\ mem \in [Word -> Word]
    BY DEF IInv, TypeOK, MType
  <2>2. mem[m.alu] \in Word
    BY <2>1
  <2>3. mem = [ArchMem EXCEPT ![m.alu] = mem[m.alu]]
    BY <2>1 DEF ArchMem, WriteMem
  <2> QED BY <2>1, <2>2, <2>3
<1>7. SavePC' = ResetPC
  BY <1>1, <1>2 DEF SavePC
<1>8. csr' \in CsrState /\ irq' \in BOOLEAN
  BY DEF TypeOK
<1>9. CsrAfterM' = csr'
  BY <1>2, <1>8, BubbleCsr DEF CsrAfterM
<1>10. Arch!Tick
  BY <1>1, <1>8 DEF Arch!Tick
<1> QED BY <1>1, <1>4, <1>5, <1>6, <1>7, <1>9, <1>10, SameTypes DEF Arch!Reset

LEMMA InitMaps == Init => Arch!Init
<1> SUFFICES ASSUME Init PROVE Arch!Init
  OBVIOUS
<1>1. ~Retire(d.instr) /\ ~Retire(e.instr) /\ m.instr = Bubble /\ ~w.wen
  BY BubbleFacts DEF Init, BubbleD, BubbleE, BubbleM, BubbleW
<1>2. ArchRegs = [r \in Reg |-> 0]
  <2>1. ArchRegs = [regs EXCEPT ![X0] = 0]
    BY <1>1, BubbleFacts DEF ArchRegs, WriteReg, RegsAfterW
  <2> QED BY <2>1 DEF Init
<1>3. ArchMem = mem
  BY <1>1, BubbleFacts DEF ArchMem, WriteMem
<1>4. SavePC = ResetPC
  BY <1>1 DEF SavePC, Init
<1>5. CsrAfterM = ResetCsr
  <2>1. ResetCsr \in CsrState
    BY Constants DEF ResetCsr, CsrState
  <2> QED BY <1>1, <2>1, BubbleCsr DEF CsrAfterM, Init
<1> QED BY <1>2, <1>3, <1>4, <1>5, ProgramAssumption, SameTypes DEF Init, Arch!Init

LEMMA StutterMaps == UNCHANGED vars => UNCHANGED Arch!vars
BY DEF vars, Arch!vars, ArchRegs, ArchMem, SavePC, CsrAfterM, RegsAfterW, ResultM

\* Whatever the program, the memory and the times of interrupts and resets, the pipeline
\* behaves as the sequential machine.
THEOREM Refinement == Spec => RefinesISA
<1>1. Init => Arch!Init
  BY InitMaps
<1>2. IInv /\ TypeOK' /\ [Next]_vars => [Arch!Next]_Arch!vars
  <2> SUFFICES ASSUME IInv, TypeOK', [Next]_vars PROVE [Arch!Next]_Arch!vars
    OBVIOUS
  <2>1. CASE Advance
    BY <2>1, AdvanceExecutes, AdvanceWaits DEF Arch!Next
  <2>2. CASE TakeInterrupt \/ ReturnFromTrap \/ InterceptReturn
    BY <2>2, TrapSteps DEF Arch!Next
  <2>3. CASE Reset
    BY <2>3, ResetStep DEF Arch!Next
  <2>4. CASE UNCHANGED vars
    BY <2>4, StutterMaps
  <2> QED BY <2>1, <2>2, <2>3, <2>4 DEF Next, Clock
<1>3. IInv => TypeOK
  BY DEF IInv
<1> QED BY <1>1, <1>2, <1>3, Invariant, PTL DEF Spec, RefinesISA, Arch!Spec
=============================================================================
