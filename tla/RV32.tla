-------------------------------- MODULE RV32 --------------------------------
(***************************************************************************)
(* What the instruction decoder and the combinational units of the         *)
(* LLTRISC-V core compute: hw/core/controlUnit.sv, the execute, memory and *)
(* write-back stages of hw/core/stages, and the CSR side of CSRFile.sv and *)
(* CLINT.sv.  Nothing here has state.  The pipeline (Core) and the         *)
(* sequential machine it implements (ISA) are both written with these      *)
(* operators.                                                              *)
(*                                                                         *)
(* A word is a number modulo WordMod (2^32 in the hardware).  The          *)
(* arithmetic-logic unit, its comparator and the bitwise operators of the  *)
(* CSR file are parameters: the pipeline's correctness does not depend on  *)
(* which functions they are.                                               *)
(***************************************************************************)
EXTENDS Integers

CONSTANTS
  WordMod,        \* number of machine words
  InstrBytes,     \* bytes of an instruction, and alignment of mtvec (4)
  Reg,            \* architectural registers
  X0,             \* the register that always reads zero
  ResetPC,        \* 32'h00010000
  TimerCause,     \* mcause of a machine timer interrupt
  MStatusBase,    \* the bits of mstatus that are wired to one
  MIEMask,        \* weight of mstatus.MIE
  MTIEMask,       \* weight of mie.MTIE and of mip.MTIP
  Unimplemented,  \* what an unimplemented CSR reads as: a don't-care, 32'bx
  InstretMod,     \* number of values of minstret
  Alu(_, _, _),   \* ALU.sv and arithmeticDec.sv: function, operand, operand
  Holds(_, _, _), \* arithmeticDec.sv: branch condition, operand, operand
  OrW(_, _),      \* bitwise a | b
  AndNotW(_, _)   \* bitwise a & ~b

Word == 0 .. WordMod - 1

Ops == {"load", "opimm", "auipc", "store", "op", "lui", "branch", "jalr", "jal",
        "csr", "env", "xret"}

\* ALU functions of ALUControl and _unsigned, and the conditions of arithmeticDec.
Fns == {"add", "sub", "and", "or", "xor", "sll", "srl", "sra", "slt", "sltu",
        "beq", "bne", "blt", "bge", "bltu", "bgeu"}

Csrs == {"mstatus", "mie", "mip", "mepc", "mtvec", "mcause", "mscratch", "mtval",
         "minstret"}

WriteControls == {"none", "swap", "set", "clear"}

(***************************************************************************)
(* A decoded instruction.  op is the major opcode; SYSTEM is split into    *)
(* the CSR instructions, the returns from a trap (xret) and the others     *)
(* (env: ecall, ebreak, wfi).  rs1, rs2 and rd are the raw bit fields, so  *)
(* every instruction has all three.  imm is the extended immediate, csr    *)
(* the register that immExt[31:20] addresses, uimm the number              *)
(* immExt[19:15], wc the CSRWriteControl that funct3 selects and zimm      *)
(* whether CSRWriteDataSrc takes uimm.  The decoder drives these from      *)
(* every instruction word, whatever its opcode: only I-, S-, B- and J-type *)
(* immediates, whose top twelve bits are equal, address no register.       *)
(***************************************************************************)
Instr ==
  [op : Ops, fn : Fns, rs1 : Reg, rs2 : Reg, rd : Reg, imm : Word, uimm : Word,
   csr : Csrs \cup {"none"}, wc : WriteControls, zimm : BOOLEAN]

\* A flushed pipeline register: every control signal and every field is zero.  (The
\* zero word decodes with regWrite set and rd = x0: a write that is never read.)
Bubble ==
  [op |-> "none", fn |-> "add", rs1 |-> X0, rs2 |-> X0, rd |-> X0, imm |-> 0, uimm |-> 0,
   csr |-> "none", wc |-> "none", zimm |-> FALSE]

System == {"csr", "env", "xret"}

(***************************************************************************)
(* What the control unit tells about an instruction.                       *)
(***************************************************************************)
Retire(i)    == i.op # "none"
ResultSrc(i) == i.op \in {"load"} \cup System
RegWrite(i)  == i.op \notin {"store", "branch", "none"}
MemWrite(i)  == i.op = "store"
ReadsCsr(i)  == i.op = "csr"
IsReturn(i)  == i.op = "xret"

(***************************************************************************)
(* Execute stage.                                                          *)
(***************************************************************************)
\* MUTANT: the adder has a carry out of the word.
PlusWide(a, b) == a + b

Plus(a, b) == (a + b) % WordMod

NextPC(pc) == Plus(pc, InstrBytes)

\* Operand B is the register only for R-type instructions and branches.
SrcB(i, b) == IF i.op \in {"op", "branch"} THEN b ELSE i.imm

\* The ALUResultE multiplexer: lui passes operand B, SYSTEM operand A.
ExecResult(i, a, b) ==
  CASE i.op = "lui"     -> SrcB(i, b)
    [] i.op \in System  -> a
    [] OTHER            -> Alu(i.fn, a, SrcB(i, b))

\* PCSrcE: the instruction redirects the fetch.
Jumps(i, a, b) ==
  \/ i.op \in {"jal", "jalr"}
  \/ i.op = "branch" /\ Holds(i.fn, a, b)

\* PCTargetE: the target adder.
Target(i, pc, a) == Plus(i.imm, IF i.op = "jalr" THEN a ELSE pc)

(***************************************************************************)
(* Memory stage: the result that is available for forwarding, and the one  *)
(* that write-back selects.                                                *)
(***************************************************************************)
LoadPCResult(i, alu, target, pc4) ==
  CASE i.op = "auipc"           -> target
    [] i.op \in {"jal", "jalr"} -> pc4
    [] OTHER                    -> alu

Result(i, alu, target, pc4, loaded, csrRead) ==
  IF ResultSrc(i)
  THEN IF ReadsCsr(i) THEN csrRead ELSE loaded
  ELSE LoadPCResult(i, alu, target, pc4)

\* The register file: x0 is written like any register and reads as zero.
ReadReg(regs, r) == IF r = X0 THEN 0 ELSE regs[r]

WriteReg(regs, i, v) == IF RegWrite(i) THEN [regs EXCEPT ![i.rd] = v] ELSE regs

WriteMem(mem, i, addr, v) == IF MemWrite(i) THEN [mem EXCEPT ![addr] = v] ELSE mem

(***************************************************************************)
(* Control and status registers.  mtval and mscratch are plain storage;    *)
(* MIE and MTIE are the only bits of mstatus and mie that are stored       *)
(* (externalIRQ is tied to zero in datapath.sv).                           *)
(***************************************************************************)
CsrState ==
  [MIE : BOOLEAN, MTIE : BOOLEAN, mepc : Word, mtvec : Word, mcause : Word,
   mscratch : Word, mtval : Word, minstret : 0 .. InstretMod - 1]

ResetCsr ==
  [MIE |-> FALSE, MTIE |-> FALSE, mepc |-> 0, mtvec |-> 0, mcause |-> 0,
   mscratch |-> 0, mtval |-> 0, minstret |-> 0]

HasBit(w, mask) == (w \div mask) % 2 = 1

Align(w) == w - (w % InstrBytes)

ReadCsr(c, name, line) ==
  CASE name = "mstatus" -> MStatusBase + (IF c.MIE THEN MIEMask ELSE 0)
    [] name = "mie"     -> IF c.MTIE THEN MTIEMask ELSE 0
    [] name = "mip"     -> IF line THEN MTIEMask ELSE 0
    [] name = "none"    -> Unimplemented
    [] OTHER            -> c[name]

\* The value the CSR instruction computes from what it reads.
CsrResult(wc, old, wd) ==
  CASE wc = "none"  -> old
    [] wc = "swap"  -> wd
    [] wc = "set"   -> OrW(old, wd)
    [] wc = "clear" -> AndNotW(old, wd)

\* CLINT write port: mip and the unimplemented addresses ignore the write.
WriteCsr(c, name, v) ==
  CASE name = "mstatus" -> [c EXCEPT !.MIE = HasBit(v, MIEMask)]
    [] name = "mie"     -> [c EXCEPT !.MTIE = HasBit(v, MTIEMask)]
    [] name = "mtvec"   -> [c EXCEPT !.mtvec = Align(v)]
    [] name \in {"mepc", "mcause", "mscratch", "mtval"} -> [c EXCEPT ![name] = v]
    [] OTHER            -> c

\* minstret counts the instructions that leave the memory stage; a CSR write wins.
CountRetired(n, i, v) ==
  CASE i.csr = "minstret" /\ i.wc # "none" -> v % InstretMod
    [] Retire(i) /\ ~(i.csr = "minstret" /\ i.wc # "none") -> (n + 1) % InstretMod
    [] OTHER -> n

\* The CSR file after instruction i, with ALU result alu, has been in the memory stage.
CsrAfter(c, i, alu, line) ==
  LET wd == IF i.zimm THEN i.uimm ELSE alu
      v  == CsrResult(i.wc, ReadCsr(c, i.csr, line), wd)
  IN [WriteCsr(c, i.csr, v) EXCEPT !.minstret = CountRetired(c.minstret, i, v)]

(***************************************************************************)
(* CLINT: when a trap is raised and what it does to the CSRs.              *)
(***************************************************************************)
Pending(c, line) == c.MIE /\ c.MTIE /\ line

EnterTrap(c, pc) == [c EXCEPT !.MIE = FALSE, !.mepc = pc, !.mcause = TimerCause]

LeaveTrap(c) == [c EXCEPT !.MIE = TRUE]

-----------------------------------------------------------------------------
(***************************************************************************)
(* Assumptions on the parameters.                                          *)
(***************************************************************************)
ASSUME WordAssumption ==
  /\ WordMod \in Nat \ {0}
  /\ InstrBytes \in Word \ {0}
  /\ InstretMod \in 1 .. WordMod
  /\ {ResetPC, TimerCause, Unimplemented, MIEMask, MTIEMask} \subseteq Word
  /\ MIEMask # 0 /\ MTIEMask # 0
  /\ {MStatusBase, MStatusBase + MIEMask} \subseteq Word

ASSUME RegAssumption == X0 \in Reg

ASSUME FunctionAssumption ==
  \A a, b \in Word :
    /\ \A f \in Fns : Alu(f, a, b) \in Word /\ Holds(f, a, b) \in BOOLEAN
    /\ OrW(a, b) \in Word /\ AndNotW(a, b) \in Word
=============================================================================
