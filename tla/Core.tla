------------------------------- MODULE Core ---------------------------------
(***************************************************************************)
(* The LLTRISC-V core: datapath.sv with its hazard unit and trap logic.    *)
(* Five stages, fetch, decode, execute, memory and write-back, separated   *)
(* by pipeline registers named after the stage they feed.  One step is one *)
(* rising clock edge, on which every register takes the value computed     *)
(* from the old ones; the register file is written on the falling edge     *)
(* before it, so decode already reads what write-back holds.               *)
(***************************************************************************)
EXTENDS RV32

CONSTANTS
  Programs,       \* the instruction memories considered
  InitMems,       \* the data memories considered at power-on
  IrqLevels       \* the levels the timer interrupt line takes

\* Every instruction of a program retires: fence and the reserved encodings, which the
\* core lets pass without counting them, are left out.
ASSUME ProgramAssumption ==
  /\ Programs \subseteq [Word -> Instr]
  /\ InitMems \subseteq [Word -> Word]
  /\ IrqLevels \subseteq BOOLEAN

VARIABLES
  imem,   \* instruction memory: fixed after Init
  pcF,    \* PCF_reg
  d,      \* decode:     instrD_reg, PCD_reg
  e,      \* execute:    the controls and fields of an instruction, PCE_reg, RD1E_reg, RD2E_reg
  m,      \* memory:     ALUResultM_reg, writeDataM_reg, PCTargetM_reg, PCPlus4M_reg
  w,      \* write-back: regWriteW_reg, RDW_reg and the two results of which resultW is one
  regs,   \* the register file
  mem,    \* the data memory behind the dmem port
  csr,    \* the registers of CSRFile.sv and CLINT.sv
  irq     \* systemTimerIRQ

vars == <<imem, pcF, d, e, m, w, regs, mem, csr, irq>>

BubbleD == [instr |-> Bubble, pc |-> 0]
BubbleE == [instr |-> Bubble, pc |-> 0, rd1 |-> 0, rd2 |-> 0]
BubbleM == [instr |-> Bubble, alu |-> 0, wdata |-> 0, target |-> 0, pc4 |-> 0]
BubbleW == [wen |-> FALSE, rd |-> X0, val |-> 0]

DType == [instr : Instr \cup {Bubble}, pc : Word]
EType == [instr : Instr \cup {Bubble}, pc : Word, rd1 : Word, rd2 : Word]
MType == [instr : Instr \cup {Bubble}, alu : Word, wdata : Word, target : Word, pc4 : Word]
WType == [wen : BOOLEAN, rd : Reg, val : Word]

-----------------------------------------------------------------------------
(***************************************************************************)
(* Memory and write-back.                                                  *)
(***************************************************************************)
LoadPCResultM == LoadPCResult(m.instr, m.alu, m.target, m.pc4)

ResultM == Result(m.instr, m.alu, m.target, m.pc4, mem[m.alu],
                  ReadCsr(csr, m.instr.csr, irq))

\* The register file after the falling edge of this clock.
RegsAfterW == IF w.wen THEN [regs EXCEPT ![w.rd] = w.val] ELSE regs

CsrAfterM == CsrAfter(csr, m.instr, m.alu, irq)

(***************************************************************************)
(* The hazard unit.  The memory stage forwards LoadPCResultM, which is not *)
(* the result of a load or CSR instruction: lwStall keeps its reader away. *)
(***************************************************************************)
\* MUTANT: the older of two results wins.
ForwardOldest(r, latched) ==
  CASE r # X0 /\ w.wen /\ w.rd = r                -> w.val
    [] r # X0 /\ RegWrite(m.instr) /\ m.instr.rd = r /\ ~(w.wen /\ w.rd = r)
                                                  -> LoadPCResultM
    [] OTHER                                      -> latched

Forward(r, latched) ==
  IF r # X0 /\ RegWrite(m.instr) /\ m.instr.rd = r THEN LoadPCResultM
  ELSE IF r # X0 /\ w.wen /\ w.rd = r THEN w.val
  ELSE latched

RD1E == Forward(e.instr.rs1, e.rd1)
RD2E == Forward(e.instr.rs2, e.rd2)

PCSrcE    == Jumps(e.instr, RD1E, RD2E)
PCTargetE == Target(e.instr, e.pc, RD1E)

\* MUTANT: only the first source operand is compared.
StallOnRS1 == ResultSrc(e.instr) /\ d.instr.rs1 = e.instr.rd

\* MUTANT: resultSrcE is left out of lwStall.
StallOnAnyWriter == e.instr.rd \in {d.instr.rs1, d.instr.rs2}

LwStall == ResultSrc(e.instr) /\ e.instr.rd \in {d.instr.rs1, d.instr.rs2}

\* MUTANT: the instruction behind a taken branch stays in decode.
NoFlushD == FALSE

FlushD == PCSrcE

\* MUTANT: the instruction behind a taken branch goes on to execute.
FlushEOnStall == LwStall

FlushE == LwStall \/ PCSrcE

(***************************************************************************)
(* What the pipeline registers load on a clock edge.                       *)
(***************************************************************************)
Fetched  == [instr |-> imem[pcF], pc |-> pcF]

Decoded  == [instr |-> d.instr, pc |-> d.pc,
             rd1 |-> ReadReg(RegsAfterW, d.instr.rs1),
             rd2 |-> ReadReg(RegsAfterW, d.instr.rs2)]

Executed == [instr |-> e.instr, alu |-> ExecResult(e.instr, RD1E, RD2E), wdata |-> RD2E,
             target |-> PCTargetE, pc4 |-> NextPC(e.pc)]

Committed == [wen |-> RegWrite(m.instr), rd |-> m.instr.rd, val |-> ResultM]

\* MUTANT: the instruction in execute is taken for completed.
SavePCAfterE == IF Retire(d.instr) THEN d.pc ELSE pcF

\* savePC: the oldest instruction that has not reached the memory stage.
SavePC ==
  IF Retire(e.instr) THEN e.pc
  ELSE IF Retire(d.instr) THEN d.pc
  ELSE pcF

-----------------------------------------------------------------------------
Init ==
  /\ imem \in Programs
  /\ pcF = ResetPC
  /\ d = BubbleD /\ e = BubbleE /\ m = BubbleM /\ w = BubbleW
  /\ regs = [r \in Reg |-> 0]
  /\ mem \in InitMems
  /\ csr = ResetCsr
  /\ irq \in IrqLevels

\* The instructions in memory and write-back complete on every clock but a reset.
Commit ==
  /\ w' = Committed
  /\ regs' = RegsAfterW
  /\ mem' = WriteMem(mem, m.instr, m.alu, m.wdata)
  /\ irq' \in IrqLevels
  /\ imem' = imem

\* MUTANT: a trap does not clear the registers of the memory stage.
FlushFront == d' = BubbleD /\ e' = BubbleE /\ m' = Executed

\* trap: everything that has not reached the memory stage is dropped.
Flush == d' = BubbleD /\ e' = BubbleE /\ m' = BubbleM

\* No trap: the pipeline advances, stalls decode behind a load, or takes a jump.
Advance ==
  /\ ~Pending(csr, irq)
  /\ ~IsReturn(e.instr)
  /\ Commit
  /\ m' = Executed
  /\ e' = IF FlushE THEN BubbleE ELSE Decoded
  /\ d' = IF FlushD THEN BubbleD ELSE IF LwStall THEN d ELSE Fetched
  /\ pcF' = IF LwStall THEN pcF ELSE IF PCSrcE THEN PCTargetE ELSE NextPC(pcF)
  /\ csr' = CsrAfterM

\* An interrupt: the CSR instruction in the memory stage still completes.
TakeInterrupt ==
  /\ Pending(csr, irq)
  /\ ~IsReturn(e.instr)
  /\ Commit
  /\ Flush
  /\ pcF' = csr.mtvec
  /\ csr' = EnterTrap(CsrAfterM, SavePC)

\* mret and its kin jump to MEPC_reg, whatever the memory stage is writing to it.
ReturnFromTrap ==
  /\ ~Pending(csr, irq)
  /\ IsReturn(e.instr)
  /\ Commit
  /\ Flush
  /\ pcF' = csr.mepc
  /\ csr' = LeaveTrap(CsrAfterM)

\* Both at once: the pipeline goes to the handler, the CSRs do as for a return.
InterceptReturn ==
  /\ Pending(csr, irq)
  /\ IsReturn(e.instr)
  /\ Commit
  /\ Flush
  /\ pcF' = csr.mtvec
  /\ csr' = LeaveTrap(CsrAfterM)

\* The asynchronous reset clears every register; the store in flight is lost.
Reset ==
  /\ pcF' = ResetPC
  /\ Flush
  /\ w' = BubbleW
  /\ regs' = [r \in Reg |-> 0]
  /\ csr' = ResetCsr
  /\ irq' \in IrqLevels
  /\ UNCHANGED <<imem, mem>>

Clock == \/ Advance \/ TakeInterrupt \/ ReturnFromTrap \/ InterceptReturn

Next == Clock \/ Reset

Spec == Init /\ [][Next]_vars

\* The clock of the FPGA never stops; whether anybody resets the core is open.
FairSpec == Spec /\ WF_vars(Clock)

-----------------------------------------------------------------------------
(***************************************************************************)
(* The architectural state of the pipeline: what a program would find if   *)
(* the clock stopped for it, with the instructions in memory and           *)
(* write-back completed and those before execute not begun.                *)
(***************************************************************************)
ArchRegs == [WriteReg(RegsAfterW, m.instr, ResultM) EXCEPT ![X0] = 0]
ArchMem  == WriteMem(mem, m.instr, m.alu, m.wdata)

Arch == INSTANCE ISA WITH
  regs <- ArchRegs, mem <- ArchMem, pc <- SavePC, csr <- CsrAfterM, seen <- csr

(***************************************************************************)
(* Properties.                                                             *)
(***************************************************************************)
\* Every pipeline register and every architectural register holds a value of its type.
TypeOK ==
  /\ imem \in [Word -> Instr]
  /\ pcF \in Word
  /\ d \in DType
  /\ e \in EType
  /\ m \in MType
  /\ w \in WType
  /\ regs \in [Reg -> Word]
  /\ mem \in [Word -> Word]
  /\ csr \in CsrState
  /\ irq \in BOOLEAN

\* The instructions in fetch, decode and execute are consecutive in memory: a redirect
\* (datapath.sv PCW, flushD, flushE, trap) never leaves an instruction of the path it
\* abandoned, and a stall never drops or repeats one.
InOrder ==
  /\ Retire(d.instr) => /\ d.instr = imem[d.pc]
                        /\ pcF = NextPC(d.pc)
  /\ Retire(e.instr) => /\ e.instr = imem[e.pc]
                        /\ Retire(d.instr)
                        /\ d.pc = NextPC(e.pc)

\* The hazard unit never lets an instruction reach execute while a load or a CSR
\* instruction it reads from is in memory: there is nothing to forward yet.
NoLoadUse ==
  Retire(e.instr) /\ ResultSrc(m.instr) => m.instr.rd \notin {e.instr.rs1, e.instr.rs2}

\* The operands that execute uses, forwarded or not, are the values the registers have
\* once every older instruction has completed (hazardUnit.sv forwardAE, forwardBE).
OperandsFresh ==
  Retire(e.instr) => /\ RD1E = ArchRegs[e.instr.rs1]
                     /\ RD2E = ArchRegs[e.instr.rs2]

\* Seen from its architectural state, the pipeline executes the program one instruction
\* at a time, in order, and takes every interrupt between two instructions.
RefinesISA == Arch!Spec

\* As long as nobody resets it, the core keeps completing instructions or taking traps:
\* stalls and flushes never hold it for ever.
Progress ==
  <>[][Clock]_vars => []<>(Retire(m.instr) \/ Pending(csr, irq) \/ IsReturn(e.instr))
=============================================================================
