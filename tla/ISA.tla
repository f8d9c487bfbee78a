-------------------------------- MODULE ISA ---------------------------------
(***************************************************************************)
(* The sequential machine that the LLTRISC-V pipeline (Core) implements:   *)
(* one instruction at a time, each seeing the results of all the earlier   *)
(* ones.  It is written from what the core guarantees, not from the        *)
(* RISC-V manual, and makes the core's one visible departure from a        *)
(* textbook machine explicit: the trap logic decides, and jumps, by the    *)
(* CSR values of the previous clock (seen), while CSR instructions work on *)
(* the current ones (csr).                                                 *)
(***************************************************************************)
EXTENDS RV32

VARIABLES
  imem,   \* instruction memory: fixed after Init
  regs,   \* the register file as programs see it
  mem,    \* data memory
  pc,     \* the next instruction to execute
  csr,    \* control and status registers
  seen,   \* the value of csr that the trap logic uses
  irq     \* the timer interrupt line

vars == <<imem, regs, mem, pc, csr, seen, irq>>

Init ==
  /\ imem \in [Word -> Instr]
  /\ regs = [r \in Reg |-> 0]
  /\ mem \in [Word -> Word]
  /\ pc = ResetPC
  /\ csr = ResetCsr
  /\ seen = ResetCsr
  /\ irq \in BOOLEAN

\* The clock: the line may change, and the trap logic catches up with the CSRs.
Tick == irq' \in BOOLEAN /\ imem' = imem

\* One instruction other than a return from a trap, to completion.
Execute ==
  LET i   == imem[pc]
      a   == ReadReg(regs, i.rs1)
      b   == ReadReg(regs, i.rs2)
      alu == ExecResult(i, a, b)
      v   == Result(i, alu, Target(i, pc, a), NextPC(pc), mem[alu],
                    ReadCsr(csr, i.csr, irq'))
  IN /\ ~Pending(seen, irq)
     /\ ~IsReturn(i)
     /\ Tick
     /\ regs' = [WriteReg(regs, i, v) EXCEPT ![X0] = 0]
     /\ mem' = WriteMem(mem, i, alu, b)
     /\ pc' = IF Jumps(i, a, b) THEN Target(i, pc, a) ELSE NextPC(pc)
     /\ csr' = CsrAfter(csr, i, alu, irq')
     /\ seen' = csr

\* The interrupt is precise: pc has not been executed, everything before it has.
TakeInterrupt ==
  /\ Pending(seen, irq)
  /\ Tick
  /\ pc' = seen.mtvec
  /\ csr' = EnterTrap(csr, pc)
  /\ seen' = csr'
  /\ UNCHANGED <<regs, mem>>

Return ==
  /\ ~Pending(seen, irq)
  /\ IsReturn(imem[pc])
  /\ Tick
  /\ pc' = seen.mepc
  /\ csr' = LeaveTrap(csr)
  /\ seen' = csr'
  /\ UNCHANGED <<regs, mem>>

\* An interrupt that meets a return: the handler runs again, nothing is saved.
InterceptedReturn ==
  /\ Pending(seen, irq)
  /\ IsReturn(imem[pc])
  /\ Tick
  /\ pc' = seen.mtvec
  /\ csr' = LeaveTrap(csr)
  /\ seen' = csr'
  /\ UNCHANGED <<regs, mem>>

\* A clock in which no instruction completes: the pipeline stalls or fills.
Wait ==
  /\ ~Pending(seen, irq)
  /\ Tick
  /\ seen' = csr
  /\ UNCHANGED <<regs, mem, pc, csr>>

\* Reset keeps the memory, except that the last store may be lost.
Reset ==
  /\ Tick
  /\ regs' = [r \in Reg |-> 0]
  /\ \E a \in Word, v \in Word : mem' = [mem EXCEPT ![a] = v]
  /\ pc' = ResetPC
  /\ csr' = ResetCsr
  /\ seen' = ResetCsr

Next == \/ Execute \/ TakeInterrupt \/ Return \/ InterceptedReturn \/ Wait \/ Reset

Spec == Init /\ [][Next]_vars
=============================================================================
