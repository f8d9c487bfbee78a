-------------------------------- MODULE Soc ---------------------------------
(***************************************************************************)
(* The devices of hw/soc and the code of the board support package that    *)
(* drives them, at the granularity of bus accesses: one step is one clock  *)
(* in which the CPU makes at most one load or store and every device takes *)
(* its own step.  The CPU runs rt_hw_board_init, then console input and    *)
(* output, and is interrupted by the system timer.                         *)
(***************************************************************************)
EXTENDS Naturals, Sequences, SequencesExt

CONSTANTS
  Half,      \* a 64-bit register is two halves of this many values (2^32)
  Timecmp,   \* SystemCoreClock / RT_TICK_PER_SECOND
  Frame,     \* clocks that a character takes on a wire
  Text,      \* the characters that the software transmits
  Input,     \* the characters that arrive on rxPort
  CallSets,  \* the console calls a program makes: sets of "transmit" and "receive"
  Blank      \* what the receiver's shift register holds when idle: all ones

ASSUME SocAssumption ==
  /\ Half \in Nat \ {0} /\ Frame \in Nat
  /\ Timecmp \in 0 .. Half * Half - 1
  /\ CallSets \subseteq SUBSET {"transmit", "receive"}
  /\ Text \in Seq(ToSet(Text)) /\ Input \in Seq(ToSet(Input))

VARIABLES
  mtime, mtimecmp,        \* sysTimer.sv
  status, data,           \* uartController.sv: status_reg[1:0] and send_data_reg
  tx, txd, txcnt,         \* uartTxPort.sv: state, sendData_sreg and the clocks left
  rx, rxd, rxcnt,         \* uartRxPort.sv: state, readData_sreg and the clocks left
  pc, tmp,                \* the thread: where it is, and what its last load returned
  isr,                    \* the timer interrupt handler: where it is
  calls,                  \* the console calls of this program: fixed after Init
  enabled,                \* the timer interrupt can be taken
  handed,                 \* history: characters written to send_data
  sent,                   \* history: characters that left on txPort
  arrived,                \* history: characters that began to arrive on rxPort
  delivered,              \* history: characters returned to the caller
  age                     \* history: clocks counted since mtime was last cleared, up to Timecmp + 2

timer   == <<mtime, mtimecmp>>
uart    == <<status, data, tx, txd, txcnt, rx, rxd, rxcnt>>
history == <<handed, sent, arrived, delivered, age>>
vars    == <<timer, uart, pc, tmp, isr, calls, enabled, history>>

Low(t)        == t % Half
High(t)       == t \div Half
Join(hi, low) == hi * Half + low

None == [reg |-> "none", val |-> 0]
Store(reg, val) == [reg |-> reg, val |-> val]

-----------------------------------------------------------------------------
(***************************************************************************)
(* sysTimer.sv.  A store to one half of mtime holds the other for a clock. *)
(***************************************************************************)
\* MUTANT: the interrupt is raised one clock early.
irqAtCompare == mtime >= mtimecmp

systemTimerIRQ == mtime > mtimecmp

\* MUTANT: the counter does not wrap.
IncUnbounded(t) == t + 1

Inc64(t) == (t + 1) % (Half * Half)

SysTimer(st) ==
  /\ mtime' = CASE st.reg = "mtime"  -> Join(High(mtime), st.val)
                [] st.reg = "mtimeh" -> Join(st.val, Low(mtime))
                [] OTHER             -> Inc64(mtime)
  /\ mtimecmp' = CASE st.reg = "mtimecmp"  -> Join(High(mtimecmp), st.val)
                   [] st.reg = "mtimecmph" -> Join(st.val, Low(mtimecmp))
                   [] OTHER                -> mtimecmp

(***************************************************************************)
(* uartTxPort.sv: S_WAIT, S_TRANS for a frame, S_END for one clock.        *)
(***************************************************************************)
\* MUTANT: the port is ready as soon as it has taken the character.
wreadyEarly == tx = "trans"

wready == tx = "end"

\* MUTANT: the port does not leave its final state.
txNextStuck(sending) ==
  CASE tx = "wait"  -> IF sending THEN "trans" ELSE "wait"
    [] tx = "trans" -> IF txcnt = 0 THEN "end" ELSE "trans"
    [] tx = "end"   -> "end"

txNext(sending) ==
  CASE tx = "wait"  -> IF sending THEN "trans" ELSE "wait"
    [] tx = "trans" -> IF txcnt = 0 THEN "end" ELSE "trans"
    [] tx = "end"   -> "wait"

TxPort ==
  /\ tx' = txNext("sending" \in status)
  /\ txd' = IF tx = "wait" THEN data ELSE txd
  /\ txcnt' = IF tx = "wait" THEN Frame ELSE IF txcnt > 0 THEN txcnt - 1 ELSE 0
  /\ sent' = IF tx = "trans" /\ txcnt = 0 THEN Append(sent, txd) ELSE sent

(***************************************************************************)
(* uartRxPort.sv.  The sender on the line is not part of the system; it    *)
(* begins a character only while the port waits for one.                   *)
(***************************************************************************)
rxNext(start) ==
  CASE rx = "wait"  -> IF start THEN "trans" ELSE "wait"
    [] rx = "trans" -> IF rxcnt = 0 THEN "end" ELSE "trans"
    [] rx = "end"   -> IF "received" \in status THEN "end" ELSE "wait"

rvaild(start) == rxNext(start) = "end"

RxPort(start) ==
  /\ start => rx = "wait" /\ arrived < Len(Input)
  /\ rx' = rxNext(start)
  /\ rxd' = CASE rx = "wait"                 -> Blank
              [] rx = "trans" /\ rxcnt = 0   -> Input[arrived]
              [] OTHER                       -> rxd
  /\ rxcnt' = IF rx = "wait" THEN Frame ELSE IF rxcnt > 0 THEN rxcnt - 1 ELSE 0
  /\ arrived' = IF start THEN arrived + 1 ELSE arrived

(***************************************************************************)
(* uartController.sv.  A store to status overrides what the ports do to it *)
(* in the same clock.                                                      *)
(***************************************************************************)
Controller(st, start) ==
  /\ status' = IF st.reg = "status" THEN st.val
               ELSE (status \ (IF wready THEN {"sending"} ELSE {}))
                      \cup (IF rvaild(start) THEN {"received"} ELSE {})
  /\ data' = IF st.reg = "send_data" THEN st.val ELSE data

\* One clock of all the devices while the CPU makes store st, or none.
Devices(st) ==
  /\ SysTimer(st)
  /\ TxPort
  /\ \E start \in BOOLEAN : RxPort(start) /\ Controller(st, start)
  /\ age' = IF st.reg = "mtime" THEN 0 ELSE IF st.reg = "mtimeh" THEN age
            ELSE IF age < Timecmp + 2 THEN age + 1 ELSE age
  /\ calls' = calls

-----------------------------------------------------------------------------
(***************************************************************************)
(* The software.  A thread step needs the CPU: no handler is running and   *)
(* no interrupt is taken in its place.                                     *)
(***************************************************************************)
HasCPU == isr = "none" /\ ~(enabled /\ systemTimerIRQ)

At(here, there) == pc = here /\ pc' = there

Thread == HasCPU /\ UNCHANGED isr

\* rt_hw_board_init: ostick_config, then interrupts are enabled by the first mret.
Boot ==
  /\ Thread
  /\ \/ At("boot", "cmp_high")      /\ Devices(Store("mtimecmp", Low(Timecmp)))
                                    /\ UNCHANGED enabled
     \/ At("cmp_high", "time_low")  /\ Devices(Store("mtimecmph", High(Timecmp)))
                                    /\ UNCHANGED enabled
     \/ At("time_low", "time_high") /\ Devices(Store("mtime", 0))
                                    /\ UNCHANGED enabled
     \/ At("time_high", "idle")     /\ Devices(Store("mtimeh", 0))
                                    /\ enabled' = TRUE
  /\ UNCHANGED <<tmp, handed, delivered>>

\* Clocks in which the CPU does something else.
Compute ==
  /\ Thread
  /\ Devices(None)
  /\ UNCHANGED <<pc, tmp, enabled, handed, delivered>>

\* UART_Transmit: wait for the last character, write this one, set Sending.
TransmitPoll ==
  /\ Thread
  /\ "transmit" \in calls /\ handed < Len(Text)
  /\ pc \in {"idle", "tx_poll"}
  /\ pc' = IF "sending" \in status THEN "tx_poll" ELSE "tx_data"
  /\ Devices(None)
  /\ UNCHANGED <<tmp, enabled, handed, delivered>>

TransmitData ==
  /\ Thread
  /\ At("tx_data", "or_load")
  /\ Devices(Store("send_data", Text[handed + 1]))
  /\ handed' = handed + 1
  /\ UNCHANGED <<tmp, enabled, delivered>>

\* UART_Status_SetBits: a load and a store.
SetBitsLoad ==
  /\ Thread
  /\ At("or_load", "or_store")
  /\ tmp' = status
  /\ Devices(None)
  /\ UNCHANGED <<enabled, handed, delivered>>

SetBitsStore ==
  /\ Thread
  /\ At("or_store", "idle")
  /\ Devices(Store("status", tmp \cup {"sending"}))
  /\ UNCHANGED <<tmp, enabled, handed, delivered>>

\* UART_Receive and rt_hw_console_getchar: read status until a character is there.
ReceivePoll ==
  /\ Thread
  /\ "receive" \in calls
  /\ pc = "idle" /\ "received" \in status
  /\ pc' = "rx_data"
  /\ Devices(None)
  /\ UNCHANGED <<tmp, enabled, handed, delivered>>

ReceiveData ==
  /\ Thread
  /\ At("rx_data", "and_load")
  /\ delivered' = Append(delivered, rxd)
  /\ Devices(None)
  /\ UNCHANGED <<tmp, enabled, handed>>

\* UART_Status_ResetBits: a load and a store.
ResetBitsLoad ==
  /\ Thread
  /\ At("and_load", "and_store")
  /\ tmp' = status
  /\ Devices(None)
  /\ UNCHANGED <<enabled, handed, delivered>>

\* MUTANT: the received character is not acknowledged.
AcknowledgeNothing(s) == s

Acknowledge(s) == s \ {"received"}

ResetBitsStore ==
  /\ Thread
  /\ At("and_store", "idle")
  /\ Devices(Store("status", Acknowledge(tmp)))
  /\ UNCHANGED <<tmp, enabled, handed, delivered>>

(***************************************************************************)
(* Trap_Handler, run to completion with interrupts disabled: count the     *)
(* tick, then System_Timer_Set_Time(0).                                    *)
(***************************************************************************)
Interrupt ==
  /\ isr = "none" /\ enabled /\ systemTimerIRQ
  /\ isr' = "tick"
  /\ Devices(None)
  /\ UNCHANGED <<pc, tmp, enabled, handed, delivered>>

Handler ==
  /\ \/ isr = "tick" /\ isr' = "high" /\ Devices(Store("mtime", 0))
     \/ isr = "high" /\ isr' = "mret" /\ Devices(Store("mtimeh", 0))
     \/ isr = "mret" /\ isr' = "none" /\ Devices(None)
  /\ UNCHANGED <<pc, tmp, enabled, handed, delivered>>

-----------------------------------------------------------------------------
Init ==
  /\ mtime = 0 /\ mtimecmp = 0
  /\ status = {} /\ data = Blank
  /\ tx = "wait" /\ txd = Blank /\ txcnt = 0
  /\ rx = "wait" /\ rxd = Blank /\ rxcnt = 0
  /\ pc = "boot" /\ tmp = {} /\ isr = "none" /\ enabled = FALSE
  /\ calls \in CallSets
  /\ handed = 0 /\ sent = <<>> /\ arrived = 0 /\ delivered = <<>> /\ age = 0

Console ==
  \/ TransmitPoll \/ TransmitData \/ SetBitsLoad \/ SetBitsStore
  \/ ReceivePoll \/ ReceiveData \/ ResetBitsLoad \/ ResetBitsStore

Next == \/ Boot \/ Compute \/ Console \/ Interrupt \/ Handler

Spec == Init /\ [][Next]_vars

\* The clock runs, the CPU gets on with its handler, and the thread gets on with its
\* calls between the interrupts.
FairSpec ==
  Spec /\ WF_vars(Next) /\ WF_vars(Handler) /\ SF_vars(Boot) /\ SF_vars(Console)

-----------------------------------------------------------------------------
Bits  == {"sending", "received"}
Chars == ToSet(Text) \cup ToSet(Input) \cup {Blank}

\* Every register and every program counter holds one of its values.
TypeOK ==
  /\ calls \in CallSets
  /\ mtime \in 0 .. Half * Half - 1 /\ mtimecmp \in 0 .. Half * Half - 1
  /\ status \subseteq Bits /\ tmp \subseteq Bits /\ data \in Chars
  /\ {tx, rx} \subseteq {"wait", "trans", "end"} /\ {txd, rxd} \subseteq Chars
  /\ txcnt \in 0 .. Frame /\ rxcnt \in 0 .. Frame
  /\ pc \in {"boot", "cmp_high", "time_low", "time_high", "idle", "tx_poll", "tx_data",
             "or_load", "or_store", "rx_data", "and_load", "and_store"}
  /\ isr \in {"none", "tick", "high", "mret"}
  /\ handed \in 0 .. Len(Text) /\ arrived \in 0 .. Len(Input)
  /\ age \in 0 .. Timecmp + 2

\* Software that only transmits gets every character onto the wire once, in order, at
\* most the last one being under way (tang9k.c UART_Transmit, uartTxPort.sv), whatever
\* arrives on the line meanwhile.
OutputIsExact ==
  "receive" \notin calls =>
    /\ IsPrefix(sent, SubSeq(Text, 1, handed))
    /\ handed - Len(sent) <= 1

\* Software that only receives is handed every character that arrived once, in order
\* (tang9k.c UART_Receive, uartRxPort.sv).
InputIsExact ==
  "transmit" \notin calls =>
    /\ IsPrefix(delivered, SubSeq(Input, 1, arrived))
    /\ arrived - Len(delivered) <= 1

\* A tick is taken only when a full period has been counted since the timer was last
\* cleared (board.c ostick_config and Trap_Handler), although it is cleared in two stores
\* between which it counts on.
TickIsNotEarly == isr = "none" /\ enabled /\ systemTimerIRQ => age > Timecmp

\* Everything that is to be transmitted leaves in the end.
OutputCompletes == "transmit" \in calls => <>(Len(sent) >= Len(Text))

\* status_reg[0] is "send pending" (uartController.sv): while the transmitter does not
\* acknowledge a character, the bit says that one written to send_data has not left yet.
SendPending == "sending" \in status /\ tx # "end" => Len(sent) < handed
=============================================================================
