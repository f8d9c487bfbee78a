------------------------------ MODULE SocProofs ------------------------------
(***************************************************************************)
(* Console and tick are exact for every width of the timer, length of a    *)
(* frame, period, text and input, however the clocks of the ports, of the  *)
(* driver and of the interrupts interleave.                                *)
(***************************************************************************)
EXTENDS Soc, TLAPS

Words == 0 .. Half - 1
Times == 0 .. Half * Half - 1

-----------------------------------------------------------------------------
\* The two halves of a 64-bit register.
LEMMA HalvesType == ASSUME NEW t \in Times PROVE High(t) \in Words /\ Low(t) \in Words
BY SocAssumption DEF High, Low, Words, Times

LEMMA JoinType == ASSUME NEW hi \in Words, NEW low \in Words PROVE Join(hi, low) \in Times
BY SocAssumption DEF Join, Words, Times

LEMMA HalvesOfJoin == ASSUME NEW hi \in Words, NEW low \in Words
                      PROVE  High(Join(hi, low)) = hi /\ Low(Join(hi, low)) = low
BY SocAssumption DEF Join, Words, High, Low

LEMMA JoinOfHalves == ASSUME NEW t \in Times PROVE Join(High(t), Low(t)) = t
BY SocAssumption DEF Join, Times, High, Low

LEMMA Increment == ASSUME NEW t \in Times
                   PROVE  Inc64(t) \in Times /\ Inc64(t) <= t + 1 /\ Low(Inc64(t)) <= Low(t) + 1
BY SocAssumption DEF Inc64, Times, Low

-----------------------------------------------------------------------------
(***************************************************************************)
(* Types.  What the ports append and what the driver reads is a character  *)
(* because the counts behind it are within the text and the input.         *)
(***************************************************************************)
Typed ==
  /\ TypeOK
  /\ sent \in Seq(Chars) /\ delivered \in Seq(Chars)
  /\ pc = "tx_data" => handed < Len(Text)
  /\ rx = "trans" => arrived > 0

\* What the software stores in the devices' registers.
ValidStore(st) ==
  \/ st.reg = "none"
  \/ st.reg \in {"mtime", "mtimeh", "mtimecmp", "mtimecmph"} /\ st.val \in Words
  \/ st.reg = "status" /\ st.val \subseteq Bits
  \/ st.reg = "send_data" /\ st.val \in Chars

LEMMA Characters ==
  /\ Blank \in Chars /\ Text \in Seq(Chars) /\ Input \in Seq(Chars)
  /\ \A i \in 1 .. Len(Text) : Text[i] \in Chars
  /\ \A i \in 1 .. Len(Input) : Input[i] \in Chars
<1>1. ToSet(Text) \subseteq Chars /\ ToSet(Input) \subseteq Chars /\ Blank \in Chars
  BY DEF Chars
<1>2. Text \in Seq(Chars) /\ Input \in Seq(Chars)
  BY <1>1, SocAssumption
<1> QED BY <1>1, <1>2

LEMMA TimerTypes ==
  ASSUME Typed, NEW st, ValidStore(st), SysTimer(st)
  PROVE  mtime' \in Times /\ mtimecmp' \in Times
<1>1. mtime \in Times /\ mtimecmp \in Times
  BY DEF Typed, TypeOK, Times
<1>2. st.reg \in {"mtime", "mtimeh", "mtimecmp", "mtimecmph"} => st.val \in Words
  BY DEF ValidStore
<1>3. /\ st.reg = "mtime" => Join(High(mtime), st.val) \in Times
      /\ st.reg = "mtimeh" => Join(st.val, Low(mtime)) \in Times
      /\ st.reg = "mtimecmp" => Join(High(mtimecmp), st.val) \in Times
      /\ st.reg = "mtimecmph" => Join(st.val, Low(mtimecmp)) \in Times
  BY <1>1, <1>2, HalvesType, JoinType
<1>4. Inc64(mtime) \in Times
  BY <1>1, Increment
<1> QED BY <1>1, <1>3, <1>4 DEF SysTimer

LEMMA TxTypes ==
  ASSUME Typed, TxPort
  PROVE  tx' \in {"wait", "trans", "end"} /\ txd' \in Chars /\ txcnt' \in 0 .. Frame /\ sent' \in Seq(Chars)
<1>1. Frame \in Nat
  BY SocAssumption
<1> QED BY <1>1 DEF Typed, TypeOK, TxPort, txNext

LEMMA RxTypes ==
  ASSUME Typed, NEW st, ValidStore(st), NEW start \in BOOLEAN, RxPort(start), Controller(st, start)
  PROVE  /\ rx' \in {"wait", "trans", "end"} /\ rxd' \in Chars /\ rxcnt' \in 0 .. Frame
         /\ arrived' \in 0 .. Len(Input) /\ (rx' = "trans" => arrived' > 0)
         /\ status' \subseteq Bits /\ data' \in Chars
<1>1. Frame \in Nat /\ Len(Input) \in Nat
  BY SocAssumption
<1>2. rx' \in {"wait", "trans", "end"} /\ rxcnt' \in 0 .. Frame
  BY <1>1 DEF Typed, TypeOK, RxPort, rxNext
<1>3. arrived' \in 0 .. Len(Input) /\ (rx' = "trans" => arrived' > 0)
  BY <1>1 DEF Typed, TypeOK, RxPort, rxNext
<1>4. rxd' \in Chars
  BY <1>1, Characters DEF Typed, TypeOK, RxPort
<1>5. status' \subseteq Bits
  BY DEF Typed, TypeOK, Controller, ValidStore, Bits
<1>6. data' \in Chars
  BY DEF Typed, TypeOK, Controller, ValidStore
<1> QED BY <1>2, <1>3, <1>4, <1>5, <1>6

LEMMA DeviceTypes ==
  ASSUME Typed, NEW st, ValidStore(st), Devices(st)
  PROVE  /\ calls' = calls /\ mtime' \in Times /\ mtimecmp' \in Times
         /\ status' \subseteq Bits /\ data' \in Chars
         /\ {tx', rx'} \subseteq {"wait", "trans", "end"} /\ {txd', rxd'} \subseteq Chars
         /\ txcnt' \in 0 .. Frame /\ rxcnt' \in 0 .. Frame
         /\ arrived' \in 0 .. Len(Input) /\ (rx' = "trans" => arrived' > 0)
         /\ age' \in 0 .. Timecmp + 2 /\ sent' \in Seq(Chars)
<1>1. PICK start \in BOOLEAN : RxPort(start) /\ Controller(st, start)
  BY DEF Devices
<1>2. SysTimer(st) /\ TxPort /\ calls' = calls
  BY DEF Devices
<1>3. Timecmp \in Nat
  BY SocAssumption
<1>4. age' \in 0 .. Timecmp + 2
  BY <1>3 DEF Devices, Typed, TypeOK
<1> QED BY <1>1, <1>2, <1>4, TimerTypes, TxTypes, RxTypes

\* The counters, places and histories of the software, and the store that it makes.
Software ==
  /\ tmp \subseteq Bits
  /\ pc \in {"boot", "cmp_high", "time_low", "time_high", "idle", "tx_poll", "tx_data",
             "or_load", "or_store", "rx_data", "and_load", "and_store"}
  /\ isr \in {"none", "tick", "high", "mret"}
  /\ handed \in 0 .. Len(Text) /\ (pc = "tx_data" => handed < Len(Text))
  /\ delivered \in Seq(Chars)

LEMMA SoftwareTypes ==
  ASSUME Typed, Next
  PROVE  Software' /\ \E st : ValidStore(st) /\ Devices(st)
<1>1. Software /\ tmp \subseteq Bits /\ status \subseteq Bits /\ rxd \in Chars
  BY DEF Typed, TypeOK, Software
<1>2. 0 \in Words /\ Low(Timecmp) \in Words /\ High(Timecmp) \in Words
  <2>1. Timecmp \in Times
    BY SocAssumption DEF Times
  <2> QED BY <2>1, SocAssumption, HalvesType DEF Words
<1>3. ValidStore(None)
  BY DEF ValidStore, None
<1>4. \A v \in Words : /\ ValidStore(Store("mtime", v)) /\ ValidStore(Store("mtimeh", v))
                       /\ ValidStore(Store("mtimecmp", v)) /\ ValidStore(Store("mtimecmph", v))
  BY DEF ValidStore, Store
<1>5. CASE Boot
  BY <1>1, <1>2, <1>4, <1>5 DEF Boot, At, Thread, Software
<1>6. CASE Compute
  BY <1>1, <1>3, <1>6 DEF Compute, Thread, Software
<1>7. CASE TransmitPoll
  BY <1>1, <1>3, <1>7 DEF TransmitPoll, Thread, Software
<1>8. CASE TransmitData
  <2>1. handed \in Nat /\ handed < Len(Text) /\ Len(Text) \in Nat
    BY <1>1, <1>8, SocAssumption DEF TransmitData, At, Software
  <2>2. ValidStore(Store("send_data", Text[handed + 1]))
    BY <2>1, Characters DEF ValidStore, Store
  <2> QED BY <1>1, <1>8, <2>1, <2>2 DEF TransmitData, At, Thread, Software
<1>9. CASE SetBitsLoad
  BY <1>1, <1>3, <1>9 DEF SetBitsLoad, At, Thread, Software
<1>10. CASE SetBitsStore
  <2>1. ValidStore(Store("status", tmp \cup {"sending"}))
    BY <1>1 DEF ValidStore, Store, Bits
  <2> QED BY <1>1, <1>10, <2>1 DEF SetBitsStore, At, Thread, Software
<1>11. CASE ReceivePoll
  BY <1>1, <1>3, <1>11 DEF ReceivePoll, Thread, Software
<1>12. CASE ReceiveData
  BY <1>1, <1>3, <1>12 DEF ReceiveData, At, Thread, Software
<1>13. CASE ResetBitsLoad
  BY <1>1, <1>3, <1>13 DEF ResetBitsLoad, At, Thread, Software
<1>14. CASE ResetBitsStore
  <2>1. ValidStore(Store("status", Acknowledge(tmp)))
    BY <1>1 DEF ValidStore, Store, Acknowledge
  <2> QED BY <1>1, <1>14, <2>1 DEF ResetBitsStore, At, Thread, Software
<1>15. CASE Interrupt
  BY <1>1, <1>3, <1>15 DEF Interrupt, Software
<1>16. CASE Handler
  BY <1>1, <1>2, <1>3, <1>4, <1>16 DEF Handler, Software
<1> QED BY <1>5, <1>6, <1>7, <1>8, <1>9, <1>10, <1>11, <1>12, <1>13, <1>14, <1>15, <1>16 DEF Next, Console

LEMMA TypedInitially == Init => Typed
<1> SUFFICES ASSUME Init PROVE Typed
  OBVIOUS
<1>1. Blank \in Chars /\ Len(Text) \in Nat /\ Len(Input) \in Nat /\ Frame \in Nat /\ Timecmp \in Nat
  BY Characters, SocAssumption
<1>2. 0 \in Times
  BY SocAssumption DEF Times
<1> QED BY <1>1, <1>2 DEF Init, Typed, TypeOK, Times

LEMMA TypedStep == Typed /\ [Next]_vars => Typed'
<1> SUFFICES ASSUME Typed, [Next]_vars PROVE Typed'
  OBVIOUS
<1>1. CASE Next
  <2>1. Software' /\ \E st : ValidStore(st) /\ Devices(st)
    BY <1>1, SoftwareTypes
  <2>2. PICK st : ValidStore(st) /\ Devices(st)
    BY <2>1
  <2>3. calls' \in CallSets
    BY <2>2, DeviceTypes DEF Typed, TypeOK
  <2> QED BY <2>1, <2>2, <2>3, DeviceTypes DEF Software, Typed, TypeOK, Times
<1>2. CASE UNCHANGED vars
  BY <1>2 DEF vars, timer, uart, history, Typed, TypeOK, Chars
<1> QED BY <1>1, <1>2

\* The state of the devices, the driver and the histories always has its type, so no port appends
\* a character that is not one, and no count runs past its text (TypeOK for any constants).
THEOREM TypeCorrect == Spec => []TypeOK
<1>1. Typed => TypeOK
  BY DEF Typed
<1> QED BY <1>1, TypedInitially, TypedStep, PTL DEF Spec

-----------------------------------------------------------------------------
(***************************************************************************)
(* The tick.  What must be known between the two stores that clear mtime:  *)
(* its low half, since the first store, has not gone further than the      *)
(* clocks that were counted; and mtimecmp is complete before that.         *)
(***************************************************************************)
Counted(t) == t <= age \/ age > Timecmp

TimerInv ==
  /\ pc = "cmp_high" => Low(mtimecmp) = Low(Timecmp)
  /\ pc \notin {"boot", "cmp_high"} => mtimecmp = Timecmp
  /\ enabled <=> pc \notin {"boot", "cmp_high", "time_low", "time_high"}
  /\ isr # "none" => enabled
  /\ pc = "time_high" \/ isr = "high" => Counted(Low(mtime))
  /\ enabled /\ isr \in {"none", "mret"} => Counted(mtime)

\* A clock without a store to the timer.
LEMMA TimerCounts ==
  ASSUME Typed, NEW st, st.reg \in {"none", "status", "send_data"}, Devices(st)
  PROVE  /\ mtimecmp' = mtimecmp
         /\ Counted(mtime) => Counted(mtime)'
         /\ Counted(Low(mtime)) => Counted(Low(mtime))'
<1>1. mtime' = Inc64(mtime) /\ mtimecmp' = mtimecmp
  BY DEF Devices, SysTimer
<1>2. mtime \in Times /\ age \in Nat /\ Timecmp \in Nat /\ age' = IF age < Timecmp + 2 THEN age + 1 ELSE age
  BY SocAssumption DEF Typed, TypeOK, Times, Devices
<1>3. Inc64(mtime) \in Times /\ Inc64(mtime) <= mtime + 1 /\ Low(Inc64(mtime)) <= Low(mtime) + 1
  BY <1>2, Increment
<1>4. Low(mtime) \in Nat /\ Low(Inc64(mtime)) \in Nat /\ mtime \in Nat /\ Inc64(mtime) \in Nat
  BY <1>2, <1>3, HalvesType DEF Words, Times
<1> QED BY <1>1, <1>2, <1>3, <1>4 DEF Counted

\* The two stores that clear mtime, in ostick_config and in System_Timer_Set_Time.
LEMMA LowIsCleared ==
  ASSUME Typed, Devices(Store("mtime", 0))
  PROVE  mtimecmp' = mtimecmp /\ Counted(Low(mtime))'
<1>1. High(mtime) \in Words /\ 0 \in Words
  BY HalvesType, SocAssumption DEF Typed, TypeOK, Times, Words
<1>2. mtime' = Join(High(mtime), 0) /\ mtimecmp' = mtimecmp /\ age' = 0
  BY DEF Devices, SysTimer, Store
<1> QED BY <1>1, <1>2, HalvesOfJoin DEF Counted

LEMMA HighIsCleared ==
  ASSUME Typed, Devices(Store("mtimeh", 0)), Counted(Low(mtime))
  PROVE  mtimecmp' = mtimecmp /\ Counted(mtime)'
<1>1. Low(mtime) \in Words
  BY HalvesType DEF Typed, TypeOK, Times
<1>2. mtime' = Join(0, Low(mtime)) /\ mtimecmp' = mtimecmp /\ age' = age
  BY DEF Devices, SysTimer, Store
<1>3. Join(0, Low(mtime)) = Low(mtime)
  BY <1>1, SocAssumption DEF Join, Words
<1> QED BY <1>2, <1>3 DEF Counted

LEMMA TimerStep == Typed /\ TimerInv /\ [Next]_vars => TimerInv'
<1> SUFFICES ASSUME Typed, TimerInv, [Next]_vars PROVE TimerInv'
  OBVIOUS
<1>1. ASSUME NEW st, st.reg \in {"none", "status", "send_data"}, Devices(st), UNCHANGED enabled,
             pc' = pc \/ (/\ pc \notin {"boot", "cmp_high", "time_low", "time_high"}
                         /\ pc' \notin {"boot", "cmp_high", "time_low", "time_high"}),
             isr' = isr \/ (isr = "none" /\ enabled /\ isr' = "tick") \/ (isr = "mret" /\ isr' = "none")
      PROVE  TimerInv'
  <2>1. /\ mtimecmp' = mtimecmp /\ (Counted(mtime) => Counted(mtime)')
        /\ (Counted(Low(mtime)) => Counted(Low(mtime))')
    BY <1>1, TimerCounts
  <2>2. /\ pc' = "cmp_high" => Low(mtimecmp') = Low(Timecmp)
        /\ pc' \notin {"boot", "cmp_high"} => mtimecmp' = Timecmp
    BY <1>1, <2>1 DEF TimerInv
  <2>3. enabled' <=> pc' \notin {"boot", "cmp_high", "time_low", "time_high"}
    BY <1>1 DEF TimerInv
  <2>4. isr' # "none" => enabled'
    BY <1>1 DEF TimerInv
  <2>5. pc' = "time_high" \/ isr' = "high" => Counted(Low(mtime))'
    BY <1>1, <2>1 DEF TimerInv
  <2>6. enabled' /\ isr' \in {"none", "mret"} => Counted(mtime)'
    BY <1>1, <2>1 DEF TimerInv
  <2> QED BY <2>2, <2>3, <2>4, <2>5, <2>6 DEF TimerInv
<1>2. None.reg = "none" /\ \A v : Store("status", v).reg = "status" /\ Store("send_data", v).reg = "send_data"
  BY DEF None, Store
<1>3. CASE Boot
  <2>1. Timecmp \in Times /\ mtimecmp \in Times
    BY SocAssumption DEF Times, Typed, TypeOK
  <2>2. CASE At("boot", "cmp_high") /\ Devices(Store("mtimecmp", Low(Timecmp))) /\ UNCHANGED enabled
    <3>1. mtimecmp' = Join(High(mtimecmp), Low(Timecmp))
      BY <2>2 DEF Devices, SysTimer, Store
    <3>2. Low(mtimecmp') = Low(Timecmp)
      BY <2>1, <3>1, HalvesType, HalvesOfJoin
    <3> QED BY <1>3, <2>2, <3>2 DEF Boot, Thread, HasCPU, At, TimerInv
  <2>3. CASE At("cmp_high", "time_low") /\ Devices(Store("mtimecmph", High(Timecmp))) /\ UNCHANGED enabled
    <3>1. mtimecmp' = Join(High(Timecmp), Low(mtimecmp)) /\ Low(mtimecmp) = Low(Timecmp)
      BY <2>3 DEF Devices, SysTimer, Store, At, TimerInv
    <3>2. mtimecmp' = Timecmp
      BY <2>1, <3>1, JoinOfHalves
    <3> QED BY <1>3, <2>3, <3>2 DEF Boot, Thread, HasCPU, At, TimerInv
  <2>4. CASE At("time_low", "time_high") /\ Devices(Store("mtime", 0)) /\ UNCHANGED enabled
    BY <1>3, <2>4, LowIsCleared DEF Boot, Thread, HasCPU, At, TimerInv
  <2>5. CASE At("time_high", "idle") /\ Devices(Store("mtimeh", 0)) /\ enabled' = TRUE
    BY <1>3, <2>5, HighIsCleared DEF Boot, Thread, HasCPU, At, TimerInv
  <2> QED BY <1>3, <2>2, <2>3, <2>4, <2>5 DEF Boot
<1>4. CASE Compute
  BY <1>1, <1>2, <1>4 DEF Compute, Thread
<1>5. CASE Console
  BY <1>1, <1>2, <1>5 DEF Console, TransmitPoll, TransmitData, SetBitsLoad, SetBitsStore, ReceivePoll, ReceiveData,
                          ResetBitsLoad, ResetBitsStore, Thread, At
<1>6. CASE Interrupt
  BY <1>1, <1>2, <1>6 DEF Interrupt
<1>7. CASE Handler
  <2>1. CASE isr = "tick" /\ isr' = "high" /\ Devices(Store("mtime", 0))
    BY <1>7, <2>1, LowIsCleared DEF Handler, TimerInv
  <2>2. CASE isr = "high" /\ isr' = "mret" /\ Devices(Store("mtimeh", 0))
    BY <1>7, <2>2, HighIsCleared DEF Handler, TimerInv
  <2>3. CASE isr = "mret" /\ isr' = "none" /\ Devices(None)
    BY <1>1, <1>2, <1>7, <2>3 DEF Handler
  <2> QED BY <1>7, <2>1, <2>2, <2>3 DEF Handler
<1>8. CASE UNCHANGED vars
  BY <1>8 DEF vars, timer, uart, history, TimerInv, Counted
<1> QED BY <1>3, <1>4, <1>5, <1>6, <1>7, <1>8 DEF Next

\* The timer interrupt is never taken before a full period has been counted since the handler,
\* or ostick_config, cleared the time in two stores, whatever the width of the halves.
THEOREM TicksAreNotEarly == Spec => []TickIsNotEarly
<1>1. Init => TimerInv
  BY DEF Init, TimerInv
<1>2. Typed /\ TimerInv => TickIsNotEarly
  <2> SUFFICES ASSUME Typed, TimerInv, isr = "none", enabled, systemTimerIRQ PROVE age > Timecmp
    BY DEF TickIsNotEarly
  <2>1. mtimecmp = Timecmp /\ Counted(mtime)
    BY DEF TimerInv
  <2>2. mtime \in Nat /\ age \in Nat /\ Timecmp \in Nat
    BY SocAssumption DEF Typed, TypeOK
  <2> QED BY <2>1, <2>2 DEF systemTimerIRQ, Counted
<1> QED BY <1>1, <1>2, TimerStep, TypedInitially, TypedStep, PTL DEF Spec

-----------------------------------------------------------------------------
(***************************************************************************)
(* Output.  A character is in exactly one place: written but not yet       *)
(* announced (or_load, or_store), announced (Sending, and the port still   *)
(* waits), in the port, or sent; and while it is in one of the first three *)
(* the driver does not write another.                                      *)
(***************************************************************************)
Agrees(s, t) == \A i \in 1 .. Len(s) : s[i] = t[i]
UnderWay == pc \in {"or_load", "or_store"} \/ (tx = "wait" /\ "sending" \in status) \/ tx = "trans"

OutputInv ==
  /\ pc \in {"rx_data", "and_load", "and_store"} => "receive" \in calls
  /\ "receive" \notin calls =>
       /\ Agrees(sent, Text)
       /\ handed = IF UnderWay THEN Len(sent) + 1 ELSE Len(sent)
       /\ UnderWay => data = Text[handed]
       /\ pc \in {"tx_data", "or_load", "or_store"} => "sending" \notin status /\ tx = "wait"
       /\ tx # "wait" => "sending" \in status
       /\ tx = "trans" => txd = data

LEMMA PrefixOf ==
  ASSUME NEW s \in Seq(Chars), NEW t \in Seq(Chars), NEW n \in 0 .. Len(t), Len(s) <= n, Agrees(s, t)
  PROVE  IsPrefix(s, SubSeq(t, 1, n))
<1> DEFINE u == SubSeq(t, 1, n)
<1>1. u \in Seq(Chars) /\ Len(u) = n /\ \A i \in 1 .. n : u[i] = t[i]
  OBVIOUS
<1> HIDE DEF u
<1>2. SubSeq(s, 1, Len(s)) = SubSeq(u, 1, Len(s))
  BY <1>1 DEF Agrees
<1> QED BY <1>1, <1>2 DEF IsPrefix, u

\* What a clock does to the transmitting side when the driver does not store to status.
LEMMA PortSends ==
  ASSUME Typed, "receive" \notin calls, OutputInv, NEW st, st.reg # "status", Devices(st),
         st.reg = "send_data" => pc = "tx_data"
  PROVE  /\ calls' = calls /\ Agrees(sent, Text)'
         /\ data' = IF st.reg = "send_data" THEN st.val ELSE data
         /\ tx' # "wait" => "sending" \in status'
         /\ tx' = "trans" => txd' = data'
         /\ Len(sent') = IF tx = "trans" /\ tx' = "end" THEN Len(sent) + 1 ELSE Len(sent)
         /\ tx = "wait" => tx' = IF "sending" \in status THEN "trans" ELSE "wait"
         /\ tx = "trans" => tx' \in {"trans", "end"}
         /\ tx = "end" => tx' = "wait"
         /\ "sending" \in status' <=> "sending" \in status /\ tx # "end"
<1>1. tx \in {"wait", "trans", "end"} /\ sent \in Seq(Chars) /\ txd \in Chars
  BY DEF Typed, TypeOK
<1>2. /\ tx' = txNext("sending" \in status) /\ txd' = (IF tx = "wait" THEN data ELSE txd)
      /\ sent' = (IF tx = "trans" /\ txcnt = 0 THEN Append(sent, txd) ELSE sent) /\ calls' = calls
  BY DEF Devices, TxPort
<1>3. /\ tx = "wait" => tx' = IF "sending" \in status THEN "trans" ELSE "wait"
      /\ tx = "trans" => tx' = IF txcnt = 0 THEN "end" ELSE "trans"
      /\ tx = "end" => tx' = "wait"
  BY <1>1, <1>2 DEF txNext
<1>4. "sending" \in status' <=> "sending" \in status /\ tx # "end"
  BY DEF Devices, Controller, wready
<1>5. data' = IF st.reg = "send_data" THEN st.val ELSE data
  BY DEF Devices, Controller
<1>6. Len(sent') = IF tx = "trans" /\ tx' = "end" THEN Len(sent) + 1 ELSE Len(sent)
  BY <1>1, <1>2, <1>3
<1>7. Agrees(sent, Text)'
  <2>1. CASE tx = "trans" /\ txcnt = 0
    <3>1. handed = Len(sent) + 1 /\ txd = Text[handed] /\ Agrees(sent, Text)
      BY <2>1 DEF OutputInv, UnderWay
    <3>2. sent' = Append(sent, txd) /\ Len(sent) \in Nat
      BY <1>1, <1>2, <2>1
    <3> QED BY <1>1, <3>1, <3>2 DEF Agrees
  <2>2. CASE ~(tx = "trans" /\ txcnt = 0)
    BY <1>2, <2>2 DEF Agrees, OutputInv
  <2> QED BY <2>1, <2>2
<1>8. tx' # "wait" => "sending" \in status'
  BY <1>1, <1>3, <1>4 DEF OutputInv
<1>9. tx' = "trans" => txd' = data'
  BY <1>1, <1>2, <1>3, <1>5 DEF OutputInv
<1> QED BY <1>2, <1>3, <1>4, <1>5, <1>6, <1>7, <1>8, <1>9

LEMMA OutputStep == Typed /\ OutputInv /\ [Next]_vars => OutputInv'
<1> SUFFICES ASSUME Typed, OutputInv, [Next]_vars PROVE OutputInv'
  OBVIOUS
<1>1. CASE UNCHANGED vars
  BY <1>1 DEF vars, timer, uart, history, OutputInv, UnderWay, Agrees
<1>2. ASSUME Next PROVE calls' = calls /\ (pc' \in {"rx_data", "and_load", "and_store"} => "receive" \in calls)
  <2>1. calls' = calls
    BY <1>2, SoftwareTypes, DeviceTypes
  <2>2. pc' \in {"rx_data", "and_load", "and_store"} => "receive" \in calls
    BY <1>2 DEF OutputInv, Next, Console, Boot, Compute, TransmitPoll, TransmitData, SetBitsLoad, SetBitsStore,
                ReceivePoll, ReceiveData, ResetBitsLoad, ResetBitsStore, Interrupt, Handler, Thread, At
  <2> QED BY <2>1, <2>2
<1>3. CASE Next /\ "receive" \in calls
  BY <1>2, <1>3 DEF OutputInv
<1>4. ASSUME "receive" \notin calls, Next,
             NEW st, st.reg \notin {"status", "send_data"}, Devices(st), UNCHANGED handed,
             pc' = pc \/ (/\ {pc, pc'} \cap {"tx_data", "or_load", "or_store"} = {})
                    \/ (pc' = "tx_data" /\ pc \in {"idle", "tx_poll"} /\ "sending" \notin status)
                    \/ (pc = "or_load" /\ pc' = "or_store")
      PROVE  OutputInv'
  <2>1. tx \in {"wait", "trans", "end"} /\ Len(sent) \in Nat /\ handed \in Nat
    BY SocAssumption DEF Typed, TypeOK
  <2>2. data' = data
    BY <1>4, PortSends
  <2>3. UnderWay' <=> UnderWay /\ ~(tx = "trans" /\ tx' = "end")
    BY <1>4, <2>1, PortSends DEF UnderWay, OutputInv
  <2>4. handed' = IF UnderWay' THEN Len(sent') + 1 ELSE Len(sent')
    BY <1>4, <2>1, <2>3, PortSends DEF UnderWay, OutputInv
  <2>5. UnderWay' => data' = Text[handed']
    BY <1>4, <2>2, <2>3 DEF OutputInv
  <2>6. pc' \in {"tx_data", "or_load", "or_store"} => "sending" \notin status' /\ tx' = "wait"
    BY <1>4, <2>1, PortSends DEF OutputInv
  <2> QED BY <1>2, <1>4, <2>4, <2>5, <2>6, PortSends DEF OutputInv
<1>5. None.reg = "none" /\ \A r, v : Store(r, v).reg = r /\ Store(r, v).val = v
  BY DEF None, Store
<1>6. ASSUME "receive" \notin calls, TransmitData PROVE OutputInv'
  <2> DEFINE st == Store("send_data", Text[handed + 1])
  <2>1. Devices(st) /\ st.reg = "send_data" /\ st.val = Text[handed + 1] /\ handed' = handed + 1
        /\ pc = "tx_data" /\ pc' = "or_load" /\ Next
    BY <1>5, <1>6 DEF TransmitData, At, Next, Console
  <2> HIDE DEF st
  <2>2. tx = "wait" /\ "sending" \notin status /\ handed = Len(sent) /\ handed \in Nat
    BY <1>6, <2>1, SocAssumption DEF OutputInv, UnderWay, Typed, TypeOK
  <2>3. tx' = "wait" /\ "sending" \notin status' /\ Len(sent') = Len(sent) /\ data' = Text[handed']
    BY <1>6, <2>1, <2>2, PortSends
  <2>4. Agrees(sent, Text)'
    BY <1>6, <2>1, PortSends
  <2> QED BY <1>2, <2>1, <2>2, <2>3, <2>4 DEF OutputInv, UnderWay
<1>7. ASSUME "receive" \notin calls, SetBitsStore PROVE OutputInv'
  <2> DEFINE st == Store("status", tmp \cup {"sending"})
  <2>1. Devices(st) /\ st.reg = "status" /\ st.val = tmp \cup {"sending"} /\ handed' = handed
        /\ pc = "or_store" /\ pc' = "idle" /\ Next
    BY <1>5, <1>7 DEF SetBitsStore, At, Next, Console
  <2> HIDE DEF st
  <2>2. tx = "wait" /\ "sending" \notin status /\ UnderWay
    BY <1>7, <2>1 DEF OutputInv, UnderWay
  <2>3. tx' = "wait" /\ sent' = sent /\ data' = data /\ status' = tmp \cup {"sending"}
    BY <2>1, <2>2 DEF Devices, TxPort, txNext, Controller
  <2> QED BY <1>2, <1>7, <2>1, <2>2, <2>3 DEF OutputInv, UnderWay, Agrees
<1>8. CASE Next /\ "receive" \notin calls
  <2>1. CASE Boot
    BY <1>4, <1>5, <1>8, <2>1 DEF Boot, At
  <2>2. CASE Compute
    BY <1>4, <1>5, <1>8, <2>2 DEF Compute
  <2>3. CASE TransmitPoll
    BY <1>4, <1>5, <1>8, <2>3 DEF TransmitPoll
  <2>4. CASE SetBitsLoad
    BY <1>4, <1>5, <1>8, <2>4 DEF SetBitsLoad, At
  <2>5. CASE ReceivePoll \/ ReceiveData \/ ResetBitsLoad \/ ResetBitsStore
    BY <1>8, <2>5 DEF ReceivePoll, ReceiveData, ResetBitsLoad, ResetBitsStore, At, OutputInv
  <2>6. CASE Interrupt \/ Handler
    BY <1>4, <1>5, <1>8, <2>6 DEF Interrupt, Handler
  <2> QED BY <1>6, <1>7, <1>8, <2>1, <2>2, <2>3, <2>4, <2>5, <2>6 DEF Next, Console
<1> QED BY <1>1, <1>3, <1>8

\* Software that only transmits gets every character onto the wire once and in order, and at most
\* one is under way, for any text, frame and timing of the ticks.
THEOREM OutputIsAlwaysExact == Spec => []OutputIsExact
<1>1. Init => OutputInv
  BY DEF Init, OutputInv, UnderWay, Agrees
<1>2. Typed /\ OutputInv => OutputIsExact
  <2> SUFFICES ASSUME Typed, OutputInv, "receive" \notin calls
               PROVE  IsPrefix(sent, SubSeq(Text, 1, handed)) /\ handed - Len(sent) <= 1
    BY DEF OutputIsExact
  <2>1. sent \in Seq(Chars) /\ Len(sent) \in Nat /\ handed \in 0 .. Len(Text) /\ handed \in Nat
    BY SocAssumption DEF Typed, TypeOK
  <2>2. Agrees(sent, Text) /\ handed \in {Len(sent), Len(sent) + 1}
    BY DEF OutputInv
  <2> QED BY <2>1, <2>2, Characters, PrefixOf
<1> QED BY <1>1, <1>2, OutputStep, TypedInitially, TypedStep, PTL DEF Spec

-----------------------------------------------------------------------------
(***************************************************************************)
(* Input.  A character is arriving, or waits with Received set, or is with *)
(* the caller; Received stays set until the driver has both read the       *)
(* character and stored to status, so the port takes no other before.      *)
(***************************************************************************)
Waiting == "received" \in status /\ pc \notin {"and_load", "and_store"}

InputInv ==
  /\ pc \in {"tx_poll", "tx_data", "or_load", "or_store"} => "transmit" \in calls
  /\ "transmit" \notin calls =>
       /\ Agrees(delivered, Input)
       /\ arrived = IF rx = "trans" \/ Waiting THEN Len(delivered) + 1 ELSE Len(delivered)
       /\ Waiting => rxd = Input[arrived]
       /\ "received" \in status => rx = "end"
       /\ pc \in {"rx_data", "and_load", "and_store"} => "received" \in status

\* What a clock does to the receiving side when the driver does not store to status.
LEMMA PortReceives ==
  ASSUME Typed, "transmit" \notin calls, InputInv, NEW st, st.reg # "status", Devices(st)
  PROVE  /\ calls' = calls
         /\ rx = "wait" => (rx' = "trans" /\ arrived' = arrived + 1) \/ (rx' = "wait" /\ arrived' = arrived)
         /\ rx # "wait" => arrived' = arrived
         /\ rx = "trans" => rx' = "trans" \/ (rx' = "end" /\ rxd' = Input[arrived])
         /\ rx = "end" => rx' = (IF "received" \in status THEN "end" ELSE "wait") /\ rxd' = rxd
         /\ "received" \in status' <=> rx' = "end"
<1>1. rx \in {"wait", "trans", "end"} /\ arrived \in Nat
  BY SocAssumption DEF Typed, TypeOK
<1>2. PICK start \in BOOLEAN : RxPort(start) /\ Controller(st, start)
  BY DEF Devices
<1>3. /\ rx = "wait" => (rx' = "trans" /\ arrived' = arrived + 1) \/ (rx' = "wait" /\ arrived' = arrived)
      /\ rx # "wait" => arrived' = arrived
      /\ rx = "trans" => rx' = "trans" \/ (rx' = "end" /\ rxd' = Input[arrived])
      /\ rx = "end" => rx' = (IF "received" \in status THEN "end" ELSE "wait") /\ rxd' = rxd
  BY <1>1, <1>2 DEF RxPort, rxNext
<1>4. "received" \in status' <=> "received" \in status \/ rx' = "end"
  BY <1>2 DEF Controller, rvaild, RxPort
<1>5. "received" \in status => rx = "end"
  BY DEF InputInv
<1>6. calls' = calls
  BY DEF Devices
<1> QED BY <1>1, <1>3, <1>4, <1>5, <1>6

LEMMA InputStep == Typed /\ InputInv /\ [Next]_vars => InputInv'
<1> SUFFICES ASSUME Typed, InputInv, [Next]_vars PROVE InputInv'
  OBVIOUS
<1>1. CASE UNCHANGED vars
  BY <1>1 DEF vars, timer, uart, history, InputInv, Waiting, Agrees
<1>2. ASSUME Next PROVE calls' = calls /\ (pc' \in {"tx_poll", "tx_data", "or_load", "or_store"} => "transmit" \in calls)
  <2>1. calls' = calls
    BY <1>2, SoftwareTypes, DeviceTypes
  <2>2. pc' \in {"tx_poll", "tx_data", "or_load", "or_store"} => "transmit" \in calls
    BY <1>2 DEF InputInv, Next, Console, Boot, Compute, TransmitPoll, TransmitData, SetBitsLoad, SetBitsStore,
                ReceivePoll, ReceiveData, ResetBitsLoad, ResetBitsStore, Interrupt, Handler, Thread, At
  <2> QED BY <2>1, <2>2
<1>3. CASE Next /\ "transmit" \in calls
  BY <1>2, <1>3 DEF InputInv
<1>4. rx \in {"wait", "trans", "end"} /\ arrived \in Nat /\ Len(delivered) \in Nat /\ delivered \in Seq(Chars)
  BY SocAssumption DEF Typed, TypeOK
<1>5. ASSUME "transmit" \notin calls, Next,
             NEW st, st.reg # "status", Devices(st), UNCHANGED delivered,
             pc' = pc \/ (/\ pc \notin {"rx_data", "and_load", "and_store"}
                         /\ pc' \notin {"rx_data", "and_load", "and_store"})
                    \/ (pc = "idle" /\ pc' = "rx_data" /\ "received" \in status)
                    \/ (pc = "and_load" /\ pc' = "and_store")
      PROVE  InputInv'
  <2>1. "received" \in status' <=> rx' = "end"
    BY <1>5, PortReceives
  <2>2. pc' \in {"rx_data", "and_load", "and_store"} => "received" \in status'
    BY <1>4, <1>5, <2>1, PortReceives DEF InputInv
  <2>3. arrived' = IF rx' = "trans" \/ Waiting' THEN Len(delivered') + 1 ELSE Len(delivered')
    BY <1>4, <1>5, <2>1, PortReceives DEF InputInv, Waiting
  <2>4. Waiting' => rxd' = Input[arrived']
    BY <1>4, <1>5, <2>1, PortReceives DEF InputInv, Waiting
  <2>5. Agrees(delivered, Input)'
    BY <1>5 DEF InputInv, Agrees
  <2> QED BY <1>2, <1>5, <2>1, <2>2, <2>3, <2>4, <2>5 DEF InputInv
<1>6. None.reg = "none" /\ \A r, v : Store(r, v).reg = r /\ Store(r, v).val = v
  BY DEF None, Store
<1>7. ASSUME "transmit" \notin calls, ReceiveData PROVE InputInv'
  <2>1. Devices(None) /\ delivered' = Append(delivered, rxd) /\ pc = "rx_data" /\ pc' = "and_load" /\ Next
    BY <1>7 DEF ReceiveData, At, Next, Console
  <2>2. rx = "end" /\ "received" \in status /\ arrived = Len(delivered) + 1 /\ rxd = Input[arrived]
        /\ Agrees(delivered, Input)
    BY <1>7, <2>1 DEF InputInv, Waiting
  <2>3. rx' = "end" /\ "received" \in status' /\ arrived' = arrived
    BY <1>6, <1>7, <2>1, <2>2, PortReceives
  <2>4. Len(delivered') = Len(delivered) + 1 /\ Agrees(delivered, Input)'
    BY <1>4, <2>1, <2>2 DEF Agrees
  <2> QED BY <1>2, <2>1, <2>2, <2>3, <2>4 DEF InputInv, Waiting
<1>8. ASSUME "transmit" \notin calls, ResetBitsStore PROVE InputInv'
  <2> DEFINE st == Store("status", Acknowledge(tmp))
  <2>1. Devices(st) /\ st.reg = "status" /\ st.val = tmp \ {"received"} /\ delivered' = delivered
        /\ pc = "and_store" /\ pc' = "idle" /\ Next
    BY <1>6, <1>8 DEF ResetBitsStore, At, Next, Console, Acknowledge
  <2> HIDE DEF st
  <2>2. rx = "end" /\ "received" \in status /\ arrived = Len(delivered) /\ Agrees(delivered, Input)
    BY <1>8, <2>1 DEF InputInv, Waiting
  <2>3. rx' = "end" /\ "received" \notin status' /\ arrived' = arrived
    BY <2>1, <2>2 DEF Devices, RxPort, rxNext, Controller
  <2> QED BY <1>2, <2>1, <2>2, <2>3 DEF InputInv, Waiting, Agrees
<1>9. CASE Next /\ "transmit" \notin calls
  <2>1. CASE Boot
    BY <1>5, <1>6, <1>9, <2>1 DEF Boot, At
  <2>2. CASE Compute
    BY <1>5, <1>6, <1>9, <2>2 DEF Compute
  <2>3. CASE ReceivePoll
    BY <1>5, <1>6, <1>9, <2>3 DEF ReceivePoll
  <2>4. CASE ResetBitsLoad
    BY <1>5, <1>6, <1>9, <2>4 DEF ResetBitsLoad, At
  <2>5. CASE TransmitPoll \/ TransmitData \/ SetBitsLoad \/ SetBitsStore
    BY <1>9, <2>5 DEF TransmitPoll, TransmitData, SetBitsLoad, SetBitsStore, At, InputInv
  <2>6. CASE Interrupt \/ Handler
    BY <1>5, <1>6, <1>9, <2>6 DEF Interrupt, Handler
  <2> QED BY <1>7, <1>8, <1>9, <2>1, <2>2, <2>3, <2>4, <2>5, <2>6 DEF Next, Console
<1> QED BY <1>1, <1>3, <1>9

\* Software that only receives is handed every character that arrived once and in order, and at
\* most one is under way, for any input, frame and timing of the ticks.
THEOREM InputIsAlwaysExact == Spec => []InputIsExact
<1>1. Init => InputInv
  BY DEF Init, InputInv, Waiting, Agrees
<1>2. Typed /\ InputInv => InputIsExact
  <2> SUFFICES ASSUME Typed, InputInv, "transmit" \notin calls
               PROVE  IsPrefix(delivered, SubSeq(Input, 1, arrived)) /\ arrived - Len(delivered) <= 1
    BY DEF InputIsExact
  <2>1. delivered \in Seq(Chars) /\ Len(delivered) \in Nat /\ arrived \in 0 .. Len(Input) /\ arrived \in Nat
    BY SocAssumption DEF Typed, TypeOK
  <2>2. Agrees(delivered, Input) /\ arrived \in {Len(delivered), Len(delivered) + 1}
    BY DEF InputInv
  <2> QED BY <2>1, <2>2, Characters, PrefixOf
<1> QED BY <1>1, <1>2, InputStep, TypedInitially, TypedStep, PTL DEF Spec
=============================================================================
