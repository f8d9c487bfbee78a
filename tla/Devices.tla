------------------------------ MODULE Devices -------------------------------
(***************************************************************************)
(* Devices (device.c) as their holders use them: the shell for its input   *)
(* (finsh_set_device), the console for its output (rt_console_set_device)  *)
(* and another program.  A driver may refuse to initialise, to open or to  *)
(* close, and may answer that it has no such function (RT_ENOSYS).         *)
(***************************************************************************)
EXTENDS Integers, FiniteSets

CONSTANTS Devs, STANDALONE    \* the devices, and those that only one holder may open

NoDevice == "none"
ASSUME DevicesAssumption == NoDevice \notin Devs
Holders == {"shell", "console", "program"}
Results == {"EOK", "ENOSYS", "ERROR"}

VARIABLES dev,            \* of each device: registered, activated, open, ref_count, rx (rx_indicate is the shell's)
          holder,         \* the device of the shell, the console and the program
          clean           \* no open counted that its caller took for a failure, nor the reverse
devVars == <<dev, holder, clean>>

Unused == [registered |-> FALSE, activated |-> FALSE, open |-> FALSE, ref_count |-> 0, rx |-> FALSE]
DevicesInit ==
  /\ dev = [d \in Devs |-> Unused]
  /\ holder = [h \in Holders |-> NoDevice]
  /\ clean = TRUE

-----------------------------------------------------------------------------
rt_device_register(d) ==
  /\ ~dev[d].registered
  /\ dev' = [dev EXCEPT ![d] = [@ EXCEPT !.registered = TRUE, !.activated = FALSE, !.open = FALSE, !.ref_count = 0]]
  /\ UNCHANGED <<holder, clean>>
\* (A device is unregistered when nobody holds it.)
rt_device_unregister(d) ==
  /\ dev[d].registered /\ \A h \in DOMAIN holder : holder[h] # d
  /\ dev' = [dev EXCEPT ![d].registered = FALSE]
  /\ UNCHANGED <<holder, clean>>

rt_device_init(d) ==
  /\ dev[d].registered /\ ~dev[d].activated
  /\ dev' = [dev EXCEPT ![d].activated = TRUE]
  /\ UNCHANGED <<holder, clean>>
\* <<device, result>> of an open, when the driver's functions answer ri and ro
rt_device_open(v, d, ri, ro) ==
  LET w == [v EXCEPT !.activated = TRUE]
  IN  IF ~v.activated /\ ri # "EOK" THEN <<v, ri>>
      ELSE IF d \in STANDALONE /\ v.open THEN <<w, "EBUSY">>
      ELSE IF ro \in {"EOK", "ENOSYS"} THEN <<[w EXCEPT !.open = TRUE, !.ref_count = @ + 1], ro>>
      ELSE <<w, ro>>
\* MUTANT: every close reaches the driver
close_always(v, rc) ==
  LET w == [v EXCEPT !.ref_count = @ - 1]
  IN  IF v.ref_count = 0 THEN v ELSE IF rc \in {"EOK", "ENOSYS"} THEN [w EXCEPT !.open = FALSE] ELSE w
rt_device_close(v, rc) ==
  LET w == [v EXCEPT !.ref_count = @ - 1]
  IN  IF v.ref_count = 0 THEN v
      ELSE IF w.ref_count # 0 THEN w
      ELSE IF rc \in {"EOK", "ENOSYS"} THEN [w EXCEPT !.open = FALSE] ELSE w
rt_device_set_rx_indicate(v, set) == [v EXCEPT !.rx = set]

Counted(v, w) == w.ref_count > v.ref_count

finsh_set_device(d) == \E ri, ro, rc \in Results :
  LET old == holder["shell"]
      opened == rt_device_open(dev[d], d, ri, ro)
      closed == IF old = NoDevice THEN dev
                ELSE [dev EXCEPT ![old] = rt_device_set_rx_indicate(rt_device_close(@, rc), FALSE)]
  IN  /\ dev[d].registered /\ d # old
      /\ clean' = (clean /\ (Counted(dev[d], opened[1]) <=> opened[2] = "EOK"))
      /\ IF opened[2] = "EOK"
         THEN /\ dev' = [closed EXCEPT ![d] = rt_device_set_rx_indicate(opened[1], TRUE)]
              /\ holder' = [holder EXCEPT !["shell"] = d]
         ELSE dev' = [dev EXCEPT ![d] = opened[1]] /\ UNCHANGED holder
\* The console takes the device whether it could be opened or not.
rt_console_set_device(d) == \E ri, ro, rc \in Results :
  LET old == holder["console"]
      opened == rt_device_open(dev[d], d, ri, ro)
      closed == IF old = NoDevice THEN dev ELSE [dev EXCEPT ![old] = rt_device_close(@, rc)]
  IN  /\ dev[d].registered /\ d # old
      /\ clean' = (clean /\ Counted(dev[d], opened[1]))
      /\ dev' = [closed EXCEPT ![d] = opened[1]]
      /\ holder' = [holder EXCEPT !["console"] = d]
\* Another program, which heeds the results.
Open(d) == \E ri, ro \in Results :
  LET opened == rt_device_open(dev[d], d, ri, ro)
  IN  /\ dev[d].registered /\ holder["program"] = NoDevice
      /\ dev' = [dev EXCEPT ![d] = opened[1]]
      /\ holder' = IF opened[2] = "EOK" THEN [holder EXCEPT !["program"] = d] ELSE holder
      /\ clean' = (clean /\ (Counted(dev[d], opened[1]) <=> opened[2] = "EOK"))
Close(d) == \E rc \in Results :
  /\ holder["program"] = d
  /\ dev' = [dev EXCEPT ![d] = rt_device_close(@, rc)]
  /\ holder' = [holder EXCEPT !["program"] = NoDevice]
  /\ UNCHANGED clean

DevicesNext == clean /\ \E d \in Devs :
  rt_device_register(d) \/ rt_device_unregister(d) \/ rt_device_init(d) \/ finsh_set_device(d) \/ rt_console_set_device(d) \/ Open(d) \/ Close(d)
DevicesSpec == DevicesInit /\ [][DevicesNext]_devVars

\* Whatever drivers fail in whatever order, each device counts its holders, is open for them,
\* and signals input to the shell exactly if the shell listens to it.  (Until an open is counted
\* and answered ENOSYS, or the console takes a device that it could not open.)
DevicesBalanced ==
  clean => \A d \in Devs :
    /\ dev[d].ref_count = Cardinality({h \in DOMAIN holder : holder[h] = d})
    /\ dev[d].ref_count > 0 => dev[d].open
    /\ dev[d].rx <=> holder["shell"] = d
=============================================================================
