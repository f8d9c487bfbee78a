---------------------------- MODULE ObjectsProofs ----------------------------
(***************************************************************************)
(* Reference counting of devices, and listings of objects that come and go *)
(* meanwhile, for any number of devices and objects.                       *)
(***************************************************************************)
EXTENDS Devices, Objects, FiniteSetTheorems, SequenceTheorems, TLAPS

Device == [registered : BOOLEAN, activated : BOOLEAN, open : BOOLEAN, ref_count : Nat, rx : BOOLEAN]
TypeOK == dev \in [Devs -> Device] /\ holder \in [Holders -> Devs \union {NoDevice}] /\ clean \in BOOLEAN
Held(f, d) == {h \in DOMAIN f : f[h] = d}

\* Device d, of record v, when f says what the holders hold.  A step also relies on this: nobody
\* holds a device that is not registered, so registering one, which clears its count, forgets
\* no holder.
Balanced(v, f, d) ==
  /\ v.ref_count = Cardinality(Held(f, d))
  /\ v.ref_count > 0 => v.open
  /\ v.rx <=> f["shell"] = d
  /\ (\E h \in Holders : f[h] = d) => v.registered
IInv == TypeOK /\ (clean => \A d \in Devs : Balanced(dev[d], holder, d))

-----------------------------------------------------------------------------
LEMMA HeldFinite == ASSUME NEW f \in [Holders -> Devs \union {NoDevice}], NEW d
                    PROVE IsFiniteSet(Held(f, d)) /\ Cardinality(Held(f, d)) \in Nat
<1>1. IsFiniteSet(Holders)
  <2>1. Holders = ({} \union {"shell"}) \union {"console"} \union {"program"}
    BY DEF Holders
  <2> QED BY <2>1, FS_EmptySet, FS_AddElement
<1>2. Held(f, d) \subseteq Holders
  BY DEF Held
<1> QED BY <1>1, <1>2, FS_Subset, FS_CardinalityType

\* An open counts one holder more and leaves the device open, or changes neither.
LEMMA OpenCounts ==
  ASSUME NEW v \in Device, NEW d \in Devs, NEW ri \in Results, NEW ro \in Results
  PROVE  LET o == rt_device_open(v, d, ri, ro)
         IN  /\ o[1] \in Device /\ o[1].rx = v.rx /\ o[1].registered = v.registered
             /\ \/ Counted(v, o[1]) /\ o[1].ref_count = v.ref_count + 1 /\ o[1].open
                \/ ~Counted(v, o[1]) /\ o[1].ref_count = v.ref_count /\ o[1].open = v.open
<1> DEFINE w == [v EXCEPT !.activated = TRUE]
           u == [w EXCEPT !.open = TRUE, !.ref_count = @ + 1]
           o == rt_device_open(v, d, ri, ro)
<1>1. w \in Device /\ w.rx = v.rx /\ w.registered = v.registered /\ w.ref_count = v.ref_count /\ w.open = v.open
  BY DEF Device
<1>2. u \in Device /\ u.rx = v.rx /\ u.registered = v.registered /\ u.ref_count = v.ref_count + 1 /\ u.open = TRUE
  <2> HIDE DEF w
  <2>1. w \in [registered : BOOLEAN, activated : BOOLEAN, open : BOOLEAN, ref_count : Nat, rx : BOOLEAN]
    BY <1>1 DEF Device
  <2>2. u \in Device
    <3> DEFINE x == [w EXCEPT !.open = TRUE]
               y == [x EXCEPT !.ref_count = @ + 1]
    <3>1. x \in Device
      BY <2>1 DEF Device
    <3>2. y \in Device
      <4> HIDE DEF x
      <4> QED BY <3>1 DEF Device
    <3>3. u = y
      BY <2>1
    <3> QED BY <3>2, <3>3
  <2>3. u.rx = w.rx /\ u.registered = w.registered /\ u.ref_count = w.ref_count + 1
    BY <2>1
  <2>4. u.open = TRUE
    BY <2>1
  <2> QED BY <1>1, <2>2, <2>3, <2>4
<1>3. v.ref_count \in Nat
  BY DEF Device
<1>4. o[1] \in {v, w, u}
  BY DEF rt_device_open
<1>5. CASE o[1] = v
  BY <1>3, <1>5 DEF Counted
<1>6. CASE o[1] = w
  BY <1>1, <1>3, <1>6 DEF Counted
<1>7. CASE o[1] = u
  <2>1. u.ref_count > v.ref_count
    BY <1>2, <1>3
  <2> QED BY <1>2, <1>7, <2>1, Zenon DEF Counted
<1> QED BY <1>4, <1>5, <1>6, <1>7

\* A close counts one holder less, and only the last one shuts the device.
LEMMA CloseCounts ==
  ASSUME NEW v \in Device, NEW rc \in Results
  PROVE  LET c == rt_device_close(v, rc)
         IN  /\ c \in Device /\ c.rx = v.rx /\ c.registered = v.registered
             /\ c.ref_count = IF v.ref_count = 0 THEN 0 ELSE v.ref_count - 1
             /\ c.ref_count > 0 => c.open = v.open
<1> DEFINE w == [v EXCEPT !.ref_count = @ - 1]
           u == [w EXCEPT !.open = FALSE]
           c == rt_device_close(v, rc)
<1>1. v.ref_count \in Nat
  BY DEF Device
<1>2. CASE v.ref_count = 0
  BY <1>2 DEF rt_device_close
<1>3. CASE v.ref_count # 0
  <2>1. w \in Device /\ w.rx = v.rx /\ w.registered = v.registered /\ w.ref_count = v.ref_count - 1 /\ w.open = v.open
    BY <1>1, <1>3 DEF Device
  <2>2. u \in Device /\ u.rx = v.rx /\ u.registered = v.registered /\ u.ref_count = v.ref_count - 1
    <3> HIDE DEF w
    <3> QED BY <2>1 DEF Device
  <2>3. c = w \/ (c = u /\ w.ref_count = 0)
    BY <1>3 DEF rt_device_close
  <2>4. CASE c = w
    BY <1>3, <2>1, <2>4
  <2>5. CASE c = u /\ w.ref_count = 0
    <3>1. c \in Device /\ c.rx = v.rx /\ c.registered = v.registered /\ c.ref_count = v.ref_count - 1 /\ c.ref_count = 0
      BY <2>1, <2>2, <2>5
    <3> HIDE DEF c
    <3> QED BY <1>3, <3>1 DEF c
  <2> QED BY <2>3, <2>4, <2>5
<1> QED BY <1>2, <1>3

-----------------------------------------------------------------------------
\* Holder h changes from one device to another, x: what this says of the device it takes,
\* of the one it leaves and of the others.
LEMMA Takes ==
  ASSUME NEW f \in [Holders -> Devs \union {NoDevice}], NEW h \in Holders, NEW d \in Devs, f[h] # d,
         NEW v \in Device, NEW o \in Device, Balanced(v, f, d),
         o.ref_count = v.ref_count + 1, o.open, o.registered, o.rx <=> (h = "shell" \/ v.rx)
  PROVE  Balanced(o, [f EXCEPT ![h] = d], d)
<1> DEFINE g == [f EXCEPT ![h] = d]
<1>1. o.ref_count = Cardinality(Held(g, d))
  <2>1. Held(g, d) = Held(f, d) \union {h} /\ h \notin Held(f, d)
    BY DEF Held
  <2>2. Cardinality(Held(g, d)) = Cardinality(Held(f, d)) + 1
    BY <2>1, HeldFinite, FS_AddElement
  <2> QED BY <2>2 DEF Balanced
<1>2. o.rx <=> g["shell"] = d
  BY Zenon DEF Balanced, Holders
<1> QED BY <1>1, <1>2 DEF Balanced

LEMMA Leaves ==
  ASSUME NEW f \in [Holders -> Devs \union {NoDevice}], NEW h \in Holders, NEW x \in Devs \union {NoDevice},
         NEW d \in Devs, f[h] = d, x # d,
         NEW v \in Device, NEW c \in Device, Balanced(v, f, d),
         c.ref_count = IF v.ref_count = 0 THEN 0 ELSE v.ref_count - 1, c.ref_count > 0 => c.open = v.open,
         c.registered = v.registered, c.rx <=> (h # "shell" /\ v.rx)
  PROVE  Balanced(c, [f EXCEPT ![h] = x], d)
<1> DEFINE g == [f EXCEPT ![h] = x]
<1>1. v.ref_count \in Nat /\ v.ref_count # 0
  <2>1. h \in Held(f, d)
    BY DEF Held
  <2>2. Cardinality(Held(f, d)) # 0
    BY <2>1, HeldFinite, FS_EmptySet
  <2> QED BY <2>2 DEF Device, Balanced
<1>2. c.ref_count = Cardinality(Held(g, d)) /\ c.ref_count = v.ref_count - 1
  <2>1. Held(g, d) = Held(f, d) \ {h} /\ h \in Held(f, d)
    BY DEF Held
  <2>2. Cardinality(Held(g, d)) = Cardinality(Held(f, d)) - 1
    <3>1. IsFiniteSet(Held(f, d))
      BY HeldFinite
    <3>2. Cardinality(Held(f, d) \ {h}) = Cardinality(Held(f, d)) - 1
      BY <2>1, <3>1, FS_RemoveElement, Zenon
    <3> QED BY <2>1, <3>2, Zenon
  <2> QED BY <1>1, <2>2 DEF Balanced
<1>3. c.ref_count > 0 => c.open
  BY <1>1, <1>2 DEF Balanced
<1>4. c.rx <=> g["shell"] = d
  BY Zenon DEF Balanced, Holders
<1>5. c.registered
  BY DEF Balanced
<1> QED BY <1>2, <1>3, <1>4, <1>5 DEF Balanced

LEMMA Unaffected ==
  ASSUME NEW f \in [Holders -> Devs \union {NoDevice}], NEW h \in Holders, NEW x \in Devs \union {NoDevice},
         NEW d \in Devs, f[h] # d, x # d, NEW v \in Device, Balanced(v, f, d)
  PROVE  Balanced(v, [f EXCEPT ![h] = x], d)
<1> DEFINE g == [f EXCEPT ![h] = x]
<1>1. v.ref_count = Cardinality(Held(g, d))
  <2>2. Held(g, d) = Held(f, d)
    BY DEF Held
  <2> QED BY <2>2 DEF Balanced
<1>2. v.rx <=> g["shell"] = d
  BY Zenon DEF Balanced, Holders
<1>3. (\E i \in Holders : g[i] = d) => v.registered
  BY DEF Balanced
<1>4. v.ref_count > 0 => v.open
  BY DEF Balanced
<1> QED BY <1>1, <1>2, <1>3, <1>4 DEF Balanced

-----------------------------------------------------------------------------
LEMMA Initially == DevicesInit => IInv
<1> SUFFICES ASSUME DevicesInit PROVE IInv
  OBVIOUS
<1>1. TypeOK
  BY DEF DevicesInit, TypeOK, Unused, Device
<1>2. ASSUME NEW d \in Devs PROVE Balanced(dev[d], holder, d)
  <2>1. dev[d] = Unused /\ \A h \in Holders : holder[h] # d
    BY DevicesAssumption DEF DevicesInit
  <2>2. Held(holder, d) = {}
    BY <2>1 DEF Held, DevicesInit
  <2> QED BY <2>1, <2>2, FS_EmptySet DEF Balanced, Unused, Holders
<1> QED BY <1>1, <1>2 DEF IInv

LEMMA Register == ASSUME IInv, NEW d \in Devs, clean, rt_device_register(d) PROVE IInv'
<1>1. TypeOK'
  BY DEF IInv, TypeOK, rt_device_register, Device
<1>2. ASSUME NEW e \in Devs PROVE Balanced(dev[e], holder, e)'
  <2>1. CASE e # d
    BY <2>1 DEF IInv, TypeOK, Balanced, Held, rt_device_register
  <2>2. CASE e = d
    <3>1. \A h \in Holders : holder[h] # d
      BY DEF IInv, Balanced, rt_device_register
    <3>2. Held(holder', d) = {}
      BY <3>1 DEF Held, IInv, TypeOK, rt_device_register
    <3>3. dev[d]'.ref_count = 0 /\ dev[d]'.rx = dev[d].rx /\ dev[d] \in Device /\ holder' = holder
      BY DEF IInv, TypeOK, rt_device_register, Device
    <3>4. ~ dev[d].rx
      BY <3>1 DEF IInv, Balanced, Holders
    <3> QED BY <2>2, <3>1, <3>2, <3>3, <3>4, FS_EmptySet DEF Balanced, Holders
  <2> QED BY <2>1, <2>2
<1> QED BY <1>1, <1>2 DEF IInv

LEMMA Unregister == ASSUME IInv, NEW d \in Devs, clean, rt_device_unregister(d) PROVE IInv'
<1>1. TypeOK'
  BY DEF IInv, TypeOK, rt_device_unregister, Device
<1>2. ASSUME NEW e \in Devs PROVE Balanced(dev[e], holder, e)'
  <2>1. \A h \in Holders : holder[h] = e => e # d
    BY DEF IInv, TypeOK, rt_device_unregister
  <2>2. /\ dev[e]'.ref_count = dev[e].ref_count /\ dev[e]'.open = dev[e].open /\ dev[e]'.rx = dev[e].rx
        /\ e # d => dev[e]'.registered = dev[e].registered
        /\ holder' = holder
    BY DEF IInv, TypeOK, rt_device_unregister, Device
  <2> QED BY <2>1, <2>2 DEF IInv, Balanced, Held
<1> QED BY <1>1, <1>2 DEF IInv

LEMMA Initialise == ASSUME IInv, NEW d \in Devs, clean, rt_device_init(d) PROVE IInv'
<1>1. TypeOK'
  BY DEF IInv, TypeOK, rt_device_init, Device
<1>2. ASSUME NEW e \in Devs PROVE Balanced(dev[e], holder, e)'
  <2>1. /\ dev[e]'.ref_count = dev[e].ref_count /\ dev[e]'.open = dev[e].open /\ dev[e]'.rx = dev[e].rx
        /\ dev[e]'.registered = dev[e].registered /\ holder' = holder
    BY DEF IInv, TypeOK, rt_device_init, Device
  <2> QED BY <2>1 DEF IInv, Balanced, Held
<1> QED BY <1>1, <1>2 DEF IInv

-----------------------------------------------------------------------------
\* Holder h takes the device d that it opened, and leaves the one it had, if any, which it closes.
LEMMA Changes ==
  ASSUME NEW f \in [Holders -> Devs \union {NoDevice}], NEW h \in Holders, NEW d \in Devs, f[h] # d,
         NEW v \in [Devs -> Device], NEW w \in [Devs -> Device], \A e \in Devs : Balanced(v[e], f, e),
         w[d].ref_count = v[d].ref_count + 1, w[d].open, w[d].registered, w[d].rx <=> (h = "shell" \/ v[d].rx),
         f[h] # NoDevice =>
           /\ w[f[h]].ref_count = IF v[f[h]].ref_count = 0 THEN 0 ELSE v[f[h]].ref_count - 1
           /\ w[f[h]].ref_count > 0 => w[f[h]].open = v[f[h]].open
           /\ w[f[h]].registered = v[f[h]].registered
           /\ w[f[h]].rx <=> (h # "shell" /\ v[f[h]].rx),
         \A e \in Devs : e # d /\ e # f[h] => w[e] = v[e]
  PROVE  \A e \in Devs : Balanced(w[e], [f EXCEPT ![h] = d], e)
<1> TAKE e \in Devs
<1>1. CASE e = d
  BY <1>1, Takes, Zenon
<1>2. CASE e # d /\ e = f[h]
  BY <1>2, DevicesAssumption, Leaves, Zenon
<1>3. CASE e # d /\ e # f[h]
  BY <1>3, Unaffected, Zenon
<1> QED BY <1>1, <1>2, <1>3
LEMMA Switches ==
  ASSUME IInv, clean, NEW h \in Holders, NEW d \in Devs, dev[d].registered, holder[h] # d,
         NEW o \in Device, o.ref_count = dev[d].ref_count + 1, o.open, o.registered = dev[d].registered,
         o.rx <=> (h = "shell" \/ dev[d].rx),
         NEW c \in Device,
         holder[h] # NoDevice =>
           /\ c.ref_count = IF dev[holder[h]].ref_count = 0 THEN 0 ELSE dev[holder[h]].ref_count - 1
           /\ c.ref_count > 0 => c.open = dev[holder[h]].open
           /\ c.registered = dev[holder[h]].registered
           /\ c.rx <=> (h # "shell" /\ dev[holder[h]].rx),
         holder' = [holder EXCEPT ![h] = d],
         dev' = [(IF holder[h] = NoDevice THEN dev ELSE [dev EXCEPT ![holder[h]] = c]) EXCEPT ![d] = o],
         clean' \in BOOLEAN
  PROVE  IInv'
<1>1. dev \in [Devs -> Device] /\ holder \in [Holders -> Devs \union {NoDevice}]
      /\ \A e \in Devs : Balanced(dev[e], holder, e)
  BY DEF IInv, TypeOK
<1>2. dev' \in [Devs -> Device]
  BY <1>1
<1>3. dev'[d] = o /\ (holder[h] # NoDevice => dev'[holder[h]] = c)
      /\ \A e \in Devs : e # d /\ e # holder[h] => dev'[e] = dev[e]
  BY <1>1
<1>4. \A e \in Devs : Balanced(dev'[e], [holder EXCEPT ![h] = d], e)
  BY <1>1, <1>2, <1>3, Changes, Zenon
<1>5. holder' \in [Holders -> Devs \union {NoDevice}]
  BY <1>1
<1> QED BY <1>2, <1>4, <1>5 DEF IInv, TypeOK

\* Device d keeps its holders, when it could not be opened or was not counted.
LEMMA Keeps ==
  ASSUME IInv, clean, NEW d \in Devs, NEW o \in Device, o.rx = dev[d].rx, o.registered = dev[d].registered,
         clean' => o.ref_count = dev[d].ref_count /\ o.open = dev[d].open,
         holder' = holder, dev' = [dev EXCEPT ![d] = o], clean' \in BOOLEAN
  PROVE  IInv'
<1>1. TypeOK'
  BY DEF IInv, TypeOK
<1>2. ASSUME clean', NEW e \in Devs PROVE Balanced(dev[e], holder, e)'
  <2>1. dev \in [Devs -> Device] /\ Balanced(dev[e], holder, e)
    BY DEF IInv, TypeOK
  <2>2. CASE e = d
    <3>1. dev'[e] = o
      BY <2>1, <2>2
    <3> QED BY <1>2, <2>1, <2>2, <3>1, Zenon DEF Balanced
  <2>3. CASE e # d
    BY <2>1, <2>3
  <2> QED BY <2>2, <2>3
<1> QED BY <1>1, <1>2 DEF IInv

\* An open, and a close of what the holder had, in the form the steps need them.
LEMMA Opened ==
  ASSUME IInv, NEW d \in Devs, NEW ri \in Results, NEW ro \in Results
  PROVE  LET o == rt_device_open(dev[d], d, ri, ro)[1]
         IN  /\ o \in Device /\ o.rx = dev[d].rx /\ o.registered = dev[d].registered
             /\ Counted(dev[d], o) => o.ref_count = dev[d].ref_count + 1 /\ o.open
             /\ ~Counted(dev[d], o) => o.ref_count = dev[d].ref_count /\ o.open = dev[d].open
<1> DEFINE o == rt_device_open(dev[d], d, ri, ro)[1]
<1>1. dev[d] \in Device
  BY DEF IInv, TypeOK
<1>2. /\ o \in Device /\ o.rx = dev[d].rx /\ o.registered = dev[d].registered
      /\ \/ Counted(dev[d], o) /\ o.ref_count = dev[d].ref_count + 1 /\ o.open
         \/ ~Counted(dev[d], o) /\ o.ref_count = dev[d].ref_count /\ o.open = dev[d].open
  BY <1>1, OpenCounts
<1> HIDE DEF o
<1> QED BY <1>2, Zenon DEF o

LEMMA Indicates ==
  ASSUME NEW v \in Device, NEW b \in BOOLEAN
  PROVE  LET r == rt_device_set_rx_indicate(v, b)
         IN  /\ r \in Device /\ r.rx = b /\ r.ref_count = v.ref_count /\ r.open = v.open
             /\ r.registered = v.registered
BY DEF rt_device_set_rx_indicate, Device

LEMMA ConsoleTakes == ASSUME IInv, NEW d \in Devs, clean, rt_console_set_device(d) PROVE IInv'
<1> DEFINE old == holder["console"]
           o(ri, ro) == rt_device_open(dev[d], d, ri, ro)[1]
           c(rc) == IF old = NoDevice THEN Unused ELSE rt_device_close(dev[old], rc)
<1>1. PICK ri \in Results, ro \in Results, rc \in Results :
        /\ dev[d].registered /\ d # old
        /\ clean' = (clean /\ Counted(dev[d], o(ri, ro)))
        /\ dev' = [(IF old = NoDevice THEN dev ELSE [dev EXCEPT ![old] = c(rc)]) EXCEPT ![d] = o(ri, ro)]
        /\ holder' = [holder EXCEPT !["console"] = d]
  BY DEF rt_console_set_device
<1>2. dev[d] \in Device /\ "console" \in Holders /\ (old # NoDevice => dev[old] \in Device)
      /\ dev \in [Devs -> Device] /\ holder \in [Holders -> Devs \union {NoDevice}]
  BY DEF IInv, TypeOK, Holders
<1>3. /\ o(ri, ro) \in Device /\ o(ri, ro).rx = dev[d].rx /\ o(ri, ro).registered = dev[d].registered
      /\ Counted(dev[d], o(ri, ro)) => o(ri, ro).ref_count = dev[d].ref_count + 1 /\ o(ri, ro).open
  BY Opened
<1>4. c(rc) \in Device /\ (old # NoDevice =>
        /\ c(rc).rx = dev[old].rx /\ c(rc).registered = dev[old].registered
        /\ c(rc).ref_count = IF dev[old].ref_count = 0 THEN 0 ELSE dev[old].ref_count - 1
        /\ c(rc).ref_count > 0 => c(rc).open = dev[old].open)
  <2>1. CASE old = NoDevice
    BY <2>1 DEF Unused, Device
  <2>2. CASE old # NoDevice
    BY <1>2, <2>2, CloseCounts, Zenon
  <2> QED BY <2>1, <2>2
<1>5. clean' \in BOOLEAN
  BY <1>1, Zenon
<1> HIDE DEF o, c
<1>6. CASE Counted(dev[d], o(ri, ro))
  BY <1>1, <1>2, <1>3, <1>4, <1>5, <1>6, Switches, Zenon
<1>7. CASE ~Counted(dev[d], o(ri, ro))
  <2>1. ~clean'
    BY <1>1, <1>7, Zenon
  <2>2. dev' \in [Devs -> Device]
    BY <1>1, <1>2, <1>3, <1>4
  <2>3. holder' \in [Holders -> Devs \union {NoDevice}]
    BY <1>1, <1>2
  <2> QED BY <1>5, <2>1, <2>2, <2>3, Zenon DEF IInv, TypeOK
<1> QED BY <1>6, <1>7

LEMMA ShellTakes == ASSUME IInv, NEW d \in Devs, clean, finsh_set_device(d) PROVE IInv'
<1> DEFINE old == holder["shell"]
           opened(ri, ro) == rt_device_open(dev[d], d, ri, ro)
           o(ri, ro) == rt_device_set_rx_indicate(opened(ri, ro)[1], TRUE)
           c(rc) == IF old = NoDevice THEN Unused ELSE rt_device_set_rx_indicate(rt_device_close(dev[old], rc), FALSE)
<1>1. PICK ri \in Results, ro \in Results, rc \in Results :
        /\ dev[d].registered /\ d # old
        /\ clean' = (clean /\ (Counted(dev[d], opened(ri, ro)[1]) <=> opened(ri, ro)[2] = "EOK"))
        /\ IF opened(ri, ro)[2] = "EOK"
           THEN /\ dev' = [(IF old = NoDevice THEN dev ELSE [dev EXCEPT ![old] = c(rc)]) EXCEPT ![d] = o(ri, ro)]
                /\ holder' = [holder EXCEPT !["shell"] = d]
           ELSE dev' = [dev EXCEPT ![d] = opened(ri, ro)[1]] /\ UNCHANGED holder
  BY DEF finsh_set_device
<1>2. dev[d] \in Device /\ "shell" \in Holders /\ (old # NoDevice => dev[old] \in Device)
      /\ dev \in [Devs -> Device] /\ holder \in [Holders -> Devs \union {NoDevice}]
  BY DEF IInv, TypeOK, Holders
<1> DEFINE p == opened(ri, ro)[1]
<1>3. /\ p \in Device /\ p.rx = dev[d].rx /\ p.registered = dev[d].registered
      /\ Counted(dev[d], p) => p.ref_count = dev[d].ref_count + 1 /\ p.open
      /\ ~Counted(dev[d], p) => p.ref_count = dev[d].ref_count /\ p.open = dev[d].open
  BY Opened
<1>4. /\ o(ri, ro) \in Device /\ o(ri, ro).rx = TRUE /\ o(ri, ro).ref_count = p.ref_count /\ o(ri, ro).open = p.open
      /\ o(ri, ro).registered = p.registered
  <2> HIDE DEF opened
  <2> QED BY <1>3, Indicates
<1>5. c(rc) \in Device /\ (old # NoDevice =>
        /\ c(rc).rx = FALSE /\ c(rc).registered = dev[old].registered
        /\ c(rc).ref_count = IF dev[old].ref_count = 0 THEN 0 ELSE dev[old].ref_count - 1
        /\ c(rc).ref_count > 0 => c(rc).open = dev[old].open)
  <2>1. CASE old = NoDevice
    BY <2>1 DEF Unused, Device
  <2>2. CASE old # NoDevice
    <3> DEFINE q == rt_device_close(dev[old], rc)
    <3>1. /\ q \in Device /\ q.registered = dev[old].registered
          /\ q.ref_count = IF dev[old].ref_count = 0 THEN 0 ELSE dev[old].ref_count - 1
          /\ q.ref_count > 0 => q.open = dev[old].open
      BY <1>2, <2>2, CloseCounts, Zenon
    <3>2. c(rc) = rt_device_set_rx_indicate(q, FALSE)
      BY <2>2
    <3> HIDE DEF q, c
    <3> QED BY <3>1, <3>2, Indicates
  <2> QED BY <2>1, <2>2
<1>6. clean' \in BOOLEAN
  BY <1>1, Zenon
<1> HIDE DEF o, c, opened
<1>7. CASE opened(ri, ro)[2] = "EOK" /\ Counted(dev[d], p)
  <2>1. /\ dev[d].registered /\ holder["shell"] # d
        /\ dev' = [(IF old = NoDevice THEN dev ELSE [dev EXCEPT ![old] = c(rc)]) EXCEPT ![d] = o(ri, ro)]
        /\ holder' = [holder EXCEPT !["shell"] = d]
    BY <1>1, <1>7, Zenon
  <2>2. /\ o(ri, ro).ref_count = dev[d].ref_count + 1 /\ o(ri, ro).open /\ o(ri, ro).registered = dev[d].registered
        /\ o(ri, ro).rx <=> ("shell" = "shell" \/ dev[d].rx)
    BY <1>3, <1>4, <1>7, Zenon
  <2>3. old # NoDevice => (c(rc).rx <=> ("shell" # "shell" /\ dev[old].rx))
    BY <1>5, Zenon
  <2> HIDE DEF p
  <2> QED BY <1>2, <1>4, <1>5, <1>6, <2>1, <2>2, <2>3, Switches, Zenon
<1>8. CASE opened(ri, ro)[2] # "EOK" /\ ~Counted(dev[d], p)
  BY <1>1, <1>3, <1>6, <1>8, Keeps, Zenon
<1>9. CASE ~(opened(ri, ro)[2] = "EOK" <=> Counted(dev[d], p))
  <2>1. ~clean'
    BY <1>1, <1>9, Zenon
  <2>2. dev' \in [Devs -> Device] /\ holder' \in [Holders -> Devs \union {NoDevice}]
    BY <1>1, <1>2, <1>3, <1>4, <1>5
  <2> QED BY <1>6, <2>1, <2>2, Zenon DEF IInv, TypeOK
<1> QED BY <1>7, <1>8, <1>9, Zenon

LEMMA ProgramOpens == ASSUME IInv, NEW d \in Devs, clean, Open(d) PROVE IInv'
<1> DEFINE opened(ri, ro) == rt_device_open(dev[d], d, ri, ro)
<1>1. PICK ri \in Results, ro \in Results :
        /\ dev[d].registered /\ holder["program"] = NoDevice
        /\ dev' = [dev EXCEPT ![d] = opened(ri, ro)[1]]
        /\ holder' = IF opened(ri, ro)[2] = "EOK" THEN [holder EXCEPT !["program"] = d] ELSE holder
        /\ clean' = (clean /\ (Counted(dev[d], opened(ri, ro)[1]) <=> opened(ri, ro)[2] = "EOK"))
  BY DEF Open
<1>2. "program" \in Holders /\ Unused \in Device
      /\ dev \in [Devs -> Device] /\ holder \in [Holders -> Devs \union {NoDevice}]
  BY DEF IInv, TypeOK, Holders, Unused, Device
<1> DEFINE p == opened(ri, ro)[1]
<1>3. /\ p \in Device /\ p.rx = dev[d].rx /\ p.registered = dev[d].registered
      /\ Counted(dev[d], p) => p.ref_count = dev[d].ref_count + 1 /\ p.open
      /\ ~Counted(dev[d], p) => p.ref_count = dev[d].ref_count /\ p.open = dev[d].open
  BY Opened
<1>4. clean' \in BOOLEAN
  BY <1>1, Zenon
<1> HIDE DEF opened
<1>5. CASE opened(ri, ro)[2] = "EOK" /\ Counted(dev[d], p)
  <2>1. holder["program"] # d
    BY <1>1, DevicesAssumption
  <2> QED BY <1>1, <1>2, <1>3, <1>4, <1>5, <2>1, Switches, Zenon
<1>6. CASE opened(ri, ro)[2] # "EOK" /\ ~Counted(dev[d], p)
  BY <1>1, <1>3, <1>4, <1>6, Keeps, Zenon
<1>7. CASE ~(opened(ri, ro)[2] = "EOK" <=> Counted(dev[d], p))
  <2>1. ~clean'
    BY <1>1, <1>7, Zenon
  <2>2. dev' \in [Devs -> Device] /\ holder' \in [Holders -> Devs \union {NoDevice}]
    BY <1>1, <1>2, <1>3
  <2> QED BY <1>4, <2>1, <2>2, Zenon DEF IInv, TypeOK
<1> QED BY <1>5, <1>6, <1>7, Zenon

LEMMA ProgramCloses == ASSUME IInv, NEW d \in Devs, clean, Close(d) PROVE IInv'
<1>1. PICK rc \in Results :
        /\ holder["program"] = d
        /\ dev' = [dev EXCEPT ![d] = rt_device_close(@, rc)]
        /\ holder' = [holder EXCEPT !["program"] = NoDevice]
        /\ UNCHANGED clean
  BY DEF Close
<1>2. dev \in [Devs -> Device] /\ holder \in [Holders -> Devs \union {NoDevice}] /\ "program" \in Holders
      /\ dev[d] \in Device /\ \A e \in Devs : Balanced(dev[e], holder, e)
  BY DEF IInv, TypeOK, Holders
<1> DEFINE c == rt_device_close(dev[d], rc)
<1>3. /\ c \in Device /\ c.rx = dev[d].rx /\ c.registered = dev[d].registered
      /\ c.ref_count = IF dev[d].ref_count = 0 THEN 0 ELSE dev[d].ref_count - 1
      /\ c.ref_count > 0 => c.open = dev[d].open
  BY <1>2, CloseCounts, Zenon
<1> HIDE DEF c
<1>4. dev' = [dev EXCEPT ![d] = c]
  BY <1>1 DEF c
<1>5. dev' \in [Devs -> Device] /\ holder' \in [Holders -> Devs \union {NoDevice}] /\ clean' \in BOOLEAN
  BY <1>1, <1>2, <1>3, <1>4 DEF IInv, TypeOK
<1>6. ASSUME NEW e \in Devs PROVE Balanced(dev'[e], [holder EXCEPT !["program"] = NoDevice], e)
  <2>1. CASE e = d
    <3>1. dev'[e] = c
      BY <1>2, <1>4, <2>1
    <3>2. c.rx <=> ("program" # "shell" /\ dev[d].rx)
      BY <1>3
    <3> QED BY <1>1, <1>2, <1>3, <2>1, <3>1, <3>2, DevicesAssumption, Leaves, Zenon
  <2>2. CASE e # d
    <3>1. dev'[e] = dev[e] /\ dev[e] \in Device
      BY <1>2, <1>4, <2>2
    <3> QED BY <1>1, <1>2, <2>2, <3>1, DevicesAssumption, Unaffected, Zenon
  <2> QED BY <2>1, <2>2
<1> QED BY <1>1, <1>5, <1>6 DEF IInv, TypeOK

\* Whatever drivers refuse in whatever order, for any number of devices: as long as the results
\* of the opens are heeded, a device counts exactly its holders, is open for them, and signals
\* input to the shell exactly if the shell listens to it.
THEOREM DevicesAreBalanced == DevicesSpec => []DevicesBalanced
<1>1. IInv /\ [DevicesNext]_devVars => IInv'
  <2> SUFFICES ASSUME IInv, [DevicesNext]_devVars PROVE IInv'
    OBVIOUS
  <2>1. CASE DevicesNext
    <3>1. PICK d \in Devs :
            \/ rt_device_register(d) \/ rt_device_unregister(d) \/ rt_device_init(d) \/ finsh_set_device(d)
            \/ rt_console_set_device(d) \/ Open(d) \/ Close(d)
      BY <2>1 DEF DevicesNext
    <3>2. clean
      BY <2>1 DEF DevicesNext
    <3> QED BY <3>1, <3>2, Register, Unregister, Initialise, ShellTakes, ConsoleTakes, ProgramOpens, ProgramCloses
  <2>2. CASE UNCHANGED devVars
    BY <2>2 DEF devVars, IInv, TypeOK, Balanced, Held
  <2> QED BY <2>1, <2>2
<1>2. IInv => DevicesBalanced
  BY DEF IInv, Balanced, Held, DevicesBalanced
<1> QED BY <1>1, <1>2, Initially, PTL DEF DevicesSpec

-----------------------------------------------------------------------------
(***************************************************************************)
(* Listings.  The lists and the lister, for any number of objects.         *)
(***************************************************************************)
Stages == {"out", "entering", "in", "leaving", "freed"}
Lister ==
  [class : AllClasses \union {Null}, current : Things \union {Nobody}, array : Seq(Things), shown : SUBSET Things,
   twice : BOOLEAN, steady : SUBSET Things, missed : SUBSET Things, adrift : BOOLEAN]
ObjectsTypeOK ==
  /\ type \in [Things -> AllClasses \union {Null}]
  /\ stage \in [Things -> Stages]
  /\ object_list \in [AllClasses -> Seq(Things)]
  /\ lister \in Lister

Distinct(q) == \A i, j \in 1..Len(q) : q[i] = q[j] => i = j
\* Node x comes after node u in the list.
Follows(q, u, x) == \E i, j \in 1..Len(q) : i < j /\ q[i] = u /\ q[j] = x

\* What the lists hold: no node twice, registered objects in the list of their class, and nobody
\* else but objects on their way out.
Listed(ty, st, lists) ==
  /\ \A c \in AllClasses : Distinct(lists[c])
  /\ \A c \in AllClasses : \A o \in ToSet(lists[c]) : st[o] = "leaving" \/ (st[o] = "in" /\ ty[o] = c)
  /\ \A o \in Things : st[o] \in {"entering", "in"} => ty[o] \in AllClasses
  /\ \A o \in Things : st[o] = "in" => o \in ToSet(lists[ty[o]])

\* A listing under way: it paused at a node that is still in the list, the nodes still to come
\* were not shown, and every object registered all the while was shown or is to come.
Walking(l, ty, st, lists) ==
  LET q == lists[l.class] IN
  /\ l.current # Nobody => st[l.current] = "in" /\ ty[l.current] = l.class
  /\ l.array # <<>> \/ l.current # Nobody
  /\ Distinct(l.array)
  /\ \A x \in Things :
       /\ x \in l.shown => x \notin ToSet(l.array) /\ ~Follows(q, l.current, x)
       /\ x \in ToSet(l.array) => ~Follows(q, l.current, x)
       /\ x \in l.steady => /\ st[x] = "in" /\ ty[x] = l.class
                            /\ x \in l.shown \/ x \in ToSet(l.array) \/ Follows(q, l.current, x)
Undisturbed(l, ty, st, lists) ==
  l.adrift \/ (~l.twice /\ l.missed = {} /\ (l.class # Null => Walking(l, ty, st, lists)))
ListingInv == ObjectsTypeOK /\ Listed(type, stage, object_list) /\ Undisturbed(lister, type, stage, object_list)

-----------------------------------------------------------------------------
\* Taking a node out of a list, putting one in front and passing over the first one leave the
\* others in their order.
LEMMA UnlinkProperties ==
  ASSUME NEW q \in Seq(Things), Distinct(q), NEW v \in Things
  PROVE  LET r == Unlink(q, v) IN
         /\ r \in Seq(Things) /\ Distinct(r) /\ ToSet(r) = ToSet(q) \ {v}
         /\ \A u \in Things \ {v}, x \in Things : Follows(r, u, x) <=> x # v /\ Follows(q, u, x)
<1> DEFINE r == Unlink(q, v)
           m == Position(q, v)
           a == SubSeq(q, 1, m - 1)
           b == SubSeq(q, m + 1, Len(q))
<1>1. DOMAIN q = 1..Len(q) /\ Len(q) \in Nat /\ \A i \in 1..Len(q) : q[i] \in Things
  OBVIOUS
<1>2. CASE v \notin ToSet(q)
  <2>1. r = q
    BY <1>2 DEF Unlink
  <2>2. \A u, x \in Things : Follows(q, u, x) => x # v
    BY <1>1, <1>2 DEF Follows, ToSet
  <2> QED BY <1>2, <2>1, <2>2
<1>3. CASE v \in ToSet(q)
  <2>1. m \in 1..Len(q) /\ q[m] = v
    BY <1>1, <1>3 DEF ToSet, Position
  <2>2. r = a \o b
    BY <1>3 DEF Unlink, RemoveAt
  <2> HIDE DEF m
  <2>3. a \in Seq(Things) /\ Len(a) = m - 1 /\ \A i \in 1..m - 1 : a[i] = q[i]
    <3>1. 1 \in Int /\ m - 1 \in Int /\ \A i \in 1..m - 1 : q[i] \in Things
      BY <1>1, <2>1
    <3>2. /\ a \in Seq(Things) /\ Len(a) = IF 1 <= m - 1 THEN (m - 1) - 1 + 1 ELSE 0
          /\ \A i \in 1..(m - 1) - 1 + 1 : a[i] = q[1 + i - 1]
      BY ONLY <3>1, SubSeqProperties
    <3> QED BY <2>1, <3>2
  <2>4. b \in Seq(Things) /\ Len(b) = Len(q) - m /\ \A i \in 1..Len(q) - m : b[i] = q[m + i]
    <3>1. m + 1 \in Int /\ Len(q) \in Int /\ \A i \in m + 1..Len(q) : q[i] \in Things
      BY <1>1, <2>1
    <3>2. /\ b \in Seq(Things) /\ Len(b) = IF m + 1 <= Len(q) THEN Len(q) - (m + 1) + 1 ELSE 0
          /\ \A i \in 1..Len(q) - (m + 1) + 1 : b[i] = q[(m + 1) + i - 1]
      BY ONLY <3>1, SubSeqProperties
    <3> QED BY <2>1, <3>2
  <2> HIDE DEF a, b, r
  <2>5. /\ r \in Seq(Things) /\ Len(r) = Len(a) + Len(b)
        /\ \A i \in 1..Len(a) + Len(b) : r[i] = IF i <= Len(a) THEN a[i] ELSE b[i - Len(a)]
    BY ONLY <2>2, <2>3, <2>4, ConcatProperties
  <2>6. Len(r) = Len(q) - 1 /\ DOMAIN r = 1..Len(r)
    BY <1>1, <2>1, <2>3, <2>4, <2>5
  <2>7. \A i \in 1..Len(q) - 1 : i < m => r[i] = q[i]
    <3> SUFFICES ASSUME NEW i \in 1..Len(q) - 1, i < m PROVE r[i] = q[i]
      OBVIOUS
    <3>1. i \in 1..m - 1
      BY <1>1, <2>1
    <3>2. i \in 1..Len(a) + Len(b) /\ i <= Len(a)
      BY <1>1, <2>1, <2>3, <2>4, <3>1
    <3>3. r[i] = a[i]
      BY <2>5, <3>2
    <3> QED BY <2>3, <3>1, <3>3
  <2>8. \A i \in 1..Len(q) - 1 : i >= m => r[i] = q[i + 1]
    <3> SUFFICES ASSUME NEW i \in 1..Len(q) - 1, i >= m PROVE r[i] = q[i + 1]
      OBVIOUS
    <3>1. r[i] = b[i - (m - 1)] /\ i - (m - 1) \in 1..Len(q) - m /\ m + (i - (m - 1)) = i + 1
      BY <1>1, <2>1, <2>3, <2>4, <2>5
    <3> QED BY <2>4, <3>1
  <2> HIDE DEF Distinct
  <2>9. \A i \in 1..Len(q) : i # m => q[i] # v
    BY <1>1, <2>1 DEF Distinct
  <2>10. \A i \in 1..Len(r) : \E j \in 1..Len(q) : j # m /\ j = (IF i < m THEN i ELSE i + 1) /\ r[i] = q[j]
    BY <1>1, <2>1, <2>6, <2>7, <2>8
  <2>11. \A j \in 1..Len(q) : j # m => \E i \in 1..Len(r) : i = (IF j < m THEN j ELSE j - 1) /\ r[i] = q[j]
    <3> SUFFICES ASSUME NEW j \in 1..Len(q), j # m
                 PROVE  \E i \in 1..Len(r) : i = (IF j < m THEN j ELSE j - 1) /\ r[i] = q[j]
      OBVIOUS
    <3>1. CASE j < m
      BY <1>1, <2>1, <2>6, <2>7, <3>1
    <3>2. CASE j > m
      <4>1. j - 1 \in 1..Len(r) /\ j - 1 >= m /\ (j - 1) + 1 = j
        BY <1>1, <2>1, <2>6, <3>2
      <4>2. r[j - 1] = q[j]
        BY <2>6, <2>8, <4>1
      <4> QED BY <2>1, <3>2, <4>1, <4>2
    <3> QED BY <1>1, <2>1, <3>1, <3>2
  <2>12. Distinct(r)
    <3> SUFFICES ASSUME NEW i \in 1..Len(r), NEW j \in 1..Len(r), r[i] = r[j] PROVE i = j
      BY DEF Distinct
    <3>1. PICK e \in 1..Len(q) : e # m /\ e = (IF i < m THEN i ELSE i + 1) /\ r[i] = q[e]
      BY <2>10
    <3>2. PICK f \in 1..Len(q) : f # m /\ f = (IF j < m THEN j ELSE j + 1) /\ r[j] = q[f]
      BY <2>10
    <3>3. e = f
      BY <3>1, <3>2 DEF Distinct
    <3> QED BY <2>1, <2>6, <1>1, <3>1, <3>2, <3>3
  <2>13. ToSet(r) = ToSet(q) \ {v}
    <3>1. \A x \in ToSet(r) : x \in ToSet(q) /\ x # v
      BY <1>1, <2>6, <2>9, <2>10 DEF ToSet
    <3>2. \A x \in ToSet(q) : x # v => x \in ToSet(r)
      <4> SUFFICES ASSUME NEW x \in ToSet(q), x # v PROVE x \in ToSet(r)
        OBVIOUS
      <4>1. PICK j \in 1..Len(q) : q[j] = x
        BY <1>1 DEF ToSet
      <4>2. PICK i \in 1..Len(r) : r[i] = q[j]
        BY <2>1, <2>11, <4>1
      <4> QED BY <2>6, <4>1, <4>2 DEF ToSet
    <3> QED BY <3>1, <3>2
  <2>14. ASSUME NEW u \in Things \ {v}, NEW x \in Things PROVE Follows(r, u, x) <=> x # v /\ Follows(q, u, x)
    <3>1. ASSUME Follows(r, u, x) PROVE x # v /\ Follows(q, u, x)
      <4>1. PICK i, j \in 1..Len(r) : i < j /\ r[i] = u /\ r[j] = x
        BY <3>1 DEF Follows
      <4>2. PICK e \in 1..Len(q) : e # m /\ e = (IF i < m THEN i ELSE i + 1) /\ r[i] = q[e]
        BY <2>10
      <4>3. PICK f \in 1..Len(q) : f # m /\ f = (IF j < m THEN j ELSE j + 1) /\ r[j] = q[f]
        BY <2>10
      <4>4. e < f
        BY <1>1, <2>1, <2>6, <4>1, <4>2, <4>3
      <4> QED BY <2>9, <4>1, <4>2, <4>3, <4>4 DEF Follows
    <3>2. ASSUME x # v, Follows(q, u, x) PROVE Follows(r, u, x)
      <4>1. PICK e, f \in 1..Len(q) : e < f /\ q[e] = u /\ q[f] = x
        BY <3>2 DEF Follows
      <4>2. e # m /\ f # m
        BY <2>1, <3>2, <4>1
      <4>3. PICK i \in 1..Len(r) : i = (IF e < m THEN e ELSE e - 1) /\ r[i] = q[e]
        BY <2>11, <4>2
      <4>4. PICK j \in 1..Len(r) : j = (IF f < m THEN f ELSE f - 1) /\ r[j] = q[f]
        BY <2>11, <4>2
      <4>5. i < j
        BY <1>1, <2>1, <4>1, <4>2, <4>3, <4>4
      <4> QED BY <4>1, <4>3, <4>4, <4>5 DEF Follows
    <3> QED BY <3>1, <3>2
  <2> QED BY <2>5, <2>12, <2>13, <2>14 DEF r
<1> QED BY <1>2, <1>3

LEMMA PrependProperties ==
  ASSUME NEW q \in Seq(Things), Distinct(q), NEW v \in Things, v \notin ToSet(q)
  PROVE  LET r == <<v>> \o q IN
         /\ r \in Seq(Things) /\ Distinct(r) /\ ToSet(r) = ToSet(q) \union {v}
         /\ \A u \in Things \ {v}, x \in Things : Follows(r, u, x) <=> Follows(q, u, x)
<1> DEFINE r == <<v>> \o q
<1>1. DOMAIN q = 1..Len(q) /\ Len(q) \in Nat /\ \A i \in 1..Len(q) : q[i] \in Things
  OBVIOUS
<1>2. <<v>> \in Seq(Things) /\ Len(<<v>>) = 1 /\ <<v>>[1] = v
  OBVIOUS
<1>3. /\ r \in Seq(Things) /\ Len(r) = 1 + Len(q)
      /\ \A i \in 1..1 + Len(q) : r[i] = IF i <= 1 THEN <<v>>[i] ELSE q[i - 1]
  <2>1. /\ r \in Seq(Things) /\ Len(r) = Len(<<v>>) + Len(q)
        /\ \A i \in 1..Len(<<v>>) + Len(q) : r[i] = IF i <= Len(<<v>>) THEN <<v>>[i] ELSE q[i - Len(<<v>>)]
    BY ONLY <1>2, ConcatProperties, q \in Seq(Things)
  <2> QED BY <1>2, <2>1
<1> HIDE DEF r, Distinct
<1>4. r[1] = v /\ DOMAIN r = 1..Len(r)
  BY <1>1, <1>2, <1>3
<1>5. \A i \in 1..Len(r) : i = 1 \/ (i - 1 \in 1..Len(q) /\ r[i] = q[i - 1])
  BY <1>1, <1>3
<1>6. \A i \in 1..Len(q) : i + 1 \in 1..Len(r) /\ r[i + 1] = q[i]
  BY <1>1, <1>3
<1>7. \A i \in 1..Len(q) : q[i] # v
  BY <1>1 DEF ToSet
<1>8. Distinct(r)
  <2> SUFFICES ASSUME NEW i \in 1..Len(r), NEW j \in 1..Len(r), r[i] = r[j] PROVE i = j
    BY DEF Distinct
  <2>1. i # 1 /\ j # 1 => i - 1 = j - 1
    BY <1>5 DEF Distinct
  <2>2. i = 1 <=> j = 1
    BY <1>4, <1>5, <1>7
  <2> QED BY <1>1, <1>3, <2>1, <2>2
<1>9. ToSet(r) = ToSet(q) \union {v}
  <2>1. \A x \in ToSet(r) : x \in ToSet(q) \union {v}
    BY <1>1, <1>4, <1>5 DEF ToSet
  <2>2. v \in ToSet(r)
    BY <1>1, <1>3, <1>4 DEF ToSet
  <2>3. \A x \in ToSet(q) : x \in ToSet(r)
    BY <1>1, <1>4, <1>6 DEF ToSet
  <2> QED BY <2>1, <2>2, <2>3
<1>10. ASSUME NEW u \in Things \ {v}, NEW x \in Things PROVE Follows(r, u, x) <=> Follows(q, u, x)
  <2>1. ASSUME Follows(r, u, x) PROVE Follows(q, u, x)
    <3>1. PICK i, j \in 1..Len(r) : i < j /\ r[i] = u /\ r[j] = x
      BY <2>1 DEF Follows
    <3>2. i # 1 /\ j # 1
      BY <1>1, <1>3, <1>4, <3>1
    <3>3. i - 1 \in 1..Len(q) /\ j - 1 \in 1..Len(q) /\ q[i - 1] = u /\ q[j - 1] = x
      BY <1>5, <3>1, <3>2
    <3>4. i - 1 < j - 1
      BY <1>1, <1>3, <3>1
    <3> QED BY <3>3, <3>4 DEF Follows
  <2>2. ASSUME Follows(q, u, x) PROVE Follows(r, u, x)
    <3>1. PICK i, j \in 1..Len(q) : i < j /\ q[i] = u /\ q[j] = x
      BY <2>2 DEF Follows
    <3>2. i + 1 < j + 1
      BY <1>1, <3>1
    <3> QED BY <1>6, <3>1, <3>2 DEF Follows
  <2> QED BY <2>1, <2>2
<1> QED BY <1>3, <1>8, <1>9, <1>10 DEF r

LEMMA TailDistinct ==
  ASSUME NEW q \in Seq(Things), Distinct(q), q # <<>>
  PROVE  /\ Head(q) \in ToSet(q) /\ Head(q) \in Things /\ Tail(q) \in Seq(Things) /\ Distinct(Tail(q))
         /\ ToSet(Tail(q)) = ToSet(q) \ {Head(q)}
<1> DEFINE r == Tail(q)
<1>1. DOMAIN q = 1..Len(q) /\ Len(q) \in Nat /\ Len(q) # 0 /\ Head(q) = q[1] /\ q[1] \in Things
  OBVIOUS
<1>2. r \in Seq(Things) /\ Len(r) = Len(q) - 1 /\ \A i \in 1..Len(r) : r[i] = q[i + 1]
  BY HeadTailProperties
<1> HIDE DEF r, Distinct
<1>3. DOMAIN r = 1..Len(r)
  BY <1>2
<1>4. \A i \in 1..Len(r) : i + 1 \in 1..Len(q) /\ r[i] = q[i + 1]
  BY <1>1, <1>2
<1>5. \A i \in 1..Len(q) : i # 1 => i - 1 \in 1..Len(r) /\ r[i - 1] = q[i] /\ q[i] # q[1]
  <2> SUFFICES ASSUME NEW i \in 1..Len(q), i # 1 PROVE i - 1 \in 1..Len(r) /\ r[i - 1] = q[i] /\ q[i] # q[1]
    OBVIOUS
  <2>1. i - 1 \in 1..Len(r) /\ (i - 1) + 1 = i /\ 1 \in 1..Len(q)
    BY <1>1, <1>2
  <2> QED BY <1>4, <2>1 DEF Distinct
<1>6. Distinct(r)
  <2> SUFFICES ASSUME NEW i \in 1..Len(r), NEW j \in 1..Len(r), r[i] = r[j] PROVE i = j
    BY DEF Distinct
  <2>1. i + 1 = j + 1
    BY <1>4 DEF Distinct
  <2> QED BY <1>1, <1>2, <2>1
<1>7. \A x \in ToSet(r) : x \in ToSet(q) /\ x # q[1]
  <2> SUFFICES ASSUME NEW x \in ToSet(r) PROVE x \in ToSet(q) /\ x # q[1]
    OBVIOUS
  <2>1. PICK i \in 1..Len(r) : r[i] = x
    BY <1>3 DEF ToSet
  <2>2. i + 1 \in 1..Len(q) /\ i + 1 # 1 /\ q[i + 1] = x
    BY <1>1, <1>2, <1>4, <2>1
  <2> QED BY <1>1, <1>5, <2>2 DEF ToSet
<1>8. \A x \in ToSet(q) : x # q[1] => x \in ToSet(r)
  BY <1>1, <1>3, <1>5 DEF ToSet
<1>9. q[1] \in ToSet(q)
  BY <1>1 DEF ToSet
<1>10. ToSet(r) = ToSet(q) \ {Head(q)}
  BY <1>1, <1>7, <1>8
<1> QED BY <1>1, <1>2, <1>6, <1>9, <1>10 DEF r

-----------------------------------------------------------------------------
\* What comes after a node, or after the head.
Ahead(q, u, x) == IF u = Nobody THEN x \in ToSet(q) ELSE Follows(q, u, x)
Rest(q, i) == {q[j] : j \in i + 1..Len(q)}

LEMMA AheadIsRest ==
  ASSUME NEW q \in Seq(Things), Distinct(q), NEW i \in 1..Len(q), NEW x
  PROVE  Follows(q, q[i], x) <=> x \in Rest(q, i)
<1>1. Len(q) \in Nat
  OBVIOUS
<1>2. ASSUME Follows(q, q[i], x) PROVE x \in Rest(q, i)
  <2>1. PICK a, b \in 1..Len(q) : a < b /\ q[a] = q[i] /\ q[b] = x
    BY <1>2 DEF Follows
  <2>2. a = i
    BY <2>1 DEF Distinct
  <2> QED BY <1>1, <2>1, <2>2 DEF Rest
<1>3. ASSUME x \in Rest(q, i) PROVE Follows(q, q[i], x)
  <2>1. PICK b \in i + 1..Len(q) : q[b] = x
    BY <1>3 DEF Rest
  <2>2. b \in 1..Len(q) /\ i < b
    BY <1>1
  <2> QED BY <2>1, <2>2 DEF Follows
<1> QED BY <1>2, <1>3

\* The nodes that the lister copies are the next ones, in order and none twice.
LEMMA NextNodes ==
  ASSUME ObjectsTypeOK, Listed(type, stage, object_list), NEW c \in AllClasses,
         NEW u \in Things \union {Nobody}, u # Nobody => u \in ToSet(object_list[c])
  PROVE  LET q == object_list[c]
             got == list_get_next(c, u) IN
         /\ got.array \in Seq(Things) /\ Distinct(got.array) /\ got.more \in BOOLEAN
         /\ got.more => got.array # <<>> /\ Last(got.array) \in ToSet(q) /\ Last(got.array) \in Things
         /\ ~got.more => \A x \in Things : Ahead(q, u, x) => x \in ToSet(got.array)
         /\ got.more => \A x \in Things : Ahead(q, u, x) => x \in ToSet(got.array) \/ Follows(q, Last(got.array), x)
         /\ \A x \in Things : x \in ToSet(got.array) => Ahead(q, u, x)
         /\ got.more => \A x \in Things : Follows(q, Last(got.array), x) => Ahead(q, u, x) /\ x \notin ToSet(got.array)
<1> DEFINE q == object_list[c]
           nodes == IF u = Nobody THEN After(c, u) ELSE Tail(After(c, u))
           got == list_get_next(c, u)
           n == IF Len(nodes) < LIST_FIND_OBJ_NR THEN Len(nodes) ELSE LIST_FIND_OBJ_NR
<1>1. /\ q \in Seq(Things) /\ Len(q) \in Nat /\ DOMAIN q = 1..Len(q) /\ Distinct(q)
      /\ \A i \in 1..Len(q) : q[i] \in Things
  BY DEF ObjectsTypeOK, Listed
<1>2. Nobody \notin Things /\ LIST_FIND_OBJ_NR \in Nat \ {0}
  BY ObjectsAssumption
<1>3. got.array = SubSeq(nodes, 1, n) /\ got.more = (Len(nodes) >= LIST_FIND_OBJ_NR)
  BY DEF list_get_next, FirstOf
<1> HIDE DEF got
<1>4. \E i \in 0..Len(q) : /\ nodes \in Seq(Things) /\ Len(nodes) = Len(q) - i
                           /\ \A j \in 1..Len(q) - i : nodes[j] = q[i + j]
                           /\ \A x \in Things : Ahead(q, u, x) <=> x \in Rest(q, i)
  <2>1. CASE u = Nobody
    <3>1. nodes = q
      BY <2>1 DEF After
    <3>2. \A x \in Things : x \in ToSet(q) <=> x \in Rest(q, 0)
      BY <1>1 DEF ToSet, Rest
    <3>3. \A j \in 1..Len(q) - 0 : q[j] = q[0 + j]
      BY <1>1
    <3>4. 0 \in 0..Len(q) /\ Len(q) = Len(q) - 0
      BY <1>1
    <3> QED BY <1>1, <2>1, <3>1, <3>2, <3>3, <3>4 DEF Ahead
  <2>2. CASE u # Nobody
    <3> DEFINE p == Position(q, u)
               s == SubSeq(q, p, Len(q))
    <3>1. u \in ToSet(q) /\ p \in 1..Len(q) /\ q[p] = u
      BY <1>1, <2>2 DEF ToSet, Position
    <3>2. nodes = Tail(s)
      BY <2>2, <3>1 DEF After
    <3> HIDE DEF p
    <3>3. s \in Seq(Things) /\ Len(s) = Len(q) - p + 1 /\ \A j \in 1..Len(q) - p + 1 : s[j] = q[p + j - 1]
      <4>1. p \in Int /\ Len(q) \in Int /\ p <= Len(q) /\ \A j \in p..Len(q) : q[j] \in Things
        BY <1>1, <3>1
      <4> QED BY ONLY <4>1, SubSeqProperties
    <3> HIDE DEF s
    <3>4. s # <<>>
      <4>1. Len(s) # 0
        BY <1>1, <3>1, <3>3
      <4> QED BY <4>1
    <3>5. nodes \in Seq(Things) /\ Len(nodes) = Len(s) - 1 /\ \A j \in 1..Len(nodes) : nodes[j] = s[j + 1]
      <4>1. Tail(s) \in Seq(Things) /\ Len(Tail(s)) = Len(s) - 1 /\ \A j \in 1..Len(Tail(s)) : Tail(s)[j] = s[j + 1]
        BY ONLY <3>3, <3>4, HeadTailProperties
      <4> QED BY <3>2, <4>1
    <3>6. Len(nodes) = Len(q) - p
      BY <1>1, <3>1, <3>3, <3>5
    <3>7. ASSUME NEW j \in 1..Len(q) - p PROVE nodes[j] = q[p + j]
      <4>1. nodes[j] = s[j + 1]
        BY <3>5, <3>6
      <4>2. j + 1 \in 1..Len(q) - p + 1 /\ p + (j + 1) - 1 = p + j
        BY <1>1, <3>1
      <4> QED BY <3>3, <4>1, <4>2
    <3>8. \A x \in Things : Ahead(q, u, x) <=> x \in Rest(q, p)
      BY <1>1, <2>2, <3>1, AheadIsRest DEF Ahead
    <3>9. p \in 0..Len(q)
      BY <1>1, <3>1
    <3> QED BY <3>5, <3>6, <3>7, <3>8, <3>9
  <2> QED BY <2>1, <2>2
<1> HIDE DEF nodes
<1>5. PICK i \in 0..Len(q) : /\ nodes \in Seq(Things) /\ Len(nodes) = Len(q) - i
                             /\ \A j \in 1..Len(q) - i : nodes[j] = q[i + j]
                             /\ \A x \in Things : Ahead(q, u, x) <=> x \in Rest(q, i)
  BY <1>4
<1>6. n \in Nat /\ n <= Len(nodes) /\ i + n <= Len(q) /\ i + n \in Nat
  BY <1>1, <1>2, <1>5
<1>7. /\ got.array \in Seq(Things) /\ Len(got.array) = n /\ DOMAIN got.array = 1..n
      /\ \A j \in 1..n : got.array[j] = q[i + j]
  <2>1. \A j \in 1..n : nodes[j] \in Things
    BY <1>5, <1>6
  <2>2. 1 \in Int /\ n \in Int
    BY <1>6
  <2> HIDE DEF n
  <2>3. /\ SubSeq(nodes, 1, n) \in Seq(Things) /\ Len(SubSeq(nodes, 1, n)) = IF 1 <= n THEN n - 1 + 1 ELSE 0
        /\ \A j \in 1..n - 1 + 1 : SubSeq(nodes, 1, n)[j] = nodes[1 + j - 1]
    BY ONLY <2>1, <2>2, SubSeqProperties
  <2>4. got.array \in Seq(Things) /\ Len(got.array) = n /\ \A j \in 1..n : got.array[j] = nodes[j]
    BY <1>3, <1>6, <2>3
  <2> QED BY <1>1, <1>5, <1>6, <2>4
<1>8. Len(nodes) \in Nat /\ (got.more <=> Len(nodes) >= LIST_FIND_OBJ_NR)
  <2>1. Len(nodes) \in Nat
    BY <1>1, <1>5
  <2>2. got.more <=> Len(nodes) >= LIST_FIND_OBJ_NR
    BY ONLY <1>3
  <2> QED BY <2>1, <2>2
<1>9. (got.more => n # 0) /\ (~got.more => i + n = Len(q))
  <2>1. CASE Len(nodes) >= LIST_FIND_OBJ_NR
    <3>1. n = LIST_FIND_OBJ_NR
      BY <1>2, <1>8, <2>1
    <3> HIDE DEF n
    <3> QED BY <1>2, <1>8, <2>1, <3>1
  <2>2. CASE ~(Len(nodes) >= LIST_FIND_OBJ_NR)
    <3>1. n = Len(nodes)
      BY <1>2, <1>8, <2>2
    <3> HIDE DEF n
    <3>2. i + n = Len(q)
      BY <1>1, <1>5, <3>1
    <3> QED BY <1>8, <2>2, <3>2
  <2> QED BY <2>1, <2>2
<1> HIDE DEF n, q
<1>10. Distinct(got.array)
  <2> SUFFICES ASSUME NEW a \in 1..n, NEW b \in 1..n, got.array[a] = got.array[b] PROVE a = b
    BY <1>7 DEF Distinct
  <2>1. i + a \in 1..Len(q) /\ i + b \in 1..Len(q) /\ q[i + a] = q[i + b]
    BY <1>1, <1>6, <1>7
  <2>2. i + a = i + b
    BY <1>1, <2>1 DEF Distinct
  <2> QED BY <2>2
<1>11. \A x \in ToSet(got.array) : \E j \in i + 1..i + n : q[j] = x
  <2> SUFFICES ASSUME NEW x \in ToSet(got.array) PROVE \E j \in i + 1..i + n : q[j] = x
    OBVIOUS
  <2>1. PICK a \in 1..n : got.array[a] = x
    BY <1>7 DEF ToSet
  <2>2. i + a \in i + 1..i + n /\ q[i + a] = x
    BY <1>6, <1>7, <2>1
  <2> QED BY <2>2
<1>12. \A j \in i + 1..i + n : q[j] \in ToSet(got.array)
  <2> SUFFICES ASSUME NEW j \in i + 1..i + n PROVE q[j] \in ToSet(got.array)
    OBVIOUS
  <2>1. j - i \in 1..n /\ i + (j - i) = j
    BY <1>6
  <2>2. got.array[j - i] = q[j]
    BY <1>7, <2>1
  <2> QED BY <1>7, <2>1, <2>2 DEF ToSet
<1>13. ASSUME NEW x \in Things, x \in ToSet(got.array) PROVE Ahead(q, u, x)
  <2>1. PICK j \in i + 1..i + n : q[j] = x
    BY <1>11, <1>13
  <2>2. j \in i + 1..Len(q)
    BY <1>1, <1>6
  <2>3. x \in Rest(q, i)
    BY <2>1, <2>2 DEF Rest
  <2> QED BY <1>5, <2>3
<1>14. ~got.more => \A x \in Things : Ahead(q, u, x) => x \in ToSet(got.array)
  BY <1>5, <1>9, <1>12 DEF Rest
<1>15. ASSUME got.more
       PROVE  /\ got.array # <<>> /\ Last(got.array) \in ToSet(q) /\ Last(got.array) \in Things
              /\ \A x \in Things : Ahead(q, u, x) => x \in ToSet(got.array) \/ Follows(q, Last(got.array), x)
              /\ \A x \in Things : Follows(q, Last(got.array), x) => Ahead(q, u, x) /\ x \notin ToSet(got.array)
  <2>1. n \in 1..n /\ Last(got.array) = q[i + n] /\ i + n \in 1..Len(q)
    BY <1>1, <1>6, <1>7, <1>9, <1>15 DEF Last
  <2>2. \A x : Follows(q, Last(got.array), x) <=> x \in Rest(q, i + n)
    BY <1>1, <2>1, AheadIsRest
  <2>3. ASSUME NEW x \in Things, x \in Rest(q, i) PROVE x \in ToSet(got.array) \/ x \in Rest(q, i + n)
    <3>1. PICK j \in i + 1..Len(q) : q[j] = x
      BY <2>3 DEF Rest
    <3>2. j \in i + 1..i + n \/ j \in i + n + 1..Len(q)
      BY <1>1, <1>6
    <3> QED BY <1>12, <3>1, <3>2 DEF Rest
  <2>4. ASSUME NEW x \in Things, x \in Rest(q, i + n) PROVE x \in Rest(q, i) /\ x \notin ToSet(got.array)
    <3>1. PICK j \in i + n + 1..Len(q) : q[j] = x
      BY <2>4 DEF Rest
    <3>2. j \in i + 1..Len(q) /\ j \in 1..Len(q) /\ j \notin i + 1..i + n
      BY <1>1, <1>6
    <3>3. \A e \in i + 1..i + n : e \in 1..Len(q) /\ e # j
      BY <1>1, <1>6, <3>2
    <3>4. \A e \in i + 1..i + n : q[e] # x
      BY <1>1, <3>1, <3>2, <3>3 DEF Distinct
    <3> QED BY <1>11, <3>1, <3>2, <3>4 DEF Rest
  <2>5. got.array # <<>>
    BY <1>7, <2>1
  <2>6. Last(got.array) \in ToSet(q) /\ Last(got.array) \in Things
    BY <1>1, <2>1 DEF ToSet
  <2> QED BY <1>5, <2>2, <2>3, <2>4, <2>5, <2>6
<1>16. got.more \in BOOLEAN
  BY <1>3
<1> QED BY <1>7, <1>10, <1>13, <1>14, <1>15, <1>16 DEF got, q

-----------------------------------------------------------------------------
LEMMA NoListerType == NoLister \in Lister
<1>1. <<>> \in Seq(Things)
  OBVIOUS
<1> QED BY <1>1 DEF NoLister, Lister

\* Where the lister copies nodes, the listing goes on, or has shown everything it should have.
LEMMA CopyWalks ==
  ASSUME ObjectsTypeOK, Listed(type, stage, object_list), NEW l \in Lister, l.class # Null,
         ~l.twice, l.missed = {}, l.current # Nobody => stage[l.current] = "in" /\ type[l.current] = l.class,
         \A x \in Things :
           /\ x \in l.shown => ~Ahead(object_list[l.class], l.current, x)
           /\ x \in l.steady => /\ stage[x] = "in" /\ type[x] = l.class
                                /\ x \in l.shown \/ Ahead(object_list[l.class], l.current, x)
  PROVE  Copy(l) \in Lister /\ Undisturbed(Copy(l), type, stage, object_list)
<1> DEFINE q == object_list[l.class]
           got == list_get_next(l.class, l.current)
           next == IF got.more THEN Last(got.array) ELSE Nobody
           m == [l EXCEPT !.array = got.array, !.current = next, !.adrift = next # Nobody /\ stage[next] # "in"]
<1>1. /\ l.class \in AllClasses /\ l.current \in Things \union {Nobody} /\ l.shown \in SUBSET Things
      /\ l.steady \in SUBSET Things
  BY DEF Lister
<1>2. Nobody \notin Things
  BY ObjectsAssumption
<1>3. l.current # Nobody => l.current \in ToSet(q)
  BY <1>1 DEF Listed
<1>4. /\ got.array \in Seq(Things) /\ Distinct(got.array) /\ got.more \in BOOLEAN
      /\ got.more => got.array # <<>> /\ Last(got.array) \in ToSet(q) /\ Last(got.array) \in Things
      /\ ~got.more => \A x \in Things : Ahead(q, l.current, x) => x \in ToSet(got.array)
      /\ got.more => \A x \in Things : Ahead(q, l.current, x) => x \in ToSet(got.array) \/ Follows(q, Last(got.array), x)
      /\ \A x \in Things : x \in ToSet(got.array) => Ahead(q, l.current, x)
      /\ got.more => \A x \in Things : Follows(q, Last(got.array), x) => Ahead(q, l.current, x) /\ x \notin ToSet(got.array)
  BY <1>1, <1>3, NextNodes
<1>5. ToSet(<<>>) = {}
  BY DEF ToSet
<1>6. CASE got.array = <<>>
  <2>1. Copy(l) = Ended(l)
    BY <1>6 DEF Copy
  <2>2. l.steady \ l.shown = {}
    BY <1>1, <1>4, <1>5, <1>6
  <2>3. Ended(l).missed = {} /\ Ended(l).twice = l.twice /\ Ended(l).class = Null
    BY <2>2 DEF Ended, NoLister
  <2>4. Ended(l) \in Lister
    <3>1. l.twice \in BOOLEAN /\ l.steady \ l.shown \in SUBSET Things
      BY <1>1 DEF Lister
    <3> QED BY <3>1, NoListerType DEF Ended, Lister
  <2> QED BY <2>1, <2>3, <2>4 DEF Undisturbed
<1>7. CASE got.array # <<>>
  <2>1. Copy(l) = m
    BY <1>7 DEF Copy
  <2>2. next \in Things \union {Nobody} /\ (next # Nobody => next \in ToSet(q) /\ got.more /\ next = Last(got.array))
    BY <1>2, <1>4
  <2>3. next = Nobody => ~got.more
    BY <1>2, <1>4
  <2> HIDE DEF got, next
  <2>4. /\ m.class = l.class /\ m.current = next /\ m.array = got.array /\ m.shown = l.shown /\ m.twice = l.twice
        /\ m.steady = l.steady /\ m.missed = l.missed /\ m.adrift = (next # Nobody /\ stage[next] # "in")
    BY DEF Lister
  <2>5. m \in Lister
    BY <1>4, <2>2 DEF Lister
  <2> HIDE DEF m
  <2>6. ASSUME ~m.adrift PROVE Walking(m, type, stage, object_list)
    <3>1. next # Nobody => stage[next] = "in" /\ type[next] = l.class
      BY <1>1, <2>2, <2>4, <2>6 DEF Listed
    <3>2. \A x \in Things : ~Follows(q, Nobody, x)
      BY <1>1, <1>2 DEF Follows, ObjectsTypeOK
    <3> HIDE DEF q
    <3>3. \A x \in Things : Follows(q, next, x) => Ahead(q, l.current, x) /\ x \notin ToSet(got.array)
      BY <1>4, <2>2, <3>2
    <3>4. \A x \in Things : Ahead(q, l.current, x) => x \in ToSet(got.array) \/ Follows(q, next, x)
      BY <1>4, <2>2, <2>3
    <3>5. \A x \in Things :
            /\ x \in m.shown => x \notin ToSet(m.array) /\ ~Follows(q, m.current, x)
            /\ x \in ToSet(m.array) => ~Follows(q, m.current, x)
            /\ x \in m.steady => /\ stage[x] = "in" /\ type[x] = m.class
                                 /\ x \in m.shown \/ x \in ToSet(m.array) \/ Follows(q, m.current, x)
      <4> SUFFICES ASSUME NEW x \in Things
                   PROVE  /\ x \in m.shown => x \notin ToSet(m.array) /\ ~Follows(q, m.current, x)
                          /\ x \in ToSet(m.array) => ~Follows(q, m.current, x)
                          /\ x \in m.steady => /\ stage[x] = "in" /\ type[x] = m.class
                                               /\ x \in m.shown \/ x \in ToSet(m.array) \/ Follows(q, m.current, x)
        OBVIOUS
      <4>1. x \in l.shown => ~Ahead(q, l.current, x)
        BY DEF q
      <4>2. x \in l.steady => stage[x] = "in" /\ type[x] = l.class /\ (x \in l.shown \/ Ahead(q, l.current, x))
        BY DEF q
      <4>3. x \in ToSet(got.array) => Ahead(q, l.current, x)
        BY <1>4
      <4> QED BY <2>4, <3>3, <3>4, <4>1, <4>2, <4>3
    <3>6. q = object_list[m.class]
      BY <2>4 DEF q
    <3>7. Distinct(m.array) /\ m.array # <<>>
      BY <1>4, <1>7, <2>4
    <3>8. m.current # Nobody => stage[m.current] = "in" /\ type[m.current] = m.class
      BY <2>4, <3>1
    <3> QED BY <3>5, <3>6, <3>7, <3>8 DEF Walking
  <2> QED BY <2>1, <2>4, <2>5, <2>6 DEF Undisturbed
<1> QED BY <1>6, <1>7

-----------------------------------------------------------------------------
LEMMA ListingInitially == ObjectsInit => ListingInv
<1> SUFFICES ASSUME ObjectsInit PROVE ListingInv
  OBVIOUS
<1>1. ToSet(<<>>) = {} /\ Distinct(<<>>) /\ <<>> \in Seq(Things)
  BY DEF ToSet, Distinct
<1>2. ObjectsTypeOK
  <2>1. lister \in Lister
    BY <1>1 DEF ObjectsInit, NoLister, Lister
  <2> QED BY <1>1, <2>1 DEF ObjectsInit, ObjectsTypeOK, Stages
<1>3. Listed(type, stage, object_list)
  BY <1>1 DEF ObjectsInit, Listed
<1>4. Undisturbed(lister, type, stage, object_list)
  BY DEF ObjectsInit, NoLister, Undisturbed
<1> QED BY <1>2, <1>3, <1>4 DEF ListingInv

LEMMA SetTypeKeeps ==
  ASSUME ListingInv, ~lister.adrift, NEW o \in Things, NEW from \in {"out", "freed"}, NEW c \in Classes, SetType(o, from, c)
  PROVE  ListingInv'
<1>1. /\ stage[o] = from /\ type' = [type EXCEPT ![o] = c] /\ stage' = [stage EXCEPT ![o] = "entering"]
      /\ object_list' = object_list /\ lister' = lister
  BY DEF SetType
<1>2. c \in AllClasses
  BY ObjectsAssumption
<1>3. ObjectsTypeOK'
  BY <1>1, <1>2 DEF ListingInv, ObjectsTypeOK, Stages
<1>4. \A p \in Things : p # o => type'[p] = type[p] /\ stage'[p] = stage[p]
  BY <1>1 DEF ListingInv, ObjectsTypeOK
<1>5. type'[o] = c /\ stage'[o] = "entering"
  BY <1>1 DEF ListingInv, ObjectsTypeOK
<1>6. \A d \in AllClasses : ToSet(object_list[d]) \subseteq Things /\ o \notin ToSet(object_list[d])
  BY <1>1 DEF ListingInv, Listed, ObjectsTypeOK, ToSet
<1>7. Listed(type, stage, object_list)'
  BY <1>1, <1>2, <1>4, <1>5, <1>6 DEF ListingInv, Listed
<1>8. Undisturbed(lister, type, stage, object_list)'
  <2>1. lister.current \in Things \union {Nobody}
    BY DEF ListingInv, ObjectsTypeOK, Lister
  <2>2. stage[o] # "in"
    BY <1>1
  <2> QED BY <1>1, <1>4, <2>1, <2>2 DEF ListingInv, Undisturbed, Walking
<1> QED BY <1>3, <1>7, <1>8 DEF ListingInv

LEMMA InsertKeeps ==
  ASSUME ListingInv, ~lister.adrift, NEW o \in Things, InsertObject(o)
  PROVE  ListingInv'
<1> DEFINE e == type[o]
           q == object_list[e]
<1>1. /\ stage[o] = "entering" /\ object_list' = [object_list EXCEPT ![e] = <<o>> \o q]
      /\ stage' = [stage EXCEPT ![o] = "in"] /\ type' = type /\ lister' = lister
  BY DEF InsertObject
<1>2. e \in AllClasses /\ q \in Seq(Things) /\ Distinct(q) /\ o \notin ToSet(q)
  BY <1>1 DEF ListingInv, Listed, ObjectsTypeOK
<1>3. /\ object_list'[e] \in Seq(Things) /\ Distinct(object_list'[e]) /\ ToSet(object_list'[e]) = ToSet(q) \union {o}
      /\ \A u \in Things \ {o}, x \in Things : Follows(object_list'[e], u, x) <=> Follows(q, u, x)
  <2>1. object_list'[e] = <<o>> \o q
    BY <1>1, <1>2 DEF ListingInv, ObjectsTypeOK
  <2> QED BY <1>2, <2>1, PrependProperties
<1>4. \A d \in AllClasses : d # e => object_list'[d] = object_list[d]
  BY <1>1 DEF ListingInv, ObjectsTypeOK
<1>5. \A p \in Things : p # o => stage'[p] = stage[p]
  BY <1>1 DEF ListingInv, ObjectsTypeOK
<1>6. stage'[o] = "in"
  BY <1>1 DEF ListingInv, ObjectsTypeOK
<1>7. ObjectsTypeOK'
  <2>1. object_list' \in [AllClasses -> Seq(Things)]
    BY <1>1, <1>2, <1>3, <1>4 DEF ListingInv, ObjectsTypeOK
  <2> QED BY <1>1, <2>1 DEF ListingInv, ObjectsTypeOK, Stages
<1>8. \A d \in AllClasses : ToSet(object_list[d]) \subseteq Things /\ o \notin ToSet(object_list[d])
  BY <1>1 DEF ListingInv, Listed, ObjectsTypeOK, ToSet
<1> HIDE DEF q
<1>9. Listed(type, stage, object_list)'
  <2>1. \A d \in AllClasses : Distinct(object_list'[d])
    BY <1>3, <1>4 DEF ListingInv, Listed
  <2>2. ASSUME NEW d \in AllClasses, NEW p \in ToSet(object_list'[d])
        PROVE  stage'[p] = "leaving" \/ (stage'[p] = "in" /\ type'[p] = d)
    <3>1. CASE p = o
      BY <1>1, <1>4, <1>6, <1>8, <2>2, <3>1
    <3>2. CASE p # o
      <4>1. p \in ToSet(object_list[d])
        BY <1>3, <1>4, <2>2, <3>2 DEF q
      <4> QED BY <1>1, <1>5, <1>8, <3>2, <4>1 DEF ListingInv, Listed
    <3> QED BY <3>1, <3>2
  <2>3. \A p \in Things : stage'[p] \in {"entering", "in"} => type'[p] \in AllClasses
    BY <1>1, <1>2, <1>5 DEF ListingInv, Listed
  <2>4. ASSUME NEW p \in Things, stage'[p] = "in" PROVE p \in ToSet(object_list'[type'[p]])
    <3>1. CASE p = o
      BY <1>1, <1>3, <3>1
    <3>2. CASE p # o
      <4>1. type[p] \in AllClasses /\ p \in ToSet(object_list[type[p]])
        BY <1>5, <2>4, <3>2 DEF ListingInv, Listed
      <4> QED BY <1>1, <1>3, <1>4, <4>1 DEF q
    <3> QED BY <3>1, <3>2
  <2> QED BY <2>1, <2>2, <2>3, <2>4 DEF Listed
<1>10. Undisturbed(lister, type, stage, object_list)'
  <2>1. CASE lister.class = Null
    BY <1>1, <2>1 DEF ListingInv, Undisturbed
  <2>2. CASE lister.class # Null
    <3>1. Walking(lister, type, stage, object_list) /\ lister.class \in AllClasses /\ lister.current \in Things \union {Nobody}
      BY <2>2 DEF ListingInv, Undisturbed, ObjectsTypeOK, Lister
    <3>2. lister.current # o
      BY <1>1, <1>2, <3>1, ObjectsAssumption DEF Walking
    <3>3. \A x \in Things : Follows(object_list'[lister.class], lister.current, x)
                              <=> Follows(object_list[lister.class], lister.current, x)
      <4>1. CASE lister.class # e
        BY <1>4, <3>1, <4>1
      <4>2. CASE lister.class = e /\ lister.current \in Things
        BY <1>3, <3>2, <4>2 DEF q
      <4>3. CASE lister.current = Nobody
        <5>1. object_list[lister.class] \in Seq(Things) /\ object_list'[lister.class] \in Seq(Things)
          BY <1>7, <3>1 DEF ListingInv, ObjectsTypeOK
        <5> QED BY <4>3, <5>1, ObjectsAssumption DEF Follows
      <4> QED BY <3>1, <4>1, <4>2, <4>3
    <3>4. \A x \in Things : stage[x] = "in" => stage'[x] = "in"
      BY <1>5, <1>6
    <3>5. Walking(lister, type, stage', object_list')
      BY <3>1, <3>3, <3>4, ObjectsAssumption DEF Walking
    <3> QED BY <1>1, <3>5 DEF ListingInv, Undisturbed
  <2> QED BY <2>1, <2>2
<1> QED BY <1>7, <1>9, <1>10 DEF ListingInv

LEMMA DetachKeeps ==
  ASSUME ListingInv, ~lister.adrift, NEW o \in Things, rt_object_detach(o)
  PROVE  ListingInv'
<1> DEFINE m == [lister EXCEPT !.steady = @ \ {o}, !.adrift = @ \/ o = lister.current]
<1>1. /\ stage[o] = "in" /\ type' = [type EXCEPT ![o] = Null] /\ stage' = [stage EXCEPT ![o] = "leaving"]
      /\ lister' = m /\ object_list' = object_list
  BY DEF rt_object_detach
<1>2. ObjectsTypeOK
  BY DEF ListingInv
<1>3. \A p \in Things : p # o => type'[p] = type[p] /\ stage'[p] = stage[p]
  BY <1>1, <1>2 DEF ObjectsTypeOK
<1>4. stage'[o] = "leaving"
  BY <1>1, <1>2 DEF ObjectsTypeOK
<1>5. m \in Lister
  <2>1. lister \in Lister
    BY <1>2 DEF ObjectsTypeOK
  <2> QED BY <2>1 DEF Lister
<1>6. ObjectsTypeOK'
  BY <1>1, <1>2, <1>5 DEF ObjectsTypeOK, Stages
<1>7. \A d \in AllClasses : ToSet(object_list[d]) \subseteq Things
  BY <1>2 DEF ObjectsTypeOK, ToSet
<1>8. Listed(type, stage, object_list)'
  BY <1>1, <1>3, <1>4, <1>7 DEF ListingInv, Listed
<1>9. ASSUME ~m.adrift, m.class # Null
      PROVE  ~m.twice /\ m.missed = {} /\ Walking(m, type', stage', object_list)
  <2>1. /\ m.class = lister.class /\ m.current = lister.current /\ m.array = lister.array /\ m.shown = lister.shown
        /\ m.steady = lister.steady \ {o} /\ m.missed = lister.missed /\ m.twice = lister.twice
        /\ m.adrift = (lister.adrift \/ o = lister.current)
    BY <1>2 DEF ObjectsTypeOK, Lister
  <2> HIDE DEF m
  <2>2. Walking(lister, type, stage, object_list) /\ ~lister.twice /\ lister.missed = {} /\ lister.current # o
    BY <1>9, <2>1 DEF ListingInv, Undisturbed
  <2>3. lister.current # Nobody => lister.current \in Things
    BY <1>2 DEF ObjectsTypeOK, Lister
  <2> QED BY <1>3, <2>1, <2>2, <2>3 DEF Walking
<1>10. ~m.adrift => ~m.twice /\ m.missed = {}
  BY <1>2 DEF ListingInv, Undisturbed, ObjectsTypeOK, Lister
<1> HIDE DEF m
<1>11. Undisturbed(lister, type, stage, object_list)'
  BY <1>1, <1>9, <1>10 DEF Undisturbed
<1> QED BY <1>6, <1>8, <1>11 DEF ListingInv

LEMMA RemoveKeeps ==
  ASSUME ListingInv, ~lister.adrift, NEW o \in Things, RemoveObject(o)
  PROVE  ListingInv'
<1>1. /\ stage[o] = "leaving" /\ object_list' = [c \in AllClasses |-> Unlink(object_list[c], o)]
      /\ stage' = [stage EXCEPT ![o] = IF o \in Heap THEN "freed" ELSE "out"] /\ type' = type /\ lister' = lister
  BY DEF RemoveObject
<1>2. ObjectsTypeOK
  BY DEF ListingInv
<1>3. \A d \in AllClasses : object_list[d] \in Seq(Things) /\ Distinct(object_list[d])
  BY <1>2 DEF ObjectsTypeOK, ListingInv, Listed
<1>4. ASSUME NEW d \in AllClasses
      PROVE  /\ object_list'[d] \in Seq(Things) /\ Distinct(object_list'[d])
             /\ ToSet(object_list'[d]) = ToSet(object_list[d]) \ {o}
             /\ \A u \in Things \ {o}, x \in Things :
                  Follows(object_list'[d], u, x) <=> x # o /\ Follows(object_list[d], u, x)
  <2> DEFINE q == object_list[d]
             r == Unlink(q, o)
  <2>1. object_list'[d] = r
    BY <1>1
  <2>2. q \in Seq(Things) /\ Distinct(q)
    BY <1>3
  <2>3. /\ r \in Seq(Things) /\ Distinct(r) /\ ToSet(r) = ToSet(q) \ {o}
        /\ \A u \in Things \ {o}, x \in Things : Follows(r, u, x) <=> x # o /\ Follows(q, u, x)
    BY ONLY <2>2, UnlinkProperties, o \in Things
  <2> HIDE DEF r
  <2> QED BY <2>1, <2>3
<1>5. \A p \in Things : p # o => stage'[p] = stage[p]
  BY <1>1, <1>2 DEF ObjectsTypeOK
<1>6. stage'[o] \in {"freed", "out"}
  BY <1>1, <1>2 DEF ObjectsTypeOK
<1>7. ObjectsTypeOK'
  BY <1>1, <1>2, <1>4 DEF ObjectsTypeOK, Stages
<1>8. \A d \in AllClasses : ToSet(object_list[d]) \subseteq Things
  BY <1>2 DEF ObjectsTypeOK, ToSet
<1>9. Listed(type, stage, object_list)'
  <2>1. \A d \in AllClasses : Distinct(object_list'[d])
    BY <1>4
  <2>2. ASSUME NEW d \in AllClasses, NEW p \in ToSet(object_list'[d])
        PROVE  stage'[p] = "leaving" \/ (stage'[p] = "in" /\ type'[p] = d)
    <3>1. p \in ToSet(object_list[d]) /\ p # o
      BY <1>4, <2>2
    <3> QED BY <1>1, <1>5, <1>8, <3>1 DEF ListingInv, Listed
  <2>3. \A p \in Things : stage'[p] \in {"entering", "in"} => type'[p] \in AllClasses
    BY <1>1, <1>5, <1>6 DEF ListingInv, Listed
  <2>4. ASSUME NEW p \in Things, stage'[p] = "in" PROVE p \in ToSet(object_list'[type'[p]])
    <3>1. p # o
      BY <1>6, <2>4
    <3>2. type[p] \in AllClasses /\ p \in ToSet(object_list[type[p]])
      BY <1>5, <2>4, <3>1 DEF ListingInv, Listed
    <3> QED BY <1>1, <1>4, <3>1, <3>2
  <2> QED BY <2>1, <2>2, <2>3, <2>4 DEF Listed
<1>10. Undisturbed(lister, type, stage, object_list)'
  <2>1. CASE lister.class = Null
    BY <1>1, <2>1 DEF ListingInv, Undisturbed
  <2>2. CASE lister.class # Null
    <3>1. Walking(lister, type, stage, object_list) /\ lister.class \in AllClasses /\ lister.current \in Things \union {Nobody}
      BY <1>2, <2>2 DEF ListingInv, Undisturbed, ObjectsTypeOK, Lister
    <3>2. lister.current # o
      BY <1>1, <3>1, ObjectsAssumption DEF Walking
    <3>3. \A x \in Things : Follows(object_list'[lister.class], lister.current, x)
                              <=> x # o /\ Follows(object_list[lister.class], lister.current, x)
      <4>1. CASE lister.current # Nobody
        BY <1>4, <3>1, <3>2, <4>1
      <4>2. CASE lister.current = Nobody
        <5>1. object_list[lister.class] \in Seq(Things) /\ object_list'[lister.class] \in Seq(Things)
          BY <1>3, <1>4, <3>1
        <5> QED BY <4>2, <5>1, ObjectsAssumption DEF Follows
      <4> QED BY <4>1, <4>2
    <3>4. \A x \in Things : stage[x] = "in" => stage'[x] = "in" /\ x # o
      BY <1>1, <1>5
    <3>5. Walking(lister, type, stage', object_list')
      BY <3>1, <3>3, <3>4, ObjectsAssumption DEF Walking
    <3> QED BY <1>1, <3>5 DEF ListingInv, Undisturbed
  <2> QED BY <2>1, <2>2
<1> QED BY <1>7, <1>9, <1>10 DEF ListingInv

\* A step of the lister leaves the objects alone.
LEMMA ListerKeeps ==
  ASSUME ListingInv, UNCHANGED <<type, stage, object_list>>,
         lister' \in Lister, Undisturbed(lister', type, stage, object_list)
  PROVE  ListingInv'
BY DEF ListingInv, ObjectsTypeOK

LEMMA ListingKeeps ==
  ASSUME ListingInv, NEW c \in AllClasses, Listing(c)
  PROVE  ListingInv'
<1> DEFINE l == [NoLister EXCEPT !.class = c, !.steady = ToSet(object_list[c]) \intersect {o \in Things : stage[o] = "in"}]
<1>1. lister' = Copy(l) /\ UNCHANGED <<type, stage, object_list>>
  BY DEF Listing
<1>2. /\ l.class = c /\ l.current = Nobody /\ l.shown = {} /\ ~l.twice /\ l.missed = {}
      /\ l.steady = ToSet(object_list[c]) \intersect {o \in Things : stage[o] = "in"}
  BY DEF NoLister
<1>3. l \in Lister
  <2>1. ToSet(object_list[c]) \intersect {o \in Things : stage[o] = "in"} \in SUBSET Things
    OBVIOUS
  <2> QED BY <2>1, NoListerType DEF Lister
<1> HIDE DEF l
<1>4. \A x \in Things : x \in l.steady => stage[x] = "in" /\ type[x] = c /\ x \in ToSet(object_list[c])
  BY <1>2 DEF ListingInv, Listed
<1>5. Copy(l) \in Lister /\ Undisturbed(Copy(l), type, stage, object_list)
  <2>1. l.class # Null
    BY <1>2 DEF Null, AllClasses
  <2>2. \A x \in Things :
           /\ x \in l.shown => ~Ahead(object_list[l.class], l.current, x)
           /\ x \in l.steady => /\ stage[x] = "in" /\ type[x] = l.class
                                /\ x \in l.shown \/ Ahead(object_list[l.class], l.current, x)
    BY <1>2, <1>4 DEF Ahead
  <2> QED BY <1>2, <1>3, <2>1, <2>2, CopyWalks DEF ListingInv
<1> QED BY <1>1, <1>5, ListerKeeps

LEMMA NextObjectsKeeps ==
  ASSUME ListingInv, ~lister.adrift, NextObjects
  PROVE  ListingInv'
<1>1. lister.class # Null /\ lister.array = <<>> /\ lister' = Copy(lister) /\ UNCHANGED <<type, stage, object_list>>
  BY DEF NextObjects
<1>2. Walking(lister, type, stage, object_list) /\ ~lister.twice /\ lister.missed = {} /\ lister \in Lister
  BY <1>1 DEF ListingInv, Undisturbed, ObjectsTypeOK
<1>3. lister.current # Nobody
  BY <1>1, <1>2 DEF Walking
<1>4. ToSet(<<>>) = {}
  BY DEF ToSet
<1>5. \A x \in Things :
         /\ x \in lister.shown => ~Ahead(object_list[lister.class], lister.current, x)
         /\ x \in lister.steady => /\ stage[x] = "in" /\ type[x] = lister.class
                                   /\ x \in lister.shown \/ Ahead(object_list[lister.class], lister.current, x)
  BY <1>1, <1>2, <1>3, <1>4 DEF Walking, Ahead
<1>6. stage[lister.current] = "in" /\ type[lister.current] = lister.class
  BY <1>2, <1>3 DEF Walking
<1>7. Copy(lister) \in Lister /\ Undisturbed(Copy(lister), type, stage, object_list)
  BY <1>1, <1>2, <1>5, <1>6, CopyWalks DEF ListingInv
<1> QED BY <1>1, <1>7, ListerKeeps

LEMMA ShowKeeps ==
  ASSUME ListingInv, ~lister.adrift, ~lister.twice, ShowObject
  PROVE  ListingInv'
<1> DEFINE o == Head(lister.array)
           shows == type[o] = lister.class
           seen == [lister EXCEPT !.array = Tail(@),
                      !.shown = IF shows THEN @ \union {o} ELSE @,
                      !.twice = shows /\ o \in lister.shown,
                      !.adrift = stage[o] = "freed"]
<1>1. /\ lister.class # Null /\ lister.array # <<>> /\ UNCHANGED <<type, stage, object_list>>
      /\ lister' = IF seen.array = <<>> /\ lister.current = Nobody THEN Ended(seen) ELSE seen
  BY DEF ShowObject
<1>2. Walking(lister, type, stage, object_list) /\ lister.missed = {} /\ lister \in Lister
  BY <1>1 DEF ListingInv, Undisturbed, ObjectsTypeOK
<1>3. lister.array \in Seq(Things) /\ Distinct(lister.array)
  BY <1>2 DEF Walking, Lister
<1>4. /\ o \in ToSet(lister.array) /\ o \in Things /\ Tail(lister.array) \in Seq(Things) /\ Distinct(Tail(lister.array))
      /\ ToSet(Tail(lister.array)) = ToSet(lister.array) \ {o}
  BY <1>1, <1>3, TailDistinct
<1> HIDE DEF o
<1>5. o \notin lister.shown
  BY <1>2, <1>4 DEF Walking
<1>6. /\ seen.class = lister.class /\ seen.current = lister.current /\ seen.array = Tail(lister.array)
      /\ seen.shown = (IF shows THEN lister.shown \union {o} ELSE lister.shown) /\ seen.twice = FALSE
      /\ seen.steady = lister.steady /\ seen.missed = {}
  BY <1>2, <1>5 DEF Lister
<1>7. seen \in Lister
  <2>1. (stage[o] = "freed") \in BOOLEAN /\ (shows /\ o \in lister.shown) = FALSE
    BY <1>5
  <2>2. (IF shows THEN lister.shown \union {o} ELSE lister.shown) \in SUBSET Things
    BY <1>2, <1>4 DEF Lister
  <2> QED BY <1>2, <1>4, <2>1, <2>2 DEF Lister
<1> HIDE DEF seen
<1>8. ASSUME NEW x \in Things
      PROVE  /\ x \in seen.shown => x \notin ToSet(seen.array) /\ ~Follows(object_list[seen.class], seen.current, x)
             /\ x \in ToSet(seen.array) => ~Follows(object_list[seen.class], seen.current, x)
             /\ x \in seen.steady => /\ stage[x] = "in" /\ type[x] = seen.class
                                     /\ x \in seen.shown \/ x \in ToSet(seen.array) \/ Follows(object_list[seen.class], seen.current, x)
  <2>1. /\ x \in lister.shown => x \notin ToSet(lister.array) /\ ~Follows(object_list[lister.class], lister.current, x)
        /\ x \in ToSet(lister.array) => ~Follows(object_list[lister.class], lister.current, x)
        /\ x \in lister.steady => /\ stage[x] = "in" /\ type[x] = lister.class
                                  /\ x \in lister.shown \/ x \in ToSet(lister.array)
                                       \/ Follows(object_list[lister.class], lister.current, x)
    BY <1>2 DEF Walking
  <2> QED BY <1>4, <1>6, <2>1
<1>9. CASE seen.array = <<>> /\ lister.current = Nobody
  <2>1. lister' = Ended(seen)
    BY <1>1, <1>9
  <2>2. ToSet(<<>>) = {} /\ \A x \in Things : ~Follows(object_list[seen.class], Nobody, x)
    <3>1. object_list[seen.class] \in Seq(Things)
      BY <1>1, <1>2, <1>6 DEF ListingInv, ObjectsTypeOK, Lister
    <3> QED BY <3>1, ObjectsAssumption DEF ToSet, Follows
  <2>3. seen.steady \ seen.shown = {}
    BY <1>6, <1>7, <1>8, <1>9, <2>2 DEF Lister
  <2>4. Ended(seen).class = Null /\ Ended(seen).missed = {} /\ Ended(seen).twice = FALSE
    BY <1>6, <2>3 DEF Ended, NoLister
  <2>5. Ended(seen) \in Lister /\ Undisturbed(Ended(seen), type, stage, object_list)
    <3>1. Ended(seen) \in Lister
      BY <1>6, <2>3, NoListerType DEF Ended, Lister
    <3> QED BY <2>4, <3>1 DEF Undisturbed
  <2> QED BY <1>1, <2>1, <2>5, ListerKeeps
<1>10. CASE ~(seen.array = <<>> /\ lister.current = Nobody)
  <2>1. lister' = seen
    BY <1>1, <1>10
  <2>2. seen.current # Nobody => stage[seen.current] = "in" /\ type[seen.current] = seen.class
    BY <1>2, <1>6 DEF Walking
  <2>3. Walking(seen, type, stage, object_list)
    BY <1>4, <1>6, <1>8, <1>10, <2>2 DEF Walking
  <2>4. Undisturbed(seen, type, stage, object_list)
    BY <1>6, <2>3 DEF Undisturbed
  <2> QED BY <1>1, <1>7, <2>1, <2>4, ListerKeeps
<1> QED BY <1>9, <1>10

-----------------------------------------------------------------------------
LEMMA ObjectsStepKeeps == ListingInv /\ [ObjectsNext]_objVars => ListingInv'
<1> SUFFICES ASSUME ListingInv, [ObjectsNext]_objVars PROVE ListingInv'
  OBVIOUS
<1>1. CASE UNCHANGED objVars
  BY <1>1 DEF objVars, ListingInv, ObjectsTypeOK
<1>2. CASE ObjectsNext
  <2>1. ~lister.adrift /\ ~lister.twice
    BY <1>2 DEF ObjectsNext
  <2>2. ASSUME NEW o \in Things, NEW c \in Classes, rt_object_init(o, c) \/ rt_object_allocate(o, c) PROVE ListingInv'
    BY <2>1, <2>2, SetTypeKeeps DEF rt_object_init, rt_object_allocate
  <2>3. ASSUME NEW o \in Things, InsertObject(o) \/ rt_object_detach(o) \/ RemoveObject(o) PROVE ListingInv'
    BY <2>1, <2>3, InsertKeeps, DetachKeeps, RemoveKeeps
  <2>4. ASSUME \/ list_thread \/ list_sem \/ list_event \/ list_mutex \/ list_mailbox \/ list_msgqueue
               \/ list_memheap \/ list_mempool \/ list_timer \/ list_device
        PROVE  ListingInv'
    <3>1. PICK c \in AllClasses : Listing(c)
      BY <2>4 DEF list_thread, list_sem, list_event, list_mutex, list_mailbox, list_msgqueue, list_memheap,
                  list_mempool, list_timer, list_device, AllClasses
    <3> QED BY <3>1, ListingKeeps
  <2>5. ASSUME ShowObject \/ NextObjects PROVE ListingInv'
    BY <2>1, <2>5, ShowKeeps, NextObjectsKeeps
  <2> QED BY <1>2, <2>2, <2>3, <2>4, <2>5 DEF ObjectsNext
<1> QED BY <1>1, <1>2

\* The lists hold exactly the registered objects, each once and under its class, but for those
\* that are on their way in or out; a listing under way has shown or will come to every object
\* that stays, and to none that it has shown (object.c, cmd.c list_get_next).
THEOREM ListsStayWhole == ObjectsSpec => []ListingInv
BY ListingInitially, ObjectsStepKeeps, PTL DEF ObjectsSpec

\* Whatever objects come and go, and wherever the lister is interrupted: a listing shows every
\* object that was registered all the while, and none twice, as long as the nodes that it holds
\* on to are not taken away (cmd.c list_get_next and the commands that call it).
THEOREM ListingsAreComplete == ObjectsSpec => []ListingComplete
<1>1. ListingInv => ListingComplete
  BY DEF ListingInv, Undisturbed, ListingComplete
<1> QED BY <1>1, ListsStayWhole, PTL
=============================================================================
