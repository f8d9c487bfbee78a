---------------------------- MODULE SemaphoreProofs ----------------------------
(***************************************************************************)
(* The semaphores of the kernel implement CountingSemaphore: every step of *)
(* a thread or of the timer interrupt is, for each semaphore, a step of    *)
(* the abstract one, or changes nothing of it.                             *)
(***************************************************************************)
EXTENDS Semaphores, ListProofs

\* Thread x is in rt_sem_take, and has waited or waits.
Taking(x) == pc[x] \in {"schedule", "return"} /\ Call(x).op = "take"

\* Thread x has ended, or is being taken out of the lists for good.
Gone(x) == k.stat[x] = "close" \/ Detaching(x)

\* A thread that waits has no error yet; one whose timer runs in rt_sem_take still waits.
Sound(x) ==
  /\ Waiting(k, x) # {} => k.error[x] = "ok"
  /\ x \in k.activated /\ Taking(x) => Waiting(k, x) # {} \/ Gone(x)

\* A step leaves thread x what it is to the semaphores.
Quiet(x) ==
  /\ Taking(x)' <=> Taking(x)
  /\ Taking(x) =>
       /\ Call(x)' = Call(x) /\ k'.error[x] = k.error[x] /\ Waiting(k', x) = Waiting(k, x)
       /\ Gone(x)' <=> Gone(x)
       /\ x \in k'.activated => x \in k.activated

Step(o) == [Abstract(o)!Next]_(Abstract(o)!vars)

\* What is to be shown of each step.
Implements == (\A x \in Thread : Sound(x)') /\ (\A o \in Semaphore : Step(o))

-----------------------------------------------------------------------------
(***************************************************************************)
(* The steps of the abstract semaphore.                                    *)
(***************************************************************************)
LEMMA OutcomeSame ==
  ASSUME NEW o, \A x \in Thread : Ended(o, x)' = Ended(o, x) PROVE Outcome(o)' = Outcome(o)
BY DEF Outcome

LEMMA OutcomeOf ==
  ASSUME NEW o, NEW h \in Thread, \A x \in Thread \ {h} : Ended(o, x)' = Ended(o, x)
  PROVE  Outcome(o)' = [Outcome(o) EXCEPT ![h] = Ended(o, h)']
BY DEF Outcome

LEMMA Stutters ==
  ASSUME NEW o, k'.value[o] = k.value[o], k'.waiting[o] = k.waiting[o], Outcome(o)' = Outcome(o)
  PROVE  Step(o)
BY DEF Step, Abstract!vars

LEMMA TakesToken ==
  ASSUME NEW o, k.value[o] > 0, k'.value[o] = k.value[o] - 1, k'.waiting[o] = k.waiting[o],
         Outcome(o)' = Outcome(o)
  PROVE  Step(o)
BY DEF Step, Abstract!Next, Abstract!Take

LEMMA CountsToken ==
  ASSUME NEW o, k.waiting[o] = <<>>, k.value[o] < ValueMax, k'.value[o] = k.value[o] + 1,
         k'.waiting[o] = k.waiting[o], Outcome(o)' = Outcome(o)
  PROVE  Step(o)
BY DEF Step, Abstract!Next, Abstract!Release

\* The first thread of the list gets the token, or is sent away.
LEMMA ServesFirst ==
  ASSUME NEW o, k.waiting[o] # <<>>, k'.waiting[o] = Tail(k.waiting[o]), k'.value[o] = k.value[o],
         NEW how \in {"granted", "error"}, Outcome(o)' = [Outcome(o) EXCEPT ![Head(k.waiting[o])] = how]
  PROVE  Step(o)
<1>1. CASE how = "granted" BY <1>1 DEF Step, Abstract!Next, Abstract!Release
<1>2. CASE how = "error" BY <1>2 DEF Step, Abstract!Next, Abstract!Dismiss
<1> QED BY <1>1, <1>2

\* Thread h is taken out of the list at position m.
Cut(o, h, m) ==
  LET q == k.waiting[o] IN
  m \in DOMAIN q /\ q[m] = h /\ k'.waiting[o] = SubSeq(q, 1, m - 1) \o SubSeq(q, m + 1, Len(q))

LEMMA TimesOut ==
  ASSUME NEW o, NEW h \in Thread, NEW m, Cut(o, h, m), k'.value[o] = k.value[o],
         Outcome(o)' = [Outcome(o) EXCEPT ![h] = "timeout"]
  PROVE  Step(o)
<1>1. Abstract(o)!Leaves(h) BY DEF Abstract!Leaves, Cut
<1>2. Abstract(o)!Timeout(h) BY <1>1 DEF Abstract!Timeout
<1> QED BY <1>2 DEF Step, Abstract!Next

LEMMA CeasesWaiting ==
  ASSUME NEW o, NEW h \in Thread, NEW m, Cut(o, h, m), k'.value[o] = k.value[o], Ended(o, h) # "none",
         Outcome(o)' = [Outcome(o) EXCEPT ![h] = "gone"]
  PROVE  Step(o)
<1>1. Abstract(o)!Leaves(h) /\ Abstract(o)!Waits(h) BY DEF Abstract!Leaves, Abstract!Waits, Cut
<1>2. Outcome(o)[h] # "none" BY DEF Outcome
<1>3. Abstract(o)!Cease(h) BY <1>1, <1>2 DEF Abstract!Cease
<1> QED BY <1>3 DEF Step, Abstract!Next

LEMMA CeasesElsewhere ==
  ASSUME NEW o, NEW h \in Thread, h \notin Range(k.waiting[o]), k'.waiting[o] = k.waiting[o],
         k'.value[o] = k.value[o], Ended(o, h) # "none",
         Outcome(o)' = [Outcome(o) EXCEPT ![h] = "gone"]
  PROVE  Step(o)
<1>1. ~Abstract(o)!Waits(h) BY DEF Abstract!Waits, Range
<1>2. Outcome(o)[h] # "none" BY DEF Outcome
<1>3. Abstract(o)!Cease(h) BY <1>1, <1>2 DEF Abstract!Cease
<1> QED BY <1>3 DEF Step, Abstract!Next

LEMMA Returns ==
  ASSUME NEW o, NEW h \in Thread, Ended(o, h) \in {"granted", "timeout", "error"},
         k'.waiting[o] = k.waiting[o], k'.value[o] = k.value[o],
         Outcome(o)' = [Outcome(o) EXCEPT ![h] = "none"]
  PROVE  Step(o)
<1>1. Outcome(o)[h] \in {"granted", "timeout", "error"} BY DEF Outcome
<1>2. Abstract(o)!Return(h) BY <1>1 DEF Abstract!Return
<1> QED BY <1>2 DEF Step, Abstract!Next

\* Position i of list q is where thread h waits by its priority, or behind all.
Placed(s, o, h, i) ==
  LET q == s.waiting[o] IN
  /\ i = Len(q) + 1 \/ (o \in ByPriority /\ s.priority[h] < s.priority[q[i]])
  /\ o \in ByPriority => \A j \in 1 .. i - 1 : s.priority[q[j]] <= s.priority[h]

LEMMA BeginsToWait ==
  ASSUME NEW o, NEW h \in Thread, k.value[o] = 0, k'.value[o] = k.value[o], Ended(o, h) = "none",
         NEW i \in 1 .. Len(k.waiting[o]) + 1, Placed(k, o, h, i),
         k'.waiting[o] = InsertAt(k.waiting[o], i, h),
         Outcome(o)' = [Outcome(o) EXCEPT ![h] = "waiting"]
  PROVE  Step(o)
<1>1. Outcome(o)[h] = "none" BY DEF Outcome
<1>2. Abstract(o)!Wait(h) BY <1>1 DEF Abstract!Wait, Placed, InsertAt
<1> QED BY <1>2 DEF Step, Abstract!Next

LEMMA SendsAllAway ==
  ASSUME NEW o, k'.value[o] \in 0 .. ValueMax, k'.waiting[o] = <<>>,
         \A x \in Thread : Ended(o, x)' = IF x \in Range(k.waiting[o]) THEN "error" ELSE Ended(o, x)
  PROVE  Step(o)
<1>1. \A x \in Thread : Abstract(o)!Waits(x) <=> x \in Range(k.waiting[o]) BY DEF Abstract!Waits, Range
<1>2. \A x \in Thread : Outcome(o)[x] = Ended(o, x) BY DEF Outcome
<1>3. Outcome(o)' = [x \in Thread |-> IF Abstract(o)!Waits(x) THEN "error" ELSE Outcome(o)[x]]
  BY <1>1, <1>2 DEF Outcome
<1>4. Abstract(o)!Reset BY <1>3 DEF Abstract!Reset
<1> QED BY <1>4 DEF Step, Abstract!Next

-----------------------------------------------------------------------------
(***************************************************************************)
(* Lists without one thread, and the place of a thread in a list.          *)
(***************************************************************************)
LEMMA RemoveFirstCuts ==
  ASSUME NEW T, NEW q \in Seq(T), NEW v \in Range(q)
  PROVE  \E m \in DOMAIN q : q[m] = v /\ RemoveFirst(q, v) = SubSeq(q, 1, m - 1) \o SubSeq(q, m + 1, Len(q))
<1> DEFINE I == {i \in 1 .. Len(q) : q[i] = v}
           m == Min(I)
<1>1. DOMAIN q = 1 .. Len(q) /\ I \in SUBSET Nat /\ I # {} BY DEF Range
<1>2. m \in I BY <1>1, Smallest DEF Min
<1>3. RemoveFirst(q, v) = SubSeq(q, 1, m - 1) \o SubSeq(q, m + 1, Len(q))
  BY <1>1 DEF RemoveFirst, RemoveAt, SelectInSeq
<1> QED BY <1>1, <1>2, <1>3

LEMMA RemoveHead ==
  ASSUME NEW T, NEW q \in Seq(T), NoDuplicates(q), q # <<>> PROVE RemoveFirst(q, Head(q)) = Tail(q)
<1> DEFINE r == RemoveFirst(q, Head(q))
<1>0. DOMAIN q = 1 .. Len(q) /\ Len(q) \in Nat /\ 1 \in DOMAIN q /\ Head(q) = q[1] BY EmptySeq
<1>1. Head(q) \in Range(q) BY <1>0 DEF Range
<1>2. PICK m \in 1 .. Len(q) : /\ q[m] = Head(q) /\ r \in Seq(T) /\ Len(r) = Len(q) - 1
                               /\ \A i \in 1 .. Len(q) - 1 : r[i] = IF i < m THEN q[i] ELSE q[i + 1]
  BY <1>1, RemoveFirstAt
<1>3. m = 1 BY <1>0, <1>2 DEF NoDuplicates, IsInjective
<1> HIDE DEF r
<1>4. Tail(q) \in Seq(T) /\ Len(Tail(q)) = Len(q) - 1 /\ \A i \in 1 .. Len(q) - 1 : Tail(q)[i] = q[i + 1]
  BY <1>0, HeadTailProperties
<1>5. \A i \in 1 .. Len(q) - 1 : Tail(q)[i] = r[i] BY <1>0, <1>2, <1>3, <1>4
<1>6. Tail(q) = r BY <1>0, <1>2, <1>4, <1>5, SeqEqual
<1> QED BY <1>6 DEF r

\* Only the lists in which the thread waits change when it is taken out of them.
LEMMA WithoutElsewhere ==
  ASSUME NEW s, Listed(s), NEW x, NEW o \in WaitList, o \notin Waiting(s, x)
  PROVE  Without(s.waiting, x)[o] = s.waiting[o]
<1>1. s.waiting[o] \in Seq(Thread) /\ x \notin Range(s.waiting[o]) BY DEF Listed, Waiting
<1> QED BY <1>1, NotInside DEF Without

LEMMA WithoutNobody ==
  ASSUME NEW s, Listed(s), NEW x, Waiting(s, x) = {} PROVE Without(s.waiting, x) = s.waiting
<1>1. \A o \in WaitList : Without(s.waiting, x)[o] = s.waiting[o] BY WithoutElsewhere
<1>2. s.waiting \in [WaitList -> Seq(Thread)] BY DEF Listed
<1>3. s.waiting = [o \in WaitList |-> s.waiting[o]] BY <1>2
<1>4. Without(s.waiting, x) = [o \in WaitList |-> Without(s.waiting, x)[o]] BY DEF Without
<1> QED BY <1>1, <1>3, <1>4

\* rt_ipc_list_suspend keeps the order of the priorities.
LEMMA PlaceKeepsOrder ==
  ASSUME NEW s, NEW o, s.waiting[o] \in Seq(Thread), NEW t \in Thread, s.priority \in [Thread -> Priority]
  PROVE  Placed(s, o, t, Place(s, o, t))
<1> DEFINE q == s.waiting[o]
           lower == {i \in DOMAIN q : s.priority[t] < s.priority[q[i]]}
           least(i) == \A j \in lower : i <= j
<1>0. DOMAIN q = 1 .. Len(q) /\ Len(q) \in Nat /\ \A i \in DOMAIN q : s.priority[q[i]] \in Int
  BY DEF Priority
<1>1. s.priority[t] \in Int BY DEF Priority
<1>2. Place(s, o, t) = IF o \in ByPriority /\ lower # {} THEN CHOOSE i \in lower : least(i) ELSE Len(q) + 1
  BY DEF Place
<1>3. CASE o \in ByPriority /\ lower # {}
  <2>1. lower \in SUBSET Nat BY <1>0
  <2>2. \E i \in lower : least(i) BY <1>3, <2>1, Smallest
  <2>3. PICK i \in lower : least(i) /\ i = Place(s, o, t) BY <1>2, <1>3, <2>2
  <2>4. \A j \in 1 .. i - 1 : j \in DOMAIN q /\ j \notin lower BY <1>0, <2>1, <2>3
  <2>5. \A j \in 1 .. i - 1 : s.priority[q[j]] <= s.priority[t] BY <1>0, <1>1, <2>4
  <2> QED BY <1>3, <2>3, <2>5 DEF Placed
<1>4. CASE ~(o \in ByPriority /\ lower # {})
  <2>1. Place(s, o, t) = Len(q) + 1 BY <1>2, <1>4
  <2>2. o \in ByPriority => \A j \in 1 .. Len(q) : s.priority[q[j]] <= s.priority[t]
    BY <1>0, <1>1, <1>4
  <2>3. (Len(q) + 1) - 1 = Len(q) BY <1>0
  <2> QED BY <2>1, <2>2, <2>3 DEF Placed
<1> QED BY <1>3, <1>4

-----------------------------------------------------------------------------
(***************************************************************************)
(* What a step does to the outcome of a thread's wait.                     *)
(***************************************************************************)
LEMMA EndedIs ==
  ASSUME NEW o \in Semaphore, NEW x
  PROVE  /\ Listed(k) =>
              Ended(o, x) = IF ~(Taking(x) /\ Call(x).on = o) THEN "none"
                            ELSE IF o \in Waiting(k, x) THEN "waiting"
                            ELSE IF Gone(x) THEN "gone"
                            ELSE IF k.error[x] = "ok" THEN "granted" ELSE k.error[x]
         /\ Listed(k)' =>
              Ended(o, x)' = IF ~(Taking(x)' /\ Call(x)'.on = o) THEN "none"
                             ELSE IF o \in Waiting(k', x) THEN "waiting"
                             ELSE IF Gone(x)' THEN "gone"
                             ELSE IF k'.error[x] = "ok" THEN "granted" ELSE k'.error[x]
<1>1. \A q \in Seq(Thread) : Contains(q, x) <=> x \in Range(q) BY DEF Contains, Range
<1>2. \A s : Listed(s) => (Contains(s.waiting[o], x) <=> o \in Waiting(s, x))
  BY <1>1 DEF Listed, Waiting, WaitList
<1>3. Listed(k)' <=> Listed(k') BY DEF Listed
<1> QED BY <1>2, <1>3 DEF Ended, Taking, Gone

LEMMA QuietEnded ==
  ASSUME Listed(k), Listed(k'), NEW x, Quiet(x), NEW o \in Semaphore PROVE Ended(o, x)' = Ended(o, x)
<1>1. Listed(k)' BY DEF Listed
<1> QED BY <1>1, EndedIs DEF Quiet

LEMMA QuietSound == ASSUME NEW x, Sound(x), Quiet(x), Seated(x)' PROVE Sound(x)'
<1>1. Waiting(k', x) # {} => Taking(x)' BY DEF Seated, Taking
<1>2. Waiting(k, x)' = Waiting(k', x) BY DEF Waiting
<1> QED BY <1>1, <1>2 DEF Quiet, Sound

\* Nothing happens to a semaphore that keeps its list, its value and all outcomes.
LEMMA QuietStep ==
  ASSUME Listed(k), Listed(k'), NEW o \in Semaphore, k'.waiting[o] = k.waiting[o], k'.value[o] = k.value[o],
         \A x \in Thread : Quiet(x)
  PROVE  Step(o)
BY QuietEnded, OutcomeSame, Stutters

LEMMA QuietImplements ==
  ASSUME Waits, Waits', \A x \in Thread : Sound(x) /\ Quiet(x),
         \A o \in Semaphore : k'.waiting[o] = k.waiting[o] /\ k'.value[o] = k.value[o]
  PROVE  Implements
<1>1. Listed(k) /\ Listed(k') BY DEF Waits, Listed
<1>2. \A o \in Semaphore : Step(o) BY <1>1, QuietStep
<1>3. \A x \in Thread : Seated(x)' BY DEF Waits
<1> QED BY <1>2, <1>3, QuietSound DEF Implements

\* A token is taken, or counted because nobody waits.
LEMMA CountImplements ==
  ASSUME Waits, Waits', \A x \in Thread : Sound(x) /\ Quiet(x), Plain(k),
         k'.waiting = k.waiting, NEW o \in Semaphore, NEW n \in Nat, k'.value = [k.value EXCEPT ![o] = n],
         \/ n = k.value[o]
         \/ n = k.value[o] - 1 /\ k.value[o] > 0
         \/ n = k.value[o] + 1 /\ k.value[o] < ValueMax /\ k.waiting[o] = <<>>
  PROVE  Implements
<1>1. Listed(k) /\ Listed(k') BY DEF Waits, Listed
<1>2. \A a \in Semaphore : Outcome(a)' = Outcome(a) BY <1>1, QuietEnded, OutcomeSame
<1>3. \A a \in Semaphore : k'.value[a] = IF a = o THEN n ELSE k.value[a] BY DEF Plain
<1>4. ASSUME NEW a \in Semaphore, a # o PROVE Step(a) BY <1>2, <1>3, <1>4, Stutters
<1>5. Step(o) BY <1>2, <1>3, Stutters, TakesToken, CountsToken
<1>6. \A x \in Thread : Seated(x)' BY DEF Waits
<1> QED BY <1>4, <1>5, <1>6, QuietSound DEF Implements

LEMMA CutOut ==
  ASSUME Listed(k), NEW o \in WaitList, NEW h, o \in Waiting(k, h), k'.waiting = Without(k.waiting, h)
  PROVE  \E m : Cut(o, h, m)
<1>1. PICK q \in Seq(Thread) : q = k.waiting[o] BY DEF Listed
<1>2. h \in Range(q) /\ k'.waiting[o] = RemoveFirst(q, h) BY <1>1 DEF Waiting, Without
<1>3. PICK m \in DOMAIN q : q[m] = h /\ RemoveFirst(q, h) = SubSeq(q, 1, m - 1) \o SubSeq(q, m + 1, Len(q))
  BY <1>2, RemoveFirstCuts
<1>4. Cut(o, h, m) BY <1>1, <1>2, <1>3 DEF Cut
<1> QED BY <1>4

\* A thread that waits, and is first or has waited long enough, ends its wait.
LEMMA EndImplements ==
  ASSUME Waits, Waits', NEW h \in Thread, NEW o \in Semaphore, o \in Waiting(k, h),
         \A x \in Thread : Sound(x), \A x \in Thread \ {h} : Quiet(x),
         Taking(h)', Call(h)' = Call(h), ~Gone(h)', InNoList(k', h),
         k'.waiting = Without(k.waiting, h), k'.value = k.value,
         \/ k'.error[h] = "timeout"
         \/ k'.error[h] \in {"ok", "error"} /\ h = Head(k.waiting[o])
  PROVE  Implements
<1>1. Listed(k) /\ Listed(k') BY DEF Waits, Listed
<1>2. Taking(h) /\ Call(h).on = o /\ Waiting(k, h) = {o} BY DEF Waits, Seated, Taking
<1>3. \A x \in Thread : Seated(x)' BY DEF Waits
<1>4. Sound(h)'
  <2>1. Waiting(k, h)' = Waiting(k', h) BY DEF Waiting
  <2> QED BY <2>1 DEF Sound, InNoList
<1>5. ASSUME NEW a \in Semaphore, a # o PROVE Step(a)
  <2>1. k'.waiting[a] = k.waiting[a] BY <1>1, <1>2, <1>5, WithoutElsewhere DEF WaitList
  <2>2. Ended(a, h)' = "none" /\ Ended(a, h) = "none" BY <1>1, <1>2, <1>5, EndedIs DEF Listed
  <2>3. \A x \in Thread : Ended(a, x)' = Ended(a, x) BY <1>1, <2>2, QuietEnded
  <2> QED BY <2>1, <2>3, OutcomeSame, Stutters
<1>6. Ended(o, h)' = IF k'.error[h] = "ok" THEN "granted" ELSE k'.error[h]
  <2>1. Listed(k)' /\ o \notin Waiting(k', h) BY <1>1 DEF Listed, InNoList
  <2> QED BY <1>2, <2>1, EndedIs
<1>7. Outcome(o)' = [Outcome(o) EXCEPT ![h] = Ended(o, h)'] BY <1>1, QuietEnded, OutcomeOf
<1>8. /\ k.waiting[o] \in Seq(Thread) /\ NoDuplicates(k.waiting[o]) /\ h \in Range(k.waiting[o])
      /\ k'.waiting[o] = RemoveFirst(k.waiting[o], h) /\ k.waiting[o] # <<>>
  <2>1. k.waiting[o] \in Seq(Thread) /\ NoDuplicates(k.waiting[o]) /\ h \in Range(k.waiting[o])
    BY <1>1 DEF Listed, Waiting, WaitList
  <2>2. k'.waiting[o] = RemoveFirst(k.waiting[o], h) BY DEF Without, WaitList
  <2> QED BY <2>1, <2>2, EmptyRange
<1>9. Step(o)
  <2>1. CASE k'.error[h] = "timeout"
    <3>1. \E m : Cut(o, h, m) BY <1>1, CutOut DEF WaitList
    <3>2. Ended(o, h)' = "timeout" BY <1>6, <2>1
    <3> QED BY <1>7, <3>1, <3>2, TimesOut
  <2>2. CASE k'.error[h] \in {"ok", "error"} /\ h = Head(k.waiting[o])
    <3>1. k'.waiting[o] = Tail(k.waiting[o]) BY <1>8, <2>2, RemoveHead
    <3>2. Ended(o, h)' \in {"granted", "error"} BY <1>6, <2>2
    <3> QED BY <1>7, <1>8, <2>2, <3>1, <3>2, ServesFirst
  <2> QED BY <2>1, <2>2
<1>10. \A x \in Thread \ {h} : Sound(x)' BY <1>3, QuietSound
<1> QED BY <1>4, <1>5, <1>9, <1>10 DEF Implements

\* A thread ceases to exist, wherever it is.
LEMMA CeaseImplements ==
  ASSUME Waits, Waits', NEW h \in Thread, Plain(k),
         \A x \in Thread : Sound(x), \A x \in Thread \ {h} : Quiet(x),
         Taking(h)' <=> Taking(h), Taking(h) => Call(h)' = Call(h), Gone(h)', Waiting(k', h) = {},
         k'.waiting = Without(k.waiting, h), k'.value = k.value
  PROVE  Implements
<1>1. Listed(k) /\ Listed(k') /\ Listed(k)' BY DEF Waits, Listed
<1>2. \A x \in Thread : Seated(x)' BY DEF Waits
<1>3. Sound(h)'
  <2>1. Waiting(k, h)' = Waiting(k', h) BY DEF Waiting
  <2> QED BY <2>1 DEF Sound
<1>4. \A x \in Thread \ {h} : Sound(x)' BY <1>2, QuietSound
<1>5. ASSUME NEW o \in Semaphore PROVE Step(o)
  <2>1. CASE Taking(h) /\ Call(h).on = o
    <3>1. Ended(o, h)' = "gone" BY <1>1, <2>1, EndedIs
    <3>2. Outcome(o)' = [Outcome(o) EXCEPT ![h] = "gone"] BY <1>1, <3>1, QuietEnded, OutcomeOf
    <3>3. Ended(o, h) # "none"
      <4>1. k.error[h] # "none" BY DEF Plain, Errors
      <4> QED BY <1>1, <2>1, <4>1, EndedIs
    <3>4. CASE o \in Waiting(k, h)
      <4>1. \E m : Cut(o, h, m) BY <1>1, <3>4, CutOut DEF WaitList
      <4> QED BY <3>2, <3>3, <4>1, CeasesWaiting
    <3>5. CASE o \notin Waiting(k, h)
      <4>1. h \notin Range(k.waiting[o]) /\ k'.waiting[o] = k.waiting[o]
        BY <1>1, <3>5, WithoutElsewhere DEF Waiting, WaitList
      <4> QED BY <3>2, <3>3, <4>1, CeasesElsewhere
    <3> QED BY <3>4, <3>5
  <2>2. CASE ~(Taking(h) /\ Call(h).on = o)
    <3>1. Ended(o, h) = "none" /\ Ended(o, h)' = "none" BY <1>1, <2>2, EndedIs
    <3>2. \A x \in Thread : Ended(o, x)' = Ended(o, x) BY <1>1, <3>1, QuietEnded
    <3>3. o \notin Waiting(k, h) BY <2>2 DEF Waits, Seated, Taking
    <3>4. k'.waiting[o] = k.waiting[o] BY <1>1, <3>3, WithoutElsewhere DEF WaitList
    <3> QED BY <3>2, <3>4, OutcomeSame, Stutters
  <2> QED BY <2>1, <2>2
<1> QED BY <1>3, <1>4, <1>5 DEF Implements

-----------------------------------------------------------------------------
(***************************************************************************)
(* What a step leaves as it is.                                            *)
(***************************************************************************)
\* Threads wait for semaphores only.
LEMMA WaitForSemaphores ==
  ASSUME NEW C, Proper(C), CallsOK(C), Waits, NEW x \in Thread PROVE Waiting(k, x) \subseteq Semaphore
<1>1. Waiting(k, x) # {} => calls[x] # <<>> /\ Call(x).op = "take" /\ Waiting(k, x) \subseteq {Call(x).on}
  BY DEF Waits, Seated
<1>2. calls[x] # <<>> => ProperCall(Call(x)) BY Called DEF CallsOK
<1> QED BY <1>1, <1>2 DEF ProperCall

\* A thread that waits is not being detached.
LEMMA WaiterIsHere == ASSUME Waits, NEW x \in Thread, Waiting(k, x) # {} PROVE ~Gone(x)
<1>1. \A y \in Thread : pc[y] \in {"detach_timer", "detach_close"} => Call(y).on # x
  BY DEF Waits, Aims, InNoList
<1>2. k.stat[x] = "suspend" BY DEF Waits, Seated
<1> QED BY <1>1, <1>2 DEF Gone, Detaching

LEMMA DetachingKept ==
  ASSUME NEW t, \A y \in Thread \ {t} : pc'[y] = pc[y] /\ calls'[y] = calls[y], ~Detaches(t), ~Detaches(t)'
  PROVE  \A x : Detaching(x)' <=> Detaching(x)
BY DEF Detaching, Detaches, Call

LEMMA OthersQuiet ==
  ASSUME NEW W, Moves(k, k', W), NEW x \in Thread \ W, pc'[x] = pc[x], calls'[x] = calls[x],
         k'.error[x] = k.error[x], Detaching(x)' <=> Detaching(x)
  PROVE  Quiet(x)
BY DEF Moves, Same, Quiet, Taking, Gone, Call

LEMMA MovedQuiet ==
  ASSUME NEW x \in Thread, pc'[x] = pc[x], calls'[x] = calls[x],
         Taking(x) => /\ k'.error[x] = k.error[x] /\ Waiting(k', x) = Waiting(k, x)
                      /\ Gone(x)' <=> Gone(x)
                      /\ x \in k'.activated => x \in k.activated
  PROVE  Quiet(x)
BY DEF Quiet, Taking, Call

\* A step in which thread x moves, and at most thread t goes on, which is not in rt_sem_take.
LEMMA MoveImplements ==
  ASSUME Waits, Waits', \A y \in Thread : Sound(y), NEW t,
         \A y \in Thread \ {t} : pc'[y] = pc[y] /\ calls'[y] = calls[y] /\ k'.error[y] = k.error[y],
         \A y \in Thread \ {t} : Detaching(y)' <=> Detaching(y),
         t \in Thread => ~Taking(t) /\ ~Taking(t)',
         NEW x, Moves(k, k', {x}), k'.waiting = k.waiting, k'.value = k.value,
         x \in Thread \ {t} /\ Taking(x) => /\ k'.stat[x] = "close" <=> k.stat[x] = "close"
                                            /\ x \in k'.activated => x \in k.activated
  PROVE  Implements
<1>1. ASSUME t \in Thread PROVE Quiet(t) BY <1>1 DEF Quiet
<1>2. ASSUME NEW y \in Thread \ {t}, y # x PROVE Quiet(y) BY <1>2, OthersQuiet
<1>3. ASSUME x \in Thread \ {t} PROVE Quiet(x)
  <2>1. Waiting(k', x) = Waiting(k, x) BY DEF Waiting
  <2>2. Taking(x) => (Gone(x)' <=> Gone(x)) BY <1>3 DEF Gone
  <2> QED BY <1>3, <2>1, <2>2, MovedQuiet
<1> QED BY <1>1, <1>2, <1>3, QuietImplements

-----------------------------------------------------------------------------
(***************************************************************************)
(* The steps of threads.                                                   *)
(***************************************************************************)
\* What holds before a step, and that the threads are where they belong after it.
SemStep(C) ==
  /\ CallsOK(C) /\ QueuesOK(k) /\ Waits /\ Waits' /\ Plain(k)
  /\ Orderly /\ WaitsUndisturbed
  /\ \A x \in Thread : Sound(x)

\* The steps of threads that leave all semaphores as they are.
LEMMA OrdinaryStepImplements ==
  ASSUME NEW C, Proper(C), SemStep(C), Prompt, NEW t \in Thread, t = k.current, ThreadStep(t),
         ~Schedule(t), ~Detach(t), ~DetachRemove(t), ~DetachTimer(t), ~DetachClose(t),
         ~Take(t), ~TakeReturn(t), ~Poll(t), ~SemRelease(t), ~Reset(t), ~DrainOne(t)
  PROVE  Implements
<1> DEFINE c == Call(t)
<1>0. DOMAIN k = Fields /\ Listed(k) /\ \A x \in Thread : Seated(x) /\ Timed(x) /\ Queued(x) /\ Aims(x)
  BY DEF SemStep, QueuesOK, Waits
<1>1. pc[t] # "user" => calls[t] # <<>> /\ Fits(pc[t], c.op) BY DEF SemStep, CallsOK
<1>2. calls[t] # <<>> => ProperCall(c) BY Called DEF CallsOK, SemStep
<1>3. pc \in [Thread -> Label] /\ calls \in [Thread -> Seq(C)] BY DEF SemStep, CallsOK
<1>4. \A y \in Thread \ {t} : pc'[y] = pc[y] /\ calls'[y] = calls[y]
  BY <1>1, <1>3, CallEffect DEF Stay, Return, Goto
<1>5. pc[t] \notin {"schedule", "return"} => Waiting(k, t) = {} BY <1>0 DEF Seated
<1>6. ~About(t) => ~Out(k, t) /\ k.stat[t] = "ready" /\ Waiting(k, t) = {} /\ t \notin k.activated
  BY Running DEF SemStep
<1>7. ASSUME NEW x, Moves(k, k', {x}), k'.waiting = k.waiting, k'.value = k.value,
             \A y \in Thread \ {t} : k'.error[y] = k.error[y],
             ~Detaches(t), ~Detaches(t)', ~Taking(t), ~Taking(t)',
             x \in Thread \ {t} /\ Taking(x) => /\ k'.stat[x] = "close" <=> k.stat[x] = "close"
                                                /\ x \in k'.activated => x \in k.activated
      PROVE  Implements
  <2>1. \A y \in Thread \ {t} : pc'[y] = pc[y] /\ calls'[y] = calls[y] /\ k'.error[y] = k.error[y]
    BY <1>4, <1>7
  <2>2. \A y \in Thread \ {t} : Detaching(y)' <=> Detaching(y) BY <1>4, <1>7, DetachingKept
  <2> QED BY <1>7, <2>1, <2>2, MoveImplements DEF SemStep
<1>8. ASSUME Moves(k, k', {}), k'.waiting = k.waiting, k'.value = k.value,
             \A y \in Thread \ {t} : k'.error[y] = k.error[y],
             ~Detaches(t), ~Detaches(t)', ~Taking(t), ~Taking(t)'
      PROVE  Implements
  <2>1. Moves(k, k', {t}) BY <1>8 DEF Moves
  <2> QED BY <1>7, <1>8, <2>1
<1>9. ASSUME NEW l, Goto(t, l) PROVE pc'[t] = l /\ calls'[t] = calls[t] /\ Call(t)' = c
  BY <1>3, <1>9 DEF Goto, Call
<1>10. ASSUME Return(t) PROVE pc'[t] = "user" BY <1>3, <1>10 DEF Return
<1> HIDE DEF c
<1>11. CASE \/ CallSchedule(t) \/ SleepReturn(t) \/ Suspend(t) \/ Resume(t) \/ EnterCritical(t)
            \/ ExitCritical(t) \/ SemDetach(t) \/ Drain(t) \/ SetTime(t)
            \/ StopTimer(t) \/ (Yield(t) /\ UNCHANGED k)
  <2>1. Changes(k, k', Processor \cup {"error", "lock_nest", "init_tick"})
    <3>1. CASE CallSchedule(t) BY <1>0, <1>11, <3>1, SwitchEffect DEF CallSchedule, Changes
    <3>2. CASE ~CallSchedule(t)
      BY <1>0, <1>11, <3>2
         DEF SleepReturn, Suspend, Resume, EnterCritical, ExitCritical, SemDetach, Drain,
             SetTime, StopTimer, Yield, Changes, Fields
    <3> QED BY <3>1, <3>2
  <2>2. Moves(k, k', {}) BY <1>0, <2>1, NobodyMoves DEF Processor
  <2>3. k'.waiting = k.waiting /\ k'.value = k.value BY <2>1 DEF Changes, Processor, Fields
  <2>4. \A y \in Thread \ {t} : k'.error[y] = k.error[y]
    <3>1. CASE SleepReturn(t)
      <4>1. k'.error = [k.error EXCEPT ![t] = IF @ = "timeout" THEN "ok" ELSE @]
        BY <1>0, <3>1 DEF SleepReturn, Fields
      <4> QED BY <4>1 DEF SemStep, Plain
    <3>2. CASE CallSchedule(t)
      <4>1. Changes(k, k', Processor) BY <1>0, <3>2, SwitchEffect DEF CallSchedule
      <4> QED BY <4>1 DEF Changes, Processor, Fields
    <3>3. CASE ~SleepReturn(t) /\ ~CallSchedule(t)
      BY <1>0, <1>11, <3>3
         DEF Suspend, Resume, EnterCritical, ExitCritical, SemDetach, Drain, SetTime, StopTimer, Yield, Fields
    <3> QED BY <3>1, <3>2, <3>3
  <2>5. ~Detaches(t) /\ ~Taking(t) /\ (pc[t] # "user" => c.op # "take")
    BY <1>1, <1>11 DEF CallSchedule, SleepReturn, Suspend, Resume, EnterCritical, ExitCritical,
                 SemDetach, Drain, SetTime, StopTimer, Yield, Calls, At, Detaches, Taking, Fits, c
  <2>6. ~Detaches(t)' /\ ~Taking(t)'
    <3>1. \/ Return(t)
          \/ \E l \in {"suspend_body", "resume_unlink", "drain", "drain_one", "stop_timer"} : Goto(t, l)
          \/ c.op \in {"exit_critical", "yield"} /\ Goto(t, "schedule")
      BY <1>11 DEF CallSchedule, SleepReturn, Suspend, Resume, EnterCritical, ExitCritical,
                   SemDetach, Drain, SetTime, StopTimer, Yield, Calls, c
    <3> QED BY <1>9, <1>10, <3>1 DEF Detaches, Taking
  <2> QED BY <1>8, <2>2, <2>3, <2>4, <2>5, <2>6
<1>12. CASE StartTimer(t)
  <2>1. c.op = "start_timer" /\ calls[t] # <<>> /\ pc[t] = "user" BY <1>12 DEF StartTimer, Calls, c
  <2>2. c.on \notin Thread BY <1>2, <2>1, SchedAssumption DEF ProperCall
  <2>3. k' = rt_timer_start(k, c.on, k.init_tick[c.on]) BY <1>12 DEF StartTimer, c
  <2>4. Moves(k, k', {c.on}) BY <1>0, <2>3, TimerMoves
  <2>5. Moves(k, k', {}) BY <2>2, <2>4 DEF Moves
  <2>6. Changes(k, k', TimerParts) BY <1>0, <2>3, StartEffect
  <2>7. k'.waiting = k.waiting /\ k'.value = k.value /\ k'.error = k.error
    BY <2>6 DEF Changes, TimerParts, Fields
  <2>8. ~Detaches(t) /\ ~Taking(t) /\ ~Detaches(t)' /\ ~Taking(t)'
    BY <1>10, <1>12, <2>1 DEF StartTimer, Detaches, Taking
  <2> QED BY <1>8, <2>5, <2>7, <2>8
<1>13. CASE Yield(t) /\ ~UNCHANGED k
  <2>1. k' = Rotate(k, t) /\ Goto(t, "schedule") /\ pc[t] = "user" /\ c.op = "yield"
    BY <1>13 DEF Yield, Calls, c
  <2>2. Moves(k, k', {t}) BY <1>0, <2>1, RotateMoves
  <2>3. k'.waiting = k.waiting /\ k'.value = k.value /\ k'.error = k.error
    BY <1>0, <2>1 DEF Rotate, Fields
  <2>4. ~Detaches(t) /\ ~Taking(t) /\ ~Detaches(t)' /\ ~Taking(t)'
    BY <1>9, <2>1 DEF Detaches, Taking
  <2> QED BY <1>7, <2>2, <2>3, <2>4
<1>14. CASE Sleep(t)
  <2> DEFINE u == SuspendReady(k, t)
  <2>1. Goto(t, "schedule") /\ ~About(t) /\ pc[t] = "user" /\ c.op = "sleep"
    BY <1>14 DEF Sleep, Calls, About, c
  <2>2. k' = rt_timer_start(u, t, c.arg) BY <1>6, <1>14, <2>1 DEF Sleep, rt_thread_suspend, c
  <2>3. Moves(k, u, {t}) BY <1>0, SuspendMoves
  <2>4. Changes(k, u, QueueParts \cup TimerParts \cup {"stat"}) /\ u.waiting = Without(k.waiting, t)
    BY <1>0, SuspendEffect
  <2> HIDE DEF u
  <2>5. Moves(u, k', {t}) BY <2>2, <2>3, TimerMoves DEF Moves
  <2>6. Changes(u, k', TimerParts) BY <2>2, <2>4, StartEffect DEF Changes
  <2>7. Moves(k, k', {t}) BY <2>3, <2>5 DEF Moves, Same
  <2>8. u.waiting = k.waiting BY <1>0, <1>6, <2>1, <2>4, WithoutNobody
  <2>9. u.value = k.value /\ u.error = k.error BY <2>4 DEF Changes, QueueParts, TimerParts, Fields
  <2>10. k'.waiting = k.waiting /\ k'.value = k.value /\ k'.error = k.error
    BY <2>6, <2>8, <2>9 DEF Changes, TimerParts, Fields
  <2>11. ~Detaches(t) /\ ~Taking(t) /\ ~Detaches(t)' /\ ~Taking(t)'
    BY <1>9, <2>1 DEF Detaches, Taking
  <2> QED BY <1>7, <2>7, <2>10, <2>11
<1>15. CASE Exit(t)
  <2> DEFINE u == rt_schedule_remove_thread(k, t)
             v == [u EXCEPT !.stat[t] = "close"]
             w == rt_timer_detach(v, t)
  <2>1. k' = rt_schedule(w) /\ Stay(t) /\ pc[t] = "user" BY <1>15 DEF Exit, At
  <2>2. Moves(k, u, {t}) BY <1>0, RemoveMoves
  <2>3. Changes(k, u, QueueParts) /\ u.waiting = Without(k.waiting, t) BY <1>0, RemoveEffect
  <2> HIDE DEF u
  <2>4. Listed(u) BY <2>2 DEF Moves
  <2>5. Changes(u, v, {"stat"}) /\ v.stat = [u.stat EXCEPT ![t] = "close"]
    BY <2>4 DEF Listed, Changes, Fields
  <2> HIDE DEF v
  <2>6. v.stat \in [Thread -> State] /\ \A y \in Thread \ {t} : v.stat[y] = u.stat[y]
    BY <2>4, <2>5 DEF Listed, State
  <2>7. Moves(u, v, {t}) BY <2>4, <2>5, <2>6, StateMoves
  <2>8. Moves(v, w, {t}) BY <2>7, TimerMoves DEF Moves
  <2>9. Changes(v, w, TimerParts) BY <2>5, DetachEffect DEF Changes
  <2> HIDE DEF w
  <2>10. Changes(w, k', Processor) BY <2>1, <2>9, SwitchEffect DEF Changes
  <2>11. Moves(w, k', {}) BY <2>8, <2>10, NobodyMoves DEF Processor, Moves
  <2>12. Moves(k, k', {t}) BY <2>2, <2>7, <2>8, <2>11 DEF Moves, Same
  <2>13. u.waiting = k.waiting BY <1>0, <1>5, <2>1, <2>3, WithoutNobody
  <2>14. u.value = k.value /\ u.error = k.error BY <2>3 DEF Changes, QueueParts, Fields
  <2>15. v.waiting = u.waiting /\ v.value = u.value /\ v.error = u.error BY <2>5 DEF Changes, Fields
  <2>16. w.waiting = v.waiting /\ w.value = v.value /\ w.error = v.error
    BY <2>9 DEF Changes, TimerParts, Fields
  <2>17. k'.waiting = w.waiting /\ k'.value = w.value /\ k'.error = w.error
    BY <2>10 DEF Changes, Processor, Fields
  <2>18. ~Detaches(t) /\ ~Taking(t) /\ ~Detaches(t)' /\ ~Taking(t)'
    BY <2>1 DEF Stay, Detaches, Taking
  <2> QED BY <1>7, <2>12, <2>13, <2>14, <2>15, <2>16, <2>17, <2>18
\* The thread that moves is another, which does not wait.
<1>16. ASSUME NEW x \in Thread, Waiting(k, x) = {}, k'.waiting = Without(k.waiting, x)
       PROVE  k'.waiting = k.waiting
  BY <1>0, <1>16, WithoutNobody
<1>17. \A x \in Thread : (\A o \in Semaphore : ~Contains(k.waiting[o], x)) => Waiting(k, x) = {}
  <2> SUFFICES ASSUME NEW x \in Thread, \A o \in Semaphore : ~Contains(k.waiting[o], x),
                      NEW o \in Waiting(k, x)
               PROVE  FALSE
    OBVIOUS
  <2>1. o \in Semaphore BY WaitForSemaphores DEF SemStep
  <2>2. x \in Range(k.waiting[o]) /\ k.waiting[o] \in Seq(Thread) BY <1>0 DEF Waiting, Listed
  <2>3. Contains(k.waiting[o], x) BY <2>2 DEF Contains, Range
  <2> QED BY <2>1, <2>3
<1>18. CASE SuspendBody(t)
  <2>0. PICK x : x = c.on OBVIOUS
  <2>1. pc[t] = "suspend_body" /\ Return(t) /\ k' = SuspendReady(k, x) BY <1>18, <2>0 DEF SuspendBody, At, c
  <2>2. x \in Thread BY <1>1, <1>2, <2>0, <2>1 DEF Fits, ProperCall
  <2>3. /\ \A o \in Semaphore : ~Contains(k.waiting[o], x)
        /\ k.stat[x] # "close" \/ calls[x] = <<>>
    BY <2>0, <2>1 DEF SemStep, WaitsUndisturbed, c
  <2>4. Moves(k, k', {x}) /\ InNoList(k', x) BY <1>0, <2>1, <2>2, SuspendMoves
  <2>5. /\ Changes(k, k', QueueParts \cup TimerParts \cup {"stat"})
        /\ k'.stat = [k.stat EXCEPT ![x] = "suspend"] /\ k'.waiting = Without(k.waiting, x)
    BY <1>0, <2>1, SuspendEffect
  <2>6. k'.waiting = k.waiting BY <1>16, <1>17, <2>2, <2>3, <2>5
  <2>7. k'.value = k.value /\ k'.error = k.error BY <2>5 DEF Changes, QueueParts, TimerParts, Fields
  <2>8. Taking(x) => calls[x] # <<>> BY <2>2 DEF SemStep, CallsOK, Taking
  <2>9. k'.stat[x] # "close" BY <1>0, <2>2, <2>5 DEF Listed
  <2>10. x \notin k'.activated BY <2>4 DEF InNoList
  <2>11. ~Detaches(t) /\ ~Taking(t) /\ ~Detaches(t)' /\ ~Taking(t)'
    BY <1>10, <2>1 DEF Detaches, Taking
  <2> QED BY <1>7, <2>3, <2>4, <2>6, <2>7, <2>8, <2>9, <2>10, <2>11
<1>19. CASE ResumeFirst(t)
  <2>0. PICK x : x = c.on OBVIOUS
  <2>1. pc[t] = "resume_unlink" /\ Goto(t, "resume_insert") /\ k' = ResumeUnlink(k, x)
    BY <1>19, <2>0 DEF ResumeFirst, At, c
  <2>2. x \in Thread BY <1>1, <1>2, <2>0, <2>1 DEF Fits, ProperCall
  <2>3. \A o \in Semaphore : ~Contains(k.waiting[o], x) BY <2>0, <2>1 DEF SemStep, WaitsUndisturbed, c
  <2>4. Moves(k, k', {x}) /\ InNoList(k', x) /\ k'.stat = k.stat BY <1>0, <2>1, <2>2, UnlinkTimerMoves
  <2>5. Changes(k, k', {"ready", "waiting"} \cup TimerParts) /\ k'.waiting = Without(k.waiting, x)
    BY <1>0, <2>1, ResumeEffect
  <2>6. k'.waiting = k.waiting BY <1>16, <1>17, <2>2, <2>3, <2>5
  <2>7. k'.value = k.value /\ k'.error = k.error BY <2>5 DEF Changes, TimerParts, Fields
  <2>8. x \notin k'.activated BY <2>4 DEF InNoList
  <2>9. ~Detaches(t) /\ ~Taking(t) /\ ~Detaches(t)' /\ ~Taking(t)'
    BY <1>9, <2>1 DEF Detaches, Taking
  <2> QED BY <1>7, <2>4, <2>6, <2>7, <2>8, <2>9
<1>20. CASE ResumeSecond(t)
  <2>0. PICK x : x = c.on OBVIOUS
  <2>1. /\ pc[t] = "resume_insert" /\ k' = rt_schedule_insert_thread(k, x)
        /\ Goto(t, "schedule") \/ Return(t)
    BY <1>20, <2>0 DEF ResumeSecond, At, c
  <2>2. x \in Thread /\ k.stat[x] = "suspend" /\ InNoList(k, x) /\ c.op # "take"
    BY <1>0, <1>1, <1>2, <2>0, <2>1 DEF Fits, ProperCall, SemStep, Orderly, NobodyInterferes, Aims, c
  <2>3. Out(k, x) BY <2>2 DEF SemStep, QueuesOK, Out
  <2>4. Moves(k, k', {x}) /\ k'.activated = k.activated BY <1>0, <2>1, <2>2, <2>3, InsertMoves
  <2>5. Changes(k, k', {"stat", "ready", "group"}) /\ k'.stat = [k.stat EXCEPT ![x] = "ready"]
    BY <1>0, <2>1, InsertEffect
  <2>6. k'.waiting = k.waiting /\ k'.value = k.value /\ k'.error = k.error BY <2>5 DEF Changes, Fields
  <2>7. k'.stat[x] # "close" /\ k.stat[x] # "close" BY <1>0, <2>2, <2>5 DEF Listed
  <2>8. ~Detaches(t) /\ ~Taking(t) /\ ~Detaches(t)' /\ ~Taking(t)'
    BY <1>9, <1>10, <2>1, <2>2 DEF Detaches, Taking
  <2> QED BY <1>7, <2>4, <2>6, <2>7, <2>8
<1>21. CASE Startup(t)
  <2>0. PICK x : x = c.on OBVIOUS
  <2> DEFINE u == [k EXCEPT !.priority[x] = InitPriority[x]]
             v == [u EXCEPT !.stat[x] = "suspend"]
  <2>1. /\ Calls(t, "startup") /\ pc[t] = "user" /\ Goto(t, "resume_unlink")
        /\ k' = [k EXCEPT !.priority[x] = InitPriority[x], !.stat[x] = "suspend"]
    BY <1>21, <2>0 DEF Startup, Calls, c
  <2>2. x \in Thread /\ k.stat[x] = "init"
    BY <1>2, <2>0, <2>1 DEF Calls, ProperCall, SemStep, Orderly, NobodyInterferes, c
  <2>3. InitPriority[x] \in Priority BY <2>2, SchedAssumption
  <2>4. k' = v BY <1>0, <2>1 DEF Fields
  <2>5. Changes(k, u, {"priority"}) /\ u.priority = [k.priority EXCEPT ![x] = InitPriority[x]]
    BY <1>0 DEF Changes, Fields
  <2>6. u.priority \in [Thread -> Priority] BY <1>0, <2>3, <2>5 DEF Listed
  <2> HIDE DEF u
  <2>7. Moves(k, u, {}) BY <1>0, <2>5, <2>6, PriorityMoves
  <2>8. Listed(u) BY <2>7 DEF Moves
  <2>9. Changes(u, v, {"stat"}) /\ v.stat = [u.stat EXCEPT ![x] = "suspend"]
    BY <2>8 DEF Listed, Changes, Fields
  <2>10. v.stat \in [Thread -> State] /\ \A y \in Thread \ {x} : v.stat[y] = u.stat[y]
    BY <2>2, <2>8, <2>9 DEF Listed, State
  <2> HIDE DEF v
  <2>11. Moves(u, v, {x}) BY <2>2, <2>8, <2>9, <2>10, StateMoves
  <2>12. Moves(k, k', {x}) BY <2>4, <2>7, <2>11 DEF Moves, Same
  <2>13. /\ k'.waiting = k.waiting /\ k'.value = k.value /\ k'.error = k.error
         /\ k'.activated = k.activated /\ k'.stat[x] = "suspend"
    BY <1>0, <2>1, <2>2 DEF Fields, Listed
  <2>14. ~Detaches(t) /\ ~Taking(t) /\ ~Detaches(t)' /\ ~Taking(t)'
    BY <1>9, <2>1 DEF Detaches, Taking
  <2> QED BY <1>7, <2>2, <2>12, <2>13, <2>14
<1>22. CASE SetPriority(t)
  <2>0. PICK x : x = c.on OBVIOUS
  <2>1. Calls(t, "set_priority") /\ pc[t] = "user" /\ Return(t) /\ k' = ChangePriority(k, x, c.arg)
    BY <1>22, <2>0 DEF SetPriority, Calls, c
  <2>2. x \in Thread /\ c.arg \in Priority BY <1>2, <2>0, <2>1 DEF Calls, ProperCall, c
  <2>3. Moves(k, k', {x}) /\ k'.activated = k.activated /\ k'.stat = k.stat
    BY <1>0, <2>1, <2>2, ChangePriorityMoves
  <2>d. PICK p : p = c.arg OBVIOUS
  <2>e. DOMAIN k = Fields /\ k' = ChangePriority(k, x, p) BY <1>0, <2>1, <2>d
  <2>4. /\ Changes(k, k', QueueParts \cup {"stat", "priority"})
        /\ k.stat[x] = "ready" => k'.waiting = Without(k.waiting, x)
        /\ k.stat[x] # "ready" => Changes(k, k', {"priority"})
    BY ONLY <2>e, PriorityEffect, ZenonT(40)
  <2>5. k'.waiting = k.waiting
    <3>1. CASE k.stat[x] = "ready"
      <4>1. Waiting(k, x) = {} BY <1>0, <2>2, <3>1 DEF Seated
      <4> QED BY <1>16, <2>2, <2>4, <3>1, <4>1
    <3>2. CASE k.stat[x] # "ready" BY <2>4, <3>2 DEF Changes, Fields
    <3> QED BY <3>1, <3>2
  <2>6. k'.value = k.value /\ k'.error = k.error BY <2>4 DEF Changes, QueueParts, Fields
  <2>7. ~Detaches(t) /\ ~Taking(t) /\ ~Detaches(t)' /\ ~Taking(t)'
    BY <1>10, <2>1 DEF Detaches, Taking
  <2> QED BY <1>7, <2>3, <2>5, <2>6, <2>7
<1>23. CASE StopTimerBody(t)
  <2>0. PICK x : x = c.on OBVIOUS
  <2>1. pc[t] = "stop_timer" /\ Return(t) /\ k' = rt_timer_detach(k, x)
    BY <1>23, <2>0 DEF StopTimerBody, At, c
  <2>2. Moves(k, k', {x}) /\ k'.stat = k.stat /\ x \notin k'.activated BY <1>0, <2>1, TimerMoves
  <2>3. Changes(k, k', TimerParts) BY <1>0, <2>1, DetachEffect
  <2>4. k'.waiting = k.waiting /\ k'.value = k.value /\ k'.error = k.error
    BY <2>3 DEF Changes, TimerParts, Fields
  <2>5. ~Detaches(t) /\ ~Taking(t) /\ ~Detaches(t)' /\ ~Taking(t)'
    BY <1>10, <2>1 DEF Detaches, Taking
  <2> QED BY <1>7, <2>2, <2>4, <2>5
<1> QED
  BY <1>11, <1>12, <1>13, <1>14, <1>15, <1>18, <1>19, <1>20, <1>21, <1>22, <1>23 DEF ThreadStep

\* A step of thread t that leaves the lists and the values, and what the other threads are to them.
LEMMA StillImplements ==
  ASSUME Waits, Waits', \A y \in Thread : Sound(y), NEW t, t \in Thread => Quiet(t),
         \A y \in Thread \ {t} : /\ pc'[y] = pc[y] /\ calls'[y] = calls[y] /\ k'.error[y] = k.error[y]
                                 /\ Gone(y)' <=> Gone(y)
                                 /\ y \in k'.activated => y \in k.activated,
         k'.waiting = k.waiting, k'.value = k.value
  PROVE  Implements
<1>1. \A y : Waiting(k', y) = Waiting(k, y) BY DEF Waiting
<1>2. \A y \in Thread \ {t} : Quiet(y) BY <1>1, MovedQuiet
<1> QED BY <1>2, QuietImplements

LEMMA ScheduleImplements ==
  ASSUME NEW C, SemStep(C), NEW t \in Thread, Schedule(t) PROVE Implements
<1>0. DOMAIN k = Fields /\ pc \in [Thread -> Label] BY DEF SemStep, Waits, Listed, CallsOK
<1>1. Changes(k, k', Processor) BY <1>0, SwitchEffect DEF Schedule
<1>2. /\ k'.waiting = k.waiting /\ k'.value = k.value /\ k'.error = k.error
      /\ k'.stat = k.stat /\ k'.activated = k.activated
  BY <1>1 DEF Changes, Processor, Fields
<1>3. pc[t] = "schedule" BY DEF Schedule, At
<1>4. \/ pc'[t] = "return" /\ calls' = calls
      \/ Call(t).op # "take" /\ pc'[t] = "user"
  BY <1>0 DEF Schedule, Goto, Return
<1>5. \A y \in Thread \ {t} : pc'[y] = pc[y] /\ calls'[y] = calls[y]
  BY <1>0 DEF Schedule, Goto, Return, SemStep, CallsOK
<1>6. \A x : Detaching(x)' <=> Detaching(x)
  <2>1. ~Detaches(t) /\ ~Detaches(t)' BY <1>3, <1>4 DEF Detaches
  <2> QED BY <1>5, <2>1, DetachingKept
<1>7. Quiet(t)
  <2>1. CASE pc'[t] = "return" /\ calls' = calls
    <3>1. Call(t)' = Call(t) BY <2>1 DEF Call
    <3>2. Waiting(k', t) = Waiting(k, t) /\ (Gone(t)' <=> Gone(t)) BY <1>2, <1>6 DEF Waiting, Gone
    <3>3. Taking(t)' <=> Taking(t) BY <1>3, <2>1, <3>1 DEF Taking
    <3> QED BY <1>2, <3>1, <3>2, <3>3 DEF Quiet
  <2>2. CASE Call(t).op # "take" /\ pc'[t] = "user" BY <2>2 DEF Quiet, Taking
  <2> QED BY <1>4, <2>1, <2>2
<1>8. \A y : Gone(y)' <=> Gone(y) BY <1>2, <1>6 DEF Gone
<1> QED BY <1>2, <1>5, <1>7, <1>8, StillImplements DEF SemStep

\* The parts of rt_thread_detach: with the second, or the first of a new thread, it is gone.
LEMMA DetachImplements ==
  ASSUME NEW C, Proper(C), SemStep(C), Prompt, NEW t \in Thread, t = k.current,
         Detach(t) \/ DetachRemove(t) \/ DetachTimer(t) \/ DetachClose(t)
  PROVE  Implements
<1>0. DOMAIN k = Fields /\ Listed(k) /\ \A x \in Thread : Seated(x)
  BY DEF SemStep, QueuesOK, Waits
<1>1. PICK c : c = Call(t) OBVIOUS
<1>2. PICK u : u = c.on OBVIOUS
<1>3. pc \in [Thread -> Label] /\ calls \in [Thread -> Seq(C)] BY DEF SemStep, CallsOK
<1>4. u \in Thread
  <2>1. calls[t] # <<>> /\ c.op = "detach"
    BY <1>1 DEF SemStep, CallsOK, Fits, Detach, DetachRemove, DetachTimer, DetachClose, At, Calls
  <2> QED BY <1>1, <1>2, <2>1, Called DEF CallsOK, SemStep, ProperCall
<1>5. ~Taking(t) BY DEF Taking, Detach, DetachRemove, DetachTimer, DetachClose, At, Calls
<1>6. \A y \in Thread \ {t} : pc'[y] = pc[y] /\ calls'[y] = calls[y]
  BY <1>3 DEF Detach, DetachRemove, DetachTimer, DetachClose, Goto, Return
<1>7. ~Taking(t)'
  BY <1>3 DEF Detach, DetachRemove, DetachTimer, DetachClose, Goto, Return, Taking
<1>8. \A y : y # u => (Detaching(y)' <=> Detaching(y))
  <2>1. Return(t) \/ calls' = calls
    BY DEF Detach, DetachRemove, DetachTimer, DetachClose, Goto, Return
  <2>2. CASE Return(t)
    <3>1. pc'[t] = "user" BY <1>3, <2>2 DEF Return
    <3> QED BY <1>1, <1>2, <1>6, <3>1 DEF Detaching, Call
  <2>3. CASE calls' = calls
    <3>1. Call(t)' = c BY <1>1, <2>3 DEF Call
    <3> QED BY <1>1, <1>2, <1>6, <3>1 DEF Detaching, Call
  <2> QED BY <2>1, <2>2, <2>3
<1>9. Quiet(t) BY <1>5, <1>7 DEF Quiet
\* The thread is gone from now on.
<1>10. ASSUME pc'[t] = "detach_timer", calls' = calls, Moves(k, k', {u}), Waiting(k', u) = {},
              k'.waiting = Without(k.waiting, u), k'.value = k.value, k'.error = k.error
       PROVE  Implements
  <2>1. Detaching(u)' BY <1>1, <1>2, <1>10 DEF Detaching, Call
  <2>2. Gone(u)' BY <2>1 DEF Gone
  <2>3. ASSUME NEW y \in Thread \ {u} PROVE Quiet(y)
    <3>1. CASE y = t BY <1>9, <3>1
    <3>2. CASE y # t BY <1>6, <1>8, <1>10, <2>3, <3>2, OthersQuiet
    <3> QED BY <3>1, <3>2
  <2>4. (Taking(u)' <=> Taking(u)) /\ (Taking(u) => Call(u)' = Call(u))
    <3>1. CASE u = t BY <1>5, <1>7, <3>1
    <3>2. CASE u # t BY <1>4, <1>6, <3>2 DEF Taking, Call
    <3> QED BY <3>1, <3>2
  <2> QED BY <1>4, <1>10, <2>2, <2>3, <2>4, CeaseImplements DEF SemStep
<1>11. ASSUME k' = k, \A y : Detaching(y)' <=> Detaching(y) PROVE Implements
  <2>1. \A y : Gone(y)' <=> Gone(y) BY <1>11 DEF Gone
  <2> QED BY <1>6, <1>9, <1>11, <2>1, StillImplements DEF SemStep
<1>12. CASE Detach(t)
  <2>1. k' = k /\ pc[t] = "user" BY <1>12 DEF Detach, Calls
  <2>2. CASE k.stat[u] = "init"
    <3>1. pc'[t] = "detach_timer" /\ calls' = calls
      BY <1>1, <1>2, <1>3, <1>12, <2>2 DEF Detach, Goto
    <3>2. Waiting(k, u) = {} BY <1>0, <1>4, <2>2 DEF Seated
    <3>3. k'.waiting = Without(k.waiting, u) BY <1>0, <2>1, <3>2, WithoutNobody
    <3>4. Moves(k, k', {u}) BY <1>0, <2>1 DEF Moves, Same
    <3> QED BY <1>10, <2>1, <3>1, <3>2, <3>3, <3>4
  <2>3. CASE k.stat[u] # "init"
    <3>1. pc'[t] \in {"user", "detach_remove"}
      BY <1>1, <1>2, <1>3, <1>12, <2>3 DEF Detach, Goto, Return
    <3>2. ~Detaches(t) /\ ~Detaches(t)' BY <2>1, <3>1 DEF Detaches
    <3> QED BY <1>6, <1>11, <2>1, <3>2, DetachingKept
  <2> QED BY <2>2, <2>3
<1>13. CASE DetachRemove(t)
  <2>1. k' = rt_schedule_remove_thread(k, u) /\ pc'[t] = "detach_timer" /\ calls' = calls
    BY <1>1, <1>2, <1>3, <1>13 DEF DetachRemove, Goto
  <2>2. Moves(k, k', {u}) /\ Waiting(k', u) = {} BY <1>0, <2>1, RemoveMoves
  <2>3. Changes(k, k', QueueParts) /\ k'.waiting = Without(k.waiting, u) BY <1>0, <2>1, RemoveEffect
  <2>4. k'.value = k.value /\ k'.error = k.error BY <2>3 DEF Changes, QueueParts, Fields
  <2> QED BY <1>10, <2>1, <2>2, <2>3, <2>4
<1>14. CASE DetachTimer(t)
  <2>1. k' = rt_timer_detach(k, u) /\ pc[t] = "detach_timer" /\ pc'[t] = "detach_close" /\ calls' = calls
    BY <1>1, <1>2, <1>3, <1>14 DEF DetachTimer, Goto, At
  <2>2. Changes(k, k', TimerParts) /\ k'.activated = k.activated \ {u} BY <1>0, <2>1, DetachEffect
  <2>3. k'.waiting = k.waiting /\ k'.value = k.value /\ k'.error = k.error /\ k'.stat = k.stat
    BY <2>2 DEF Changes, TimerParts, Fields
  <2>4. Detaching(u)' /\ Detaching(u) BY <1>1, <1>2, <2>1 DEF Detaching, Call
  <2>5. \A y : Gone(y)' <=> Gone(y) BY <1>8, <2>3, <2>4 DEF Gone
  <2> QED BY <1>6, <1>9, <2>2, <2>3, <2>5, StillImplements DEF SemStep
<1>15. CASE DetachClose(t)
  <2>1. k' = [k EXCEPT !.stat[u] = "close"] /\ pc[t] = "detach_close"
    BY <1>1, <1>2, <1>15 DEF DetachClose, At
  <2>2. /\ k'.waiting = k.waiting /\ k'.value = k.value /\ k'.error = k.error /\ k'.activated = k.activated
        /\ k'.stat = [k.stat EXCEPT ![u] = "close"]
    BY <1>0, <2>1 DEF Fields
  <2>3. Gone(u)' /\ Gone(u)
    <3>1. Detaching(u) BY <1>1, <1>2, <2>1 DEF Detaching
    <3>2. k'.stat[u] = "close" BY <1>0, <1>4, <2>2 DEF Listed
    <3> QED BY <3>1, <3>2 DEF Gone
  <2>4. \A y \in Thread : Gone(y)' <=> Gone(y) BY <1>0, <1>8, <2>2, <2>3 DEF Gone, Listed
  <2> QED BY <1>6, <1>9, <2>2, <2>4, StillImplements DEF SemStep
<1> QED BY <1>12, <1>13, <1>14, <1>15

\* Thread y stays where it is, or is not in rt_sem_take.
Steady(y) == (pc'[y] = pc[y] /\ calls'[y] = calls[y]) \/ (~Taking(y) /\ ~Taking(y)')

LEMMA SteadyQuiet ==
  ASSUME NEW W, Moves(k, k', W), NEW y \in Thread \ W, Steady(y), k'.error[y] = k.error[y],
         Detaching(y)' <=> Detaching(y)
  PROVE  Quiet(y)
<1>1. CASE pc'[y] = pc[y] /\ calls'[y] = calls[y] BY <1>1, OthersQuiet
<1>2. CASE ~Taking(y) /\ ~Taking(y)' BY <1>2 DEF Quiet
<1> QED BY <1>1, <1>2 DEF Steady

\* Thread h, which waits for semaphore o, ends its wait.
LEMMA WaitEnds ==
  ASSUME Waits, Waits', \A y \in Thread : Sound(y), NEW o \in Semaphore, NEW h \in Thread, o \in Waiting(k, h),
         Moves(k, k', {h}), InNoList(k', h), k'.stat[h] = "ready",
         k'.waiting = Without(k.waiting, h), k'.value = k.value,
         \A y \in Thread \ {h} : k'.error[y] = k.error[y],
         \A y \in Thread : Steady(y) /\ (Detaching(y)' <=> Detaching(y)),
         \/ k'.error[h] = "timeout"
         \/ k'.error[h] \in {"ok", "error"} /\ h = Head(k.waiting[o])
  PROVE  Implements
<1>1. Taking(h) BY DEF Waits, Seated, Taking
<1>2. Taking(h)' /\ Call(h)' = Call(h) BY <1>1 DEF Steady, Taking, Call
<1>3. ~Gone(h)'
  <2>1. ~Gone(h) BY WaiterIsHere
  <2> QED BY <2>1 DEF Gone
<1>4. \A y \in Thread \ {h} : Quiet(y) BY SteadyQuiet
<1> QED BY <1>2, <1>3, <1>4, EndImplements

\* From s to u the lists and semaphores stay as they are.
Kept(s, u) == Moves(s, u, {}) /\ u.waiting = s.waiting /\ u.value = s.value /\ u.error = s.error

LEMMA OthersKept ==
  ASSUME NEW s, Listed(s), NEW u, NEW F, Changes(s, u, F),
         F \cap {"ready", "waiting", "stat", "priority", "activated", "value", "error"} = {}
  PROVE  Kept(s, u)
<1>1. u.waiting = s.waiting /\ u.value = s.value /\ u.error = s.error BY DEF Changes, Fields
<1>2. Moves(s, u, {}) BY NobodyMoves
<1> QED BY <1>1, <1>2 DEF Kept

\* From s to u, a token of semaphore o goes to thread h, or with nobody waiting is counted.
Grants(s, u, o, h) ==
  /\ h = Head(s.waiting[o]) /\ u.error = s.error
  /\ s.waiting[o] # <<>> =>
       /\ Moves(s, u, {h}) /\ InNoList(u, h) /\ u.stat[h] = "ready"
       /\ u.waiting = Without(s.waiting, h) /\ u.value = s.value
  /\ s.waiting[o] = <<>> =>
       /\ Moves(s, u, {}) /\ u.waiting = s.waiting
       /\ u.value = IF s.value[o] < ValueMax THEN [s.value EXCEPT ![o] = @ + 1] ELSE s.value

LEMMA ReleaseGrants ==
  ASSUME NEW s, Listed(s), WaitersSleep(s), NEW o \in WaitList
  PROVE  Grants(s, Release(s, o), o, Head(s.waiting[o]))
<1>1. DOMAIN s = Fields BY DEF Listed
<1>2. PICK u : u = Release(s, o) OBVIOUS
<1>3. PICK h : h = Head(s.waiting[o]) OBVIOUS
<1>4. CASE s.waiting[o] # <<>>
  <2>1. h \in Thread /\ o \in Waiting(s, h) /\ s.stat[h] = "suspend" BY <1>3, <1>4, FirstWaits
  <2>2. u = rt_thread_resume(s, h) /\ u.value = s.value BY <1>1, <1>2, <1>3, <1>4, ReleaseEffect
  <2>3. Moves(s, u, {h}) /\ InNoList(u, h) /\ u.stat = [s.stat EXCEPT ![h] = "ready"]
    BY <2>1, <2>2, ResumeMoves
  <2>e. s.stat[h] = "suspend" /\ u = rt_thread_resume(s, h) BY <2>1, <2>2
  <2>4. Changes(s, u, QueueParts \cup TimerParts \cup {"stat"}) /\ u.waiting = Without(s.waiting, h)
    BY ONLY <1>1, <2>e, ResumeEffect
  <2>5. u.error = s.error BY <2>4 DEF Changes, QueueParts, TimerParts, Fields
  <2>6. u.stat[h] = "ready" BY <2>1, <2>3 DEF Listed
  <2> QED BY <1>2, <1>3, <1>4, <2>2, <2>3, <2>4, <2>5, <2>6 DEF Grants
<1>5. CASE s.waiting[o] = <<>>
  <2>1. /\ Changes(s, u, {"value"})
        /\ u.value = IF s.value[o] < ValueMax THEN [s.value EXCEPT ![o] = @ + 1] ELSE s.value
    BY <1>1, <1>2, <1>5, ReleaseEffect
  <2>2. u.waiting = s.waiting /\ u.error = s.error BY <2>1 DEF Changes, Fields
  <2>3. Moves(s, u, {}) BY <2>1, NobodyMoves
  <2> QED BY <1>2, <1>3, <1>5, <2>1, <2>2, <2>3 DEF Grants
<1> QED BY <1>4, <1>5

LEMMA GrantsAmid ==
  ASSUME NEW s, Kept(k, s), NEW o \in WaitList, WaitersSleep(s), NEW h, NEW u, Grants(s, u, o, h), Kept(u, k')
  PROVE  Grants(k, k', o, h)
<1>1. Listed(s) /\ h = Head(s.waiting[o]) BY DEF Kept, Moves, Grants
<1>2. CASE s.waiting[o] # <<>>
  <2>1. h \in Thread BY <1>1, <1>2, FirstWaits
  <2>2. Moves(k, k', {h}) BY <1>2 DEF Kept, Moves, Same, Grants
  <2>3. InNoList(k', h) /\ k'.stat[h] = "ready" BY <1>2, <2>1 DEF Kept, Moves, Same, Grants, InNoList
  <2> QED BY <1>2, <2>2, <2>3 DEF Kept, Grants
<1>3. CASE s.waiting[o] = <<>>
  <2>1. Moves(k, k', {}) BY <1>3 DEF Kept, Moves, Same, Grants
  <2> QED BY <1>3, <2>1 DEF Kept, Grants
<1> QED BY <1>2, <1>3

\* The step of rt_sem_release, in a thread or in a timer.
LEMMA GrantImplements ==
  ASSUME NEW C, Proper(C), SemStep(C), NEW o \in Semaphore, NEW h, Grants(k, k', o, h),
         \A y \in Thread : Steady(y) /\ (Detaching(y)' <=> Detaching(y))
  PROVE  Implements
<1>0. DOMAIN k = Fields /\ Listed(k) /\ WaitersSleep(k) /\ o \in WaitList
  BY DEF SemStep, QueuesOK, Waits, WaitersSleep, Seated, WaitList
<1>1. h = Head(k.waiting[o]) /\ k'.error = k.error BY DEF Grants
<1>2. CASE k.waiting[o] # <<>>
  <2>1. h \in Thread /\ o \in Waiting(k, h) BY <1>0, <1>1, <1>2, FirstWaits
  <2>2. k'.error[h] = "ok" BY <1>1, <2>1 DEF SemStep, Sound
  <2>3. /\ Moves(k, k', {h}) /\ InNoList(k', h) /\ k'.stat[h] = "ready"
        /\ k'.waiting = Without(k.waiting, h) /\ k'.value = k.value
    BY <1>2 DEF Grants
  <2> QED BY <1>1, <2>1, <2>2, <2>3, WaitEnds DEF SemStep
<1>3. CASE k.waiting[o] = <<>>
  <2>1. /\ Moves(k, k', {}) /\ k'.waiting = k.waiting
        /\ k'.value = IF k.value[o] < ValueMax THEN [k.value EXCEPT ![o] = @ + 1] ELSE k.value
    BY <1>3 DEF Grants
  <2>2. \A y \in Thread : Quiet(y) BY <1>1, <2>1, SteadyQuiet
  <2>3. k.value \in [Semaphore -> 0 .. ValueMax] BY DEF SemStep, Plain
  <2>4. PICK n \in Nat : /\ n = IF k.value[o] < ValueMax THEN k.value[o] + 1 ELSE k.value[o]
                         /\ k'.value = [k.value EXCEPT ![o] = n]
    BY <2>1, <2>3, SchedAssumption
  <2>5. n = k.value[o] \/ (n = k.value[o] + 1 /\ k.value[o] < ValueMax) BY <2>4
  <2> QED BY <1>3, <2>1, <2>2, <2>4, <2>5, CountImplements DEF SemStep
<1> QED BY <1>2, <1>3

LEMMA SemReleaseImplements ==
  ASSUME NEW C, Proper(C), SemStep(C), NEW t \in Thread, SemRelease(t) PROVE Implements
<1>1. PICK c : c = Call(t) OBVIOUS
<1>2. pc \in [Thread -> Label] /\ calls \in [Thread -> Seq(C)] BY DEF SemStep, CallsOK
<1>3. pc[t] = "user" /\ calls[t] # <<>> /\ c.op = "release" /\ k' = Release(k, c.on)
  BY <1>1 DEF SemRelease, Calls
<1>4. c.on \in Semaphore BY <1>1, <1>3, Called DEF CallsOK, SemStep, ProperCall
<1>5. (pc'[t] = "schedule" /\ calls' = calls) \/ pc'[t] = "user" BY <1>2 DEF SemRelease, Goto, Return
<1>6. \A y \in Thread \ {t} : pc'[y] = pc[y] /\ calls'[y] = calls[y]
  BY <1>2 DEF SemRelease, Goto, Return
<1>7. ~Taking(t) /\ ~Taking(t)' /\ ~Detaches(t) /\ ~Detaches(t)'
  BY <1>1, <1>3, <1>5 DEF Taking, Detaches, Call
<1>8. \A y : Detaching(y)' <=> Detaching(y) BY <1>6, <1>7, DetachingKept
<1>9. \A y \in Thread : Steady(y) BY <1>6, <1>7 DEF Steady
<1>10. Grants(k, k', c.on, Head(k.waiting[c.on]))
  <2>1. Listed(k) /\ WaitersSleep(k) /\ c.on \in WaitList
    BY <1>4 DEF SemStep, Waits, WaitersSleep, Seated, WaitList
  <2> QED BY <1>3, <2>1, ReleaseGrants
<1> QED BY <1>4, <1>8, <1>9, <1>10, GrantImplements

\* A suspended thread that is sent away becomes ready and leaves its list.
SendsAway(a, b, h) ==
  /\ Changes(a, b, QueueParts \cup TimerParts \cup {"stat", "error"})
  /\ b.error = [a.error EXCEPT ![h] = "error"] /\ b.stat = [a.stat EXCEPT ![h] = "ready"]
  /\ b.waiting = Without(a.waiting, h)

LEMMA SentAway ==
  ASSUME NEW a, NEW b, NEW o, NEW h, DOMAIN a = Fields, h = Head(a.waiting[o]), a.stat[h] = "suspend",
         b = ResumeWithError(a, o)
  PROVE  SendsAway(a, b, h)
<1>0. DOMAIN a = Fields /\ h = Head(a.waiting[o]) /\ a.stat[h] = "suspend" /\ b = ResumeWithError(a, o)
  OBVIOUS
<1>1. Changes(a, b, QueueParts \cup TimerParts \cup {"stat", "error"}) BY ONLY <1>0, ErrorEffect
<1>2. b.error = [a.error EXCEPT ![h] = "error"] BY ONLY <1>0, ErrorEffect
<1>3. b.stat = [a.stat EXCEPT ![h] = "ready"] /\ b.waiting = Without(a.waiting, h)
  <2> DEFINE e == [a EXCEPT !.error[h] = "error"]
             u == ResumeUnlink(e, h)
  <2>1. DOMAIN e = Fields /\ e.stat = a.stat /\ e.waiting = a.waiting BY DEF Fields
  <2>2. b = rt_thread_resume(e, h) BY DEF ResumeWithError
  <2> HIDE DEF e
  <2>3. e.stat[h] = "suspend" BY <2>1
  <2>4. b = rt_schedule_insert_thread(u, h) BY <2>2, <2>3 DEF rt_thread_resume
  <2>5. Changes(e, u, {"ready", "waiting"} \cup TimerParts) /\ u.waiting = Without(e.waiting, h)
    BY ONLY <2>1, ResumeEffect
  <2> HIDE DEF u
  <2>6. DOMAIN u = Fields /\ u.stat = e.stat BY <2>1, <2>5 DEF Changes, Fields, TimerParts
  <2>7. b.stat = [u.stat EXCEPT ![h] = "ready"] /\ b.waiting = u.waiting
    BY <2>4, <2>6 DEF rt_schedule_insert_thread, Fields
  <2> QED BY <2>1, <2>5, <2>6, <2>7
<1> QED BY <1>1, <1>2, <1>3 DEF SendsAway

\* One round of rt_ipc_list_resume_all sends the first thread away.
LEMMA DrainImplements ==
  ASSUME NEW C, Proper(C), SemStep(C), NEW t \in Thread, DrainOne(t) PROVE Implements
<1>0. DOMAIN k = Fields /\ Listed(k) /\ WaitersSleep(k)
  BY DEF SemStep, QueuesOK, Waits, WaitersSleep, Seated
<1>1. PICK c : c = Call(t) OBVIOUS
<1>2. PICK o : o = c.on OBVIOUS
<1>3. pc \in [Thread -> Label] BY DEF SemStep, CallsOK
<1>4. /\ pc[t] = "drain_one" /\ pc'[t] = "drain"
      /\ k' = IF k.waiting[o] # <<>> THEN ResumeWithError(k, o) ELSE k
  BY <1>1, <1>2, <1>3 DEF DrainOne, At, Goto
<1>5. o \in WaitList
  <2>1. calls[t] # <<>> /\ c.op = "sem_detach" BY <1>1, <1>4 DEF SemStep, CallsOK, Fits
  <2> QED BY <1>1, <1>2, <2>1, Called DEF CallsOK, SemStep, ProperCall
<1>6. \A y \in Thread \ {t} : pc'[y] = pc[y] /\ calls'[y] = calls[y] BY <1>3 DEF DrainOne, Goto
<1>7. ~Taking(t) /\ ~Taking(t)' /\ ~Detaches(t) /\ ~Detaches(t)' BY <1>4 DEF Taking, Detaches
<1>8. \A y : Detaching(y)' <=> Detaching(y) BY <1>6, <1>7, DetachingKept
<1>9. CASE k.waiting[o] = <<>>
  <2>1. k' = k BY <1>4, <1>9
  <2>2. \A y : Gone(y)' <=> Gone(y) BY <1>8, <2>1 DEF Gone
  <2>3. Quiet(t) BY <1>7 DEF Quiet
  <2> QED BY <1>6, <2>1, <2>2, <2>3, StillImplements DEF SemStep
<1>10. CASE k.waiting[o] # <<>>
  <2>0. PICK h : h = Head(k.waiting[o]) OBVIOUS
  <2>1. h \in Thread /\ o \in Waiting(k, h) /\ k.stat[h] = "suspend" BY <1>0, <1>5, <1>10, <2>0, FirstWaits
  <2>2. o \in Semaphore BY <2>1, WaitForSemaphores DEF SemStep
  <2>3. k' = ResumeWithError(k, o) BY <1>4, <1>10
  <2>4. /\ Changes(k, k', QueueParts \cup TimerParts \cup {"stat", "error"})
        /\ k'.error = [k.error EXCEPT ![h] = "error"] /\ k'.stat = [k.stat EXCEPT ![h] = "ready"]
        /\ k'.waiting = Without(k.waiting, h)
    <3>1. SendsAway(k, k', h) BY ONLY <1>0, <2>0, <2>1, <2>3, SentAway
    <3> QED BY <3>1 DEF SendsAway
  <2>5. k'.value = k.value BY <2>4 DEF Changes, QueueParts, TimerParts, Fields
  <2>6. k'.stat[h] = "ready" BY <1>0, <2>1, <2>4 DEF Listed
  <2>7. k'.error[h] = "error" /\ \A y \in Thread \ {h} : k'.error[y] = k.error[y]
    BY <2>1, <2>4 DEF SemStep, Plain
  <2>8. Moves(k, k', {h}) /\ InNoList(k', h)
    <3> DEFINE a == [k EXCEPT !.error[h] = "error"]
    <3>1. Changes(k, a, {"error"}) BY <1>0 DEF Changes, Fields
    <3>2. k' = rt_thread_resume(a, h) BY <2>0, <2>3 DEF ResumeWithError
    <3> HIDE DEF a
    <3>3. Moves(k, a, {}) BY <1>0, <3>1, NobodyMoves
    <3>4. Listed(a) /\ a.stat = k.stat BY <3>1, <3>3 DEF Moves, Changes, Fields
    <3>5. Moves(a, k', {h}) /\ InNoList(k', h) BY <2>1, <3>2, <3>4, ResumeMoves
    <3> QED BY <3>3, <3>5 DEF Moves, Same
  <2>9. \A y \in Thread : Steady(y) BY <1>6, <1>7 DEF Steady
  <2> QED BY <1>8, <2>0, <2>1, <2>2, <2>4, <2>5, <2>6, <2>7, <2>8, <2>9, WaitEnds DEF SemStep
<1> QED BY <1>9, <1>10

\* Thread t begins to wait for semaphore o, behind those of its priority or last.
LEMMA BlockImplements ==
  ASSUME Waits, Waits', Plain(k), \A y \in Thread : Sound(y), NEW t \in Thread, NEW o \in Semaphore, NEW time,
         k.value[o] = 0, k.stat[t] = "ready", Waiting(k, t) = {}, ~Taking(t),
         pc'[t] = "schedule", Call(t)' = Call(t), Call(t).op = "take", Call(t).on = o,
         \A y \in Thread \ {t} : Quiet(y),
         k' = Block(k, o, t, time)
  PROVE  Implements
<1>0. DOMAIN k = Fields /\ Listed(k) /\ Listed(k') /\ Listed(k)' /\ o \in WaitList
  BY DEF Waits, Listed, WaitList
<1>e. /\ Listed(k) /\ o \in WaitList /\ t \in Thread /\ k.stat[t] = "ready"
      /\ DOMAIN k = Fields /\ k' = Block(k, o, t, time)
  BY <1>0
<1>1. Moves(k, k', {t}) /\ Waiting(k', t) = {o} BY ONLY <1>e, BlockMoves
<1>2. /\ Changes(k, k', QueueParts \cup TimerParts \cup {"stat", "error"})
      /\ k'.error = [k.error EXCEPT ![t] = "ok"]
      /\ k.waiting = Without(k.waiting, t) =>
           k'.waiting = [k.waiting EXCEPT ![o] = InsertAt(@, Place(k, o, t), t)]
  <2>1. Enqueues(k, k', o, t, time) BY <1>e, BlockEffect
  <2> QED BY <1>e, <2>1 DEF Enqueues
<1>3. k.waiting = Without(k.waiting, t) BY <1>0, WithoutNobody
<1>5. PICK i : i = Place(k, o, t) OBVIOUS
<1>7. k.waiting \in [WaitList -> Seq(Thread)] /\ k.priority \in [Thread -> Priority] BY <1>0 DEF Listed
<1>8. /\ k'.waiting[o] = InsertAt(k.waiting[o], i, t)
      /\ \A a \in WaitList \ {o} : k'.waiting[a] = k.waiting[a]
  BY <1>0, <1>2, <1>3, <1>5, <1>7
<1>9. k'.value = k.value BY <1>2 DEF Changes, QueueParts, TimerParts, Fields
<1>10. Placed(k, o, t, i) /\ i \in 1 .. Len(k.waiting[o]) + 1
  BY <1>0, <1>5, <1>7, PlaceKeepsOrder, PlaceInRange
<1>11. Taking(t)' BY DEF Taking
<1>12. ASSUME NEW a \in Semaphore, a # o PROVE Step(a)
  <2>1. Ended(a, t) = "none" /\ Ended(a, t)' = "none" BY <1>0, <1>12, EndedIs
  <2>2. \A x \in Thread : Ended(a, x)' = Ended(a, x) BY <1>0, <2>1, QuietEnded
  <2>3. a \in WaitList \ {o} BY <1>12 DEF WaitList
  <2> QED BY <1>8, <1>9, <2>2, <2>3, OutcomeSame, Stutters
<1>13. Step(o)
  <2>1. Ended(o, t) = "none" BY <1>0, EndedIs
  <2>2. Ended(o, t)' = "waiting" BY <1>0, <1>1, <1>11, EndedIs
  <2>3. Outcome(o)' = [Outcome(o) EXCEPT ![t] = "waiting"] BY <1>0, <2>2, QuietEnded, OutcomeOf
  <2> QED BY <1>8, <1>9, <1>10, <2>1, <2>3, BeginsToWait
<1>14. Sound(t)'
  <2>1. Waiting(k, t)' = Waiting(k', t) BY DEF Waiting
  <2>2. k'.error[t] = "ok" BY <1>2 DEF Plain
  <2> QED BY <1>1, <2>1, <2>2 DEF Sound
<1>15. \A x \in Thread \ {t} : Sound(x)'
  <2>1. \A x \in Thread : Seated(x)' BY DEF Waits
  <2> QED BY <2>1, QuietSound
<1> QED BY <1>12, <1>13, <1>14, <1>15 DEF Implements

\* rt_sem_take up to the switch to another thread, and rt_sem_trytake.
LEMMA TakeImplements ==
  ASSUME NEW C, Proper(C), SemStep(C), Prompt, NEW t \in Thread, t = k.current, Take(t) \/ Poll(t)
  PROVE  Implements
<1>0. DOMAIN k = Fields /\ Listed(k) /\ k.value \in [Semaphore -> 0 .. ValueMax]
  BY DEF SemStep, QueuesOK, Waits, Plain
<1>1. PICK c : c = Call(t) OBVIOUS
<1>2. pc \in [Thread -> Label] /\ calls \in [Thread -> Seq(C)] BY DEF SemStep, CallsOK
<1>3. pc[t] = "user" /\ calls[t] # <<>> /\ c.op \in {"take", "poll"} BY <1>1 DEF Take, Poll, Calls
<1>4. c.on \in Semaphore BY <1>1, <1>3, Called DEF CallsOK, SemStep, ProperCall
<1>5. PICK o \in Semaphore : o = c.on BY <1>4
<1>6. \A y \in Thread \ {t} : pc'[y] = pc[y] /\ calls'[y] = calls[y]
  BY <1>2 DEF Take, Poll, Goto, Return, Stay
<1>7. pc'[t] \in {"user", "schedule"} BY <1>2, <1>3 DEF Take, Poll, Goto, Return, Stay
<1>8. ~Taking(t) /\ ~Detaches(t) /\ ~Detaches(t)' BY <1>3, <1>7 DEF Taking, Detaches
<1>9. \A y : Detaching(y)' <=> Detaching(y) BY <1>6, <1>8, DetachingKept
<1>10. CASE k' = k /\ pc'[t] = "user"
  <2>1. \A y : Gone(y)' <=> Gone(y) BY <1>9, <1>10 DEF Gone
  <2>2. Quiet(t) BY <1>8, <1>10 DEF Quiet, Taking
  <2> QED BY <1>6, <1>10, <2>1, <2>2, StillImplements DEF SemStep
<1>11. CASE k.value[o] > 0 /\ k' = [k EXCEPT !.value[o] = @ - 1] /\ pc'[t] = "user"
  <2>1. Changes(k, k', {"value"}) /\ k'.value = [k.value EXCEPT ![o] = k.value[o] - 1]
    BY <1>0, <1>11 DEF Changes, Fields
  <2>e. k'.waiting = k.waiting /\ k'.error = k.error BY <2>1 DEF Changes, Fields
  <2>2. Moves(k, k', {}) BY <1>0, <2>1, NobodyMoves
  <2>3. ASSUME NEW y \in Thread PROVE Quiet(y)
    <3>1. CASE y = t BY <1>8, <1>11, <3>1 DEF Quiet, Taking
    <3>2. CASE y # t BY <1>6, <1>9, <2>e, <2>2, <3>2, OthersQuiet
    <3> QED BY <3>1, <3>2
  <2>4. PICK n \in Nat : n = k.value[o] - 1 BY <1>0, <1>11, SchedAssumption
  <2> QED BY <1>11, <2>1, <2>e, <2>3, <2>4, CountImplements DEF SemStep
<1>12. CASE k.value[o] = 0 /\ k' = Block(k, o, t, c.arg) /\ pc'[t] = "schedule" /\ calls' = calls /\ c.op = "take"
  <2>1. ~About(t) BY <1>1, <1>3, <1>12 DEF About, Calls
  <2>2. k.stat[t] = "ready" /\ Waiting(k, t) = {} BY <2>1, Running DEF SemStep
  <2>3. Call(t)' = Call(t) BY <1>12 DEF Call
  <2>4. Moves(k, k', {t}) BY <1>0, <1>12, <2>2, BlockMoves DEF WaitList
  <2>5. k'.error = [k.error EXCEPT ![t] = "ok"]
    <3>1. PICK time : time = c.arg OBVIOUS
    <3>2. DOMAIN k = Fields /\ k' = Block(k, o, t, time) BY <1>0, <1>12, <3>1
    <3>3. Enqueues(k, k', o, t, time) BY <3>2, BlockEffect
    <3> QED BY <3>3 DEF Enqueues
  <2>6. ASSUME NEW y \in Thread \ {t} PROVE Quiet(y)
    <3>1. k'.error[y] = k.error[y] BY <2>5, <2>6 DEF SemStep, Plain
    <3> QED BY <1>6, <1>9, <2>4, <2>6, <3>1, OthersQuiet
  <2> QED BY <1>1, <1>5, <1>8, <1>12, <2>2, <2>3, <2>6, BlockImplements DEF SemStep
<1>13. CASE Take(t)
  <2>1. c.op = "take" BY <1>1, <1>13 DEF Take, Calls
  <2>2. \/ k.value[o] > 0 /\ k' = [k EXCEPT !.value[o] = @ - 1] /\ Return(t)
        \/ k' = k /\ Return(t)
        \/ k.value[o] = 0 /\ k' = Block(k, o, t, c.arg) /\ Goto(t, "schedule")
    BY <1>1, <1>5, <1>13 DEF Take
  <2>3. Return(t) => pc'[t] = "user" BY <1>2 DEF Return
  <2>4. Goto(t, "schedule") => pc'[t] = "schedule" /\ calls' = calls BY <1>2 DEF Goto
  <2> QED BY <1>10, <1>11, <1>12, <2>1, <2>2, <2>3, <2>4
<1>14. CASE Poll(t)
  <2>1. pc'[t] = "user" BY <1>2, <1>3, <1>14 DEF Poll, Return, Stay
  <2>2. (k.value[o] > 0 /\ k' = [k EXCEPT !.value[o] = @ - 1]) \/ k' = k BY <1>1, <1>5, <1>14 DEF Poll
  <2> QED BY <1>10, <1>11, <2>1, <2>2
<1> QED BY <1>13, <1>14

\* The thread looks at its error code: it waits no more, and it learns how its wait ended.
LEMMA TakeReturnImplements ==
  ASSUME NEW C, Proper(C), SemStep(C), Prompt, NEW t \in Thread, t = k.current, TakeReturn(t)
  PROVE  Implements
<1>0. Listed(k) /\ Listed(k') /\ k' = k /\ Listed(k)' BY DEF SemStep, QueuesOK, Waits, TakeReturn, Listed
<1>1. PICK c : c = Call(t) OBVIOUS
<1>2. pc \in [Thread -> Label] BY DEF SemStep, CallsOK
<1>3. pc[t] = "return" /\ c.op = "take" /\ pc'[t] = "user" BY <1>1, <1>2 DEF TakeReturn, At, Return
<1>4. c.on \in Semaphore
  <2>1. calls[t] # <<>> BY <1>3 DEF SemStep, CallsOK
  <2> QED BY <1>1, <1>3, <2>1, Called DEF CallsOK, SemStep, ProperCall
<1>5. PICK o \in Semaphore : o = c.on BY <1>4
<1>6. \A y \in Thread \ {t} : pc'[y] = pc[y] /\ calls'[y] = calls[y] BY DEF TakeReturn, Return
<1>7. ~Detaches(t) /\ ~Detaches(t)' /\ Taking(t) /\ ~Taking(t)' BY <1>1, <1>3 DEF Detaches, Taking
<1>8. \A y : Detaching(y)' <=> Detaching(y) BY <1>6, <1>7, DetachingKept
<1>9. ~Out(k, t) /\ k.stat[t] = "ready" /\ Waiting(k, t) = {}
  <2>1. ~About(t) BY <1>3 DEF About, Calls
  <2> QED BY <2>1, Running DEF SemStep
<1>10. ~Detaching(t)
  <2> SUFFICES ASSUME NEW y \in Thread, Detaches(y), Call(y).on = t PROVE FALSE BY DEF Detaching, Detaches
  <2>1. \A p \in Priority : ~Contains(k.ready[p], t)
    BY DEF SemStep, Orderly, NobodyInterferes, Detaches
  <2> QED BY <1>9, <2>1, NotContained DEF SemStep
<1>11. ASSUME NEW y \in Thread \ {t} PROVE Quiet(y)
  BY <1>0, <1>6, <1>8, <1>11, MovedQuiet DEF Gone
<1>12. ASSUME NEW a \in Semaphore, a # o PROVE Step(a)
  <2>1. Ended(a, t) = "none" /\ Ended(a, t)' = "none" BY <1>0, <1>1, <1>5, <1>7, <1>12, EndedIs
  <2>2. \A x \in Thread : Ended(a, x)' = Ended(a, x) BY <1>0, <1>11, <2>1, QuietEnded
  <2> QED BY <1>0, <2>2, OutcomeSame, Stutters
<1>13. Step(o)
  <2>1. ~Gone(t) BY <1>9, <1>10 DEF Gone
  <2>2. k.error[t] \in Errors BY DEF SemStep, Plain
  <2>3. Ended(o, t) \in {"granted", "timeout", "error"} BY <1>0, <1>1, <1>5, <1>7, <1>9, <2>1, <2>2, EndedIs DEF Errors
  <2>4. Ended(o, t)' = "none" BY <1>0, <1>7, EndedIs
  <2>5. Outcome(o)' = [Outcome(o) EXCEPT ![t] = "none"] BY <1>0, <1>11, <2>4, QuietEnded, OutcomeOf
  <2> QED BY <1>0, <2>3, <2>5, Returns
<1>14. Sound(t)'
  <2>1. Waiting(k, t)' = Waiting(k', t) BY DEF Waiting
  <2> QED BY <1>0, <1>7, <1>9, <2>1 DEF Sound
<1>15. \A x \in Thread \ {t} : Sound(x)'
  <2>1. \A x \in Thread : Seated(x)' BY DEF SemStep, Waits
  <2> QED BY <1>11, <2>1, QuietSound DEF SemStep
<1> QED BY <1>12, <1>13, <1>14, <1>15 DEF Implements

-----------------------------------------------------------------------------
(***************************************************************************)
(* rt_ipc_list_resume_all sends all waiting threads away.                  *)
(***************************************************************************)
\* After i rounds: the first i threads of the list have been sent away.
Sent(s, a, o, i) ==
  LET q == s.waiting[o] IN
  /\ \E W \in SUBSET Range(q) : Revives(s, a, W)
  /\ \A x \in WaitList \ {o} : a.waiting[x] = s.waiting[x]
  /\ Len(a.waiting[o]) = Len(q) - i /\ \A j \in 1 .. Len(q) - i : a.waiting[o][j] = q[i + j]
  /\ a.error \in [Thread -> Errors]
  /\ \A x \in Thread : a.error[x] = IF \E j \in 1 .. i : q[j] = x THEN "error" ELSE s.error[x]

LEMMA RoundSends ==
  ASSUME NEW s, Listed(s), WaitersSleep(s), NEW o \in WaitList,
         \A x \in Range(s.waiting[o]) : Waiting(s, x) = {o},
         NEW i \in Nat, i < Len(s.waiting[o]), NEW a, Sent(s, a, o, i), NEW b, b = ResumeWithError(a, o)
  PROVE  Sent(s, b, o, i + 1)
<1> DEFINE n == Len(s.waiting[o])
<1>1. PICK q \in Seq(Thread) : q = s.waiting[o] BY DEF Listed
<1>2. PICK W \in SUBSET Range(q) : Revives(s, a, W) BY <1>1 DEF Sent
<1>3. Listed(a) /\ WaitersSleep(a) BY <1>2, WaitersStillSleep DEF Revives, Moves
<1>4. PICK w \in Seq(Thread) : w = a.waiting[o] BY <1>3 DEF Listed
<1>5. /\ n = Len(q) /\ n \in Nat /\ DOMAIN q = 1 .. n
      /\ Len(w) = n - i /\ \A j \in 1 .. n - i : w[j] = q[i + j]
  BY <1>1, <1>4 DEF Sent
<1> HIDE DEF n
<1>6. i + 1 \in 1 .. n /\ n - i \in Nat /\ 1 \in 1 .. n - i BY <1>1, <1>5 DEF n
<1>7. w # <<>> /\ Head(w) = q[i + 1] /\ NoDuplicates(w)
  <2>1. w # <<>> /\ Head(w) = w[1] BY <1>5, <1>6, EmptySeq
  <2>2. NoDuplicates(w) BY <1>3, <1>4 DEF Listed
  <2> QED BY <1>5, <1>6, <2>1, <2>2
<1>8. PICK h : h = Head(w) OBVIOUS
<1>9. h \in Thread /\ h \in Range(q) /\ a.stat[h] = "suspend"
  <2>1. h \in Thread /\ a.stat[h] = "suspend" BY <1>3, <1>4, <1>7, <1>8, FirstWaits
  <2> QED BY <1>5, <1>6, <1>7, <1>8, <2>1 DEF Range
<1>10. /\ Changes(a, b, QueueParts \cup TimerParts \cup {"stat", "error"})
       /\ b.error = [a.error EXCEPT ![h] = "error"] /\ b.stat = [a.stat EXCEPT ![h] = "ready"]
       /\ b.waiting = Without(a.waiting, h)
  <2>1. DOMAIN a = Fields /\ h = Head(a.waiting[o]) BY <1>3, <1>4, <1>8 DEF Listed
  <2>2. a.stat[h] = "suspend" /\ b = ResumeWithError(a, o) BY <1>9
  <2>3. SendsAway(a, b, h) BY ONLY <2>1, <2>2, SentAway
  <2> QED BY <2>3 DEF SendsAway
<1>11. \E X \in SUBSET Range(q) : Revives(s, b, X)
  <2> DEFINE e == [a EXCEPT !.error[h] = "error"]
  <2>1. Changes(a, e, {"error"}) BY <1>3 DEF Listed, Changes, Fields
  <2>2. b = rt_thread_resume(e, h) BY <1>4, <1>8 DEF ResumeWithError
  <2> HIDE DEF e
  <2>3. Revives(a, e, {}) BY <1>3, <2>1, NobodyRevives
  <2>4. Listed(e) /\ e.stat[h] = "suspend" BY <1>9, <2>3 DEF Revives, Moves, Same
  <2>5. Moves(e, b, {h}) /\ ~Out(b, h) /\ InNoList(b, h) /\ b.stat = [e.stat EXCEPT ![h] = "ready"]
    BY <1>9, <2>2, <2>4, ResumeMoves
  <2>6. b.stat[h] = "ready" BY <1>9, <2>4, <2>5 DEF Listed
  <2>7. Revives(e, b, {h}) BY <1>9, <2>4, <2>5, <2>6 DEF Revives
  <2>8. Revives(a, b, {} \cup {h}) BY <2>3, <2>7, RevivesInTurn
  <2>9. Revives(s, b, W \cup ({} \cup {h})) BY <1>2, <2>8, RevivesInTurn
  <2> QED BY <1>9, <2>9
<1>12. ASSUME NEW x \in WaitList \ {o} PROVE b.waiting[x] = s.waiting[x]
  <2>1. a.waiting[x] = s.waiting[x] BY <1>12 DEF Sent
  <2>2. h \notin Range(s.waiting[x])
    <3>1. Waiting(s, h) = {o} BY <1>1, <1>9
    <3> QED BY <1>12, <3>1 DEF Waiting
  <2>3. x \notin Waiting(a, h) BY <2>1, <2>2 DEF Waiting
  <2>4. Without(a.waiting, h)[x] = a.waiting[x] BY <1>3, <1>12, <2>3, WithoutElsewhere
  <2> QED BY <1>10, <2>1, <2>4
<1>13. /\ Len(b.waiting[o]) = n - (i + 1)
       /\ \A j \in 1 .. n - (i + 1) : b.waiting[o][j] = q[(i + 1) + j]
  <2>1. b.waiting[o] = RemoveFirst(w, h) BY <1>4, <1>10 DEF Without
  <2>2. b.waiting[o] = Tail(w) BY <1>7, <1>8, <2>1, RemoveHead
  <2>3. Len(Tail(w)) = Len(w) - 1 /\ \A j \in 1 .. Len(w) - 1 : Tail(w)[j] = w[j + 1]
    BY <1>7, HeadTailProperties
  <2>4. (n - i) - 1 = n - (i + 1) BY <1>5
  <2>5. ASSUME NEW j \in 1 .. n - (i + 1) PROVE Tail(w)[j] = q[(i + 1) + j]
    <3>1. j \in 1 .. Len(w) - 1 /\ j + 1 \in 1 .. n - i /\ i + (j + 1) = (i + 1) + j BY <1>5, <2>4, <2>5
    <3> QED BY <1>5, <2>3, <3>1
  <2> QED BY <1>5, <2>2, <2>3, <2>4, <2>5
<1>14. /\ b.error \in [Thread -> Errors]
       /\ \A x \in Thread : b.error[x] = IF \E j \in 1 .. i + 1 : q[j] = x THEN "error" ELSE s.error[x]
  <2>1. /\ a.error \in [Thread -> Errors]
        /\ \A x \in Thread : a.error[x] = IF \E j \in 1 .. i : q[j] = x THEN "error" ELSE s.error[x]
    BY <1>1 DEF Sent
  <2>2. b.error \in [Thread -> Errors] BY <1>10, <2>1 DEF Errors
  <2>3. ASSUME NEW x \in Thread
        PROVE  b.error[x] = IF \E j \in 1 .. i + 1 : q[j] = x THEN "error" ELSE s.error[x]
    <3>1. b.error[x] = IF x = h THEN "error" ELSE a.error[x] BY <1>10, <2>1
    <3>2. (\E j \in 1 .. i + 1 : q[j] = x) <=> (\E j \in 1 .. i : q[j] = x) \/ x = h
      BY <1>7, <1>8
    <3>3. a.error[x] = IF \E j \in 1 .. i : q[j] = x THEN "error" ELSE s.error[x] BY <2>1
    <3> QED BY <3>1, <3>2, <3>3
  <2> QED BY <2>2, <2>3
<1> QED BY <1>1, <1>11, <1>12, <1>13, <1>14 DEF Sent, n

LEMMA AllSent ==
  ASSUME NEW s, Listed(s), WaitersSleep(s), s.error \in [Thread -> Errors], NEW o \in WaitList,
         \A x \in Range(s.waiting[o]) : Waiting(s, x) = {o}
  PROVE  LET r == ResumeAll(s, o) IN
         /\ \E W \in SUBSET Range(s.waiting[o]) : Revives(s, r, W)
         /\ r.waiting[o] = <<>> /\ \A x \in WaitList \ {o} : r.waiting[x] = s.waiting[x]
         /\ \A x \in Thread : r.error[x] = IF x \in Range(s.waiting[o]) THEN "error" ELSE s.error[x]
         /\ Changes(s, r, RoundFields)
<1> DEFINE n == Len(s.waiting[o])
           r == ResumeAll(s, o)
<1>1. n \in Nat /\ DOMAIN s = Fields BY DEF Listed
<1>2. PICK after : /\ after[0] = s
                   /\ \A i \in 1 .. n : after[i] = ResumeWithError(after[i - 1], o)
                   /\ DOMAIN r = Fields
                   /\ \A f \in RoundFields : r[f] = after[n][f]
                   /\ \A f \in Fields \ RoundFields : r[f] = s[f]
  BY <1>1, Rounds
<1> DEFINE S == {i \in 0 .. n : Sent(s, after[i], o, i)}
<1>3. 0 \in S
  <2>1. Changes(s, s, {}) BY <1>1 DEF Changes
  <2>2. Revives(s, s, {}) BY <2>1, NobodyRevives
  <2>3. Sent(s, s, o, 0)
    <3>1. \E W \in SUBSET Range(s.waiting[o]) : Revives(s, s, W) BY <2>2
    <3>2. s.waiting[o] \in Seq(Thread) BY DEF Listed
    <3> QED BY <3>1, <3>2 DEF Sent
  <2> QED BY <1>1, <1>2, <2>3
<1>4. ASSUME NEW i \in 0 .. n - 1, i \in S PROVE i + 1 \in S
  <2>1. i + 1 \in 1 .. n /\ i + 1 \in 0 .. n /\ (i + 1) - 1 = i /\ i \in Nat /\ i < n BY <1>1
  <2>2. after[i + 1] = ResumeWithError(after[i], o) /\ Sent(s, after[i], o, i) BY <1>2, <1>4, <2>1
  <2>3. Sent(s, after[i + 1], o, i + 1) BY <2>1, <2>2, RoundSends
  <2> QED BY <2>1, <2>3
<1>5. n \in S
  <2> HIDE DEF S, n
  <2>1. 0 .. n \subseteq S BY <1>1, <1>3, <1>4, UpTo
  <2> QED BY <1>1, <2>1
<1>6. PICK l : l = after[n] OBVIOUS
<1>7. Sent(s, l, o, n) BY <1>5, <1>6
<1>8. PICK q \in Seq(Thread) : q = s.waiting[o] BY DEF Listed
<1>9. PICK W \in SUBSET Range(q) : Revives(s, l, W) BY <1>7, <1>8 DEF Sent
<1>10. l.waiting[o] = <<>>
  <2>1. l.waiting[o] \in Seq(Thread) BY <1>9 DEF Revives, Moves, Listed
  <2>2. Len(l.waiting[o]) = 0 BY <1>1, <1>7 DEF Sent
  <2> QED BY <2>1, <2>2, EmptySeq
<1>11. \A x \in Thread : l.error[x] = IF x \in Range(q) THEN "error" ELSE s.error[x]
  <2>1. \A x : (\E j \in 1 .. n : q[j] = x) <=> x \in Range(q) BY <1>8 DEF Range
  <2> QED BY <1>7, <1>8, <2>1 DEF Sent
<1>12. \A x \in WaitList \ {o} : l.waiting[x] = s.waiting[x] BY <1>7 DEF Sent
<1> HIDE DEF r, n, S
<1>13. /\ DOMAIN r = Fields /\ r.ready = l.ready /\ r.waiting = l.waiting /\ r.stat = l.stat
       /\ r.activated = l.activated /\ r.error = l.error
  BY <1>2, <1>6 DEF Fields, RoundFields
<1>14. r.priority = s.priority BY <1>2 DEF Fields, RoundFields
<1>15. Changes(s, r, RoundFields) BY <1>1, AllEffect DEF r
<1>16. \A x : (Out(r, x) <=> Out(l, x)) /\ Waiting(r, x) = Waiting(l, x) BY <1>13 DEF Out, Waiting
<1>17. r.priority \in [Thread -> Priority] BY <1>14 DEF Listed
<1>18. Listed(r) BY <1>9, <1>13, <1>17 DEF Listed, Revives, Moves
<1>19. Revives(s, r, W) BY <1>9, <1>13, <1>16, <1>18 DEF Revives, Moves, Same, InNoList
<1> QED BY <1>8, <1>9, <1>10, <1>11, <1>12, <1>13, <1>15, <1>19 DEF r

LEMMA ResetImplements ==
  ASSUME NEW C, Proper(C), SemStep(C), NEW t \in Thread, Reset(t) PROVE Implements
<1>0. /\ DOMAIN k = Fields /\ Listed(k) /\ Listed(k') /\ Listed(k)' /\ WaitersSleep(k)
      /\ \A x \in Thread : Seated(x)
  BY DEF SemStep, QueuesOK, Waits, WaitersSleep, Seated, Listed
<1>1. PICK c : c = Call(t) OBVIOUS
<1>2. PICK o : o = c.on OBVIOUS
<1>3. pc \in [Thread -> Label] BY DEF SemStep, CallsOK
<1>4. /\ pc[t] = "user" /\ pc'[t] = "schedule" /\ calls' = calls /\ calls[t] # <<>> /\ c.op = "reset"
      /\ k' = [ResumeAll(k, o) EXCEPT !.value[o] = c.arg]
  BY <1>1, <1>2, <1>3 DEF Reset, Calls, Goto
<1>5. o \in Semaphore /\ o \in WaitList /\ c.arg \in 0 .. ValueMax
  BY <1>1, <1>2, <1>4, Called DEF CallsOK, SemStep, ProperCall, WaitList
<1>6. \A y \in Thread \ {t} : pc'[y] = pc[y] /\ calls'[y] = calls[y] BY <1>3 DEF Reset, Goto
<1>7. ~Taking(t) /\ ~Taking(t)' /\ ~Detaches(t) /\ ~Detaches(t)' BY <1>1, <1>4 DEF Taking, Detaches, Call
<1>8. \A y : Detaching(y)' <=> Detaching(y) BY <1>6, <1>7, DetachingKept
<1>9. PICK q \in Seq(Thread) : q = k.waiting[o] BY <1>0, <1>5 DEF Listed
\* Who waits in the list is in rt_sem_take of this semaphore.
<1>10. \A x \in Range(q) : /\ x \in Thread \ {t} /\ Waiting(k, x) = {o} /\ k.stat[x] = "suspend"
                           /\ Taking(x) /\ Call(x).on = o
  <2> SUFFICES ASSUME NEW x \in Range(q)
               PROVE  /\ x \in Thread \ {t} /\ Waiting(k, x) = {o} /\ k.stat[x] = "suspend"
                      /\ Taking(x) /\ Call(x).on = o
    OBVIOUS
  <2>1. x \in Thread /\ o \in Waiting(k, x) BY <1>5, <1>9 DEF Waiting, Range
  <2>2. k.stat[x] = "suspend" /\ Taking(x) /\ Call(x).on = o /\ Waiting(k, x) = {o}
    BY <1>0, <2>1 DEF Seated, Taking
  <2> QED BY <1>7, <2>1, <2>2
<1>11. PICK r : r = ResumeAll(k, o) OBVIOUS
<1>12. /\ \E W \in SUBSET Range(q) : Revives(k, r, W)
       /\ r.waiting[o] = <<>> /\ \A x \in WaitList \ {o} : r.waiting[x] = k.waiting[x]
       /\ \A x \in Thread : r.error[x] = IF x \in Range(q) THEN "error" ELSE k.error[x]
       /\ Changes(k, r, RoundFields)
  <2>1. k.error \in [Thread -> Errors] BY DEF SemStep, Plain
  <2>2. \A x \in Range(k.waiting[o]) : Waiting(k, x) = {o} BY <1>9, <1>10
  <2>3. Listed(k) /\ WaitersSleep(k) /\ o \in WaitList BY <1>0, <1>5
  <2> QED BY ONLY <1>9, <1>11, <2>1, <2>2, <2>3, AllSent
<1>13. PICK W \in SUBSET Range(q) : Revives(k, r, W) BY <1>12
<1>14. /\ Changes(r, k', {"value"}) /\ k'.waiting = r.waiting /\ k'.error = r.error
       /\ r.value = k.value /\ k'.value = [k.value EXCEPT ![o] = c.arg]
  <2>1. DOMAIN r = Fields /\ r.value = k.value BY <1>12 DEF Changes, Fields, RoundFields
  <2>2. k' = [r EXCEPT !.value[o] = c.arg] BY <1>4, <1>11
  <2> QED BY <2>1, <2>2 DEF Changes, Fields
<1>15. Revives(k, k', W)
  <2>1. Listed(r) BY <1>13 DEF Revives, Moves
  <2>2. Revives(r, k', {}) BY <1>14, <2>1, NobodyRevives
  <2>3. Revives(k, k', W \cup {}) BY <1>13, <2>2, RevivesInTurn
  <2> QED BY <2>3
\* All who wait are sent away, and are ready.
<1>16. ASSUME NEW x \in Range(q) PROVE k'.stat[x] = "ready" /\ InNoList(k', x)
  <2>1. x \in W
    <3> SUFFICES ASSUME x \notin W PROVE FALSE OBVIOUS
    <3>1. Waiting(k', x) = {o} BY <1>10, <1>15, <1>16 DEF Revives, Moves, Same
    <3>2. k'.waiting[o] = <<>> BY <1>12, <1>14
    <3> QED BY <1>5, <3>1, <3>2 DEF Waiting, Range
  <2> QED BY <1>15, <2>1 DEF Revives
<1>17. ASSUME NEW y \in Thread, y \notin Range(q) PROVE Quiet(y)
  <2>1. CASE y = t BY <1>7, <2>1 DEF Quiet
  <2>2. CASE y # t
    <3>1. k'.error[y] = k.error[y] /\ Moves(k, k', W) BY <1>12, <1>14, <1>15, <1>17 DEF Revives
    <3>2. y \in Thread \ W /\ pc'[y] = pc[y] /\ calls'[y] = calls[y] BY <1>6, <1>17, <2>2
    <3> QED BY <1>8, <3>1, <3>2, OthersQuiet
  <2> QED BY <2>1, <2>2
<1>18. ASSUME NEW x \in Range(q) PROVE Taking(x)' /\ Call(x)'.on = o /\ ~Gone(x)' /\ k'.error[x] = "error"
  <2>1. x \in Thread \ {t} /\ Taking(x) /\ Call(x).on = o /\ Waiting(k, x) # {} BY <1>10
  <2>2. Taking(x)' /\ Call(x)'.on = o BY <1>6, <2>1 DEF Taking, Call
  <2>3. ~Gone(x) BY <2>1, WaiterIsHere DEF SemStep
  <2>4. ~Gone(x)' BY <1>8, <1>16, <2>3 DEF Gone
  <2> QED BY <1>12, <1>14, <2>1, <2>2, <2>4
<1>19. Step(o)
  <2>1. ASSUME NEW x \in Thread PROVE Ended(o, x)' = IF x \in Range(q) THEN "error" ELSE Ended(o, x)
    <3>1. CASE x \in Range(q)
      <4>1. o \notin Waiting(k', x) BY <1>16, <3>1 DEF InNoList
      <4> QED BY <1>0, <1>5, <1>18, <3>1, <4>1, EndedIs
    <3>2. CASE x \notin Range(q) BY <1>0, <1>5, <1>17, <3>2, QuietEnded
    <3> QED BY <3>1, <3>2
  <2>2. k'.value[o] \in 0 .. ValueMax /\ k'.waiting[o] = <<>>
    BY <1>5, <1>12, <1>14 DEF SemStep, Plain
  <2> QED BY <1>9, <2>1, <2>2, SendsAllAway
<1>20. ASSUME NEW a \in Semaphore, a # o PROVE Step(a)
  <2>1. ASSUME NEW x \in Thread PROVE Ended(a, x)' = Ended(a, x)
    <3>1. CASE x \in Range(q)
      <4>1. Ended(a, x)' = "none" /\ Ended(a, x) = "none" BY <1>0, <1>10, <1>18, <1>20, <3>1, EndedIs
      <4> QED BY <4>1
    <3>2. CASE x \notin Range(q) BY <1>0, <1>17, <3>2, QuietEnded
    <3> QED BY <3>1, <3>2
  <2>2. k'.value[a] = k.value[a] /\ k'.waiting[a] = k.waiting[a]
    BY <1>12, <1>14, <1>20 DEF SemStep, Plain, WaitList
  <2> QED BY <2>1, <2>2, OutcomeSame, Stutters
<1>21. ASSUME NEW x \in Thread PROVE Sound(x)'
  <2>1. CASE x \in Range(q)
    <3>1. Waiting(k, x)' = Waiting(k', x) BY DEF Waiting
    <3> QED BY <1>16, <2>1, <3>1 DEF Sound, InNoList
  <2>2. CASE x \notin Range(q)
    <3>1. Seated(x)' BY DEF SemStep, Waits
    <3> QED BY <1>17, <2>2, <3>1, QuietSound DEF SemStep
  <2> QED BY <2>1, <2>2
<1> QED BY <1>19, <1>20, <1>21 DEF Implements

-----------------------------------------------------------------------------
(***************************************************************************)
(* The steps of the timer interrupt.                                       *)
(***************************************************************************)
\* The step of a timer's timeout function: of a thread's timer, or of one that signals.
LEMMA ExpiryImplements ==
  ASSUME NEW C, Proper(C), SemStep(C), Orderly', QueuesOK(k'), TimersOK(k, {}, 0), TimerExpires
  PROVE  Implements
<1>0. /\ DOMAIN k = Fields /\ Listed(k) /\ WaitersSleep(k)
      /\ \A x \in Thread : Seated(x) /\ Timed(x) /\ Aims(x) /\ Sound(x)
  BY DEF SemStep, QueuesOK, Waits, WaitersSleep, Seated
<1>1. pc' = pc /\ calls' = calls BY DEF TimerExpires
<1>2. \A y : (Detaching(y)' <=> Detaching(y)) /\ Steady(y) BY <1>1 DEF Detaching, Call, Steady
<1>3. PICK x : x = Head(k.timers) OBVIOUS
<1> DEFINE a == [k EXCEPT !.timers = Tail(@)]
           d == rt_timer_detach(k, x)
<1>4. k' = (IF x \in Periodic THEN rt_timer_start(Fire(a, x), x, k.init_tick[x]) ELSE Fire(d, x))
  BY <1>3 DEF TimerExpires, Expire
<1>5. x \in Timer /\ x \in k.activated
  <2>1. k.timers \in Seq(Timer) /\ k.timers # <<>> /\ Range(k.timers) = k.activated
    BY DEF TimersOK, TimerExpires, TimerIsDue
  <2>2. 1 \in DOMAIN k.timers /\ x = k.timers[1] BY <1>3, <2>1, EmptySeq
  <2> QED BY <2>1, <2>2 DEF Range
<1>6. Changes(k, a, {"timers"}) BY <1>0 DEF Changes, Fields
<1>7. /\ Moves(k, d, {x}) /\ d.stat = k.stat /\ x \notin d.activated
      /\ Waiting(d, x) = Waiting(k, x)
  BY <1>0, TimerMoves
<1>8. Changes(k, d, TimerParts) BY <1>0, DetachEffect
<1>9. d.waiting = k.waiting /\ d.value = k.value /\ d.error = k.error
  BY <1>8 DEF Changes, TimerParts, Fields
<1> HIDE DEF a, d
<1>10. CASE x \in Thread
  <2>1. x \notin Periodic BY <1>10, SchedAssumption
  <2>2. k' = rt_thread_timeout(d, x) BY <1>4, <1>10, <2>1 DEF Fire
  <2>3. /\ Moves(d, k', {x}) /\ ~Out(k', x) /\ Waiting(k', x) = {}
        /\ k'.activated = d.activated /\ k'.stat = [d.stat EXCEPT ![x] = "ready"]
    BY <1>7, <1>10, <2>2, TimeoutMoves DEF Moves
  <2>4. /\ Changes(d, k', QueueParts \cup Processor \cup {"stat", "error"})
        /\ k'.error = [d.error EXCEPT ![x] = "timeout"] /\ k'.waiting = Without(d.waiting, x)
    <3>1. DOMAIN d = Fields BY <1>8 DEF Changes
    <3> QED BY <2>2, <3>1, TimeoutEffect
  <2>5. k'.value = k.value BY <1>9, <2>4 DEF Changes, QueueParts, Processor, Fields
  <2>6. Moves(k, k', {x}) BY <1>7, <2>3 DEF Moves, Same
  <2>7. InNoList(k', x) BY <1>7, <2>3 DEF InNoList
  <2>8. k'.stat[x] = "ready" BY <1>7, <1>10, <2>3 DEF Moves, Listed
  <2>9. k'.error[x] = "timeout" /\ \A y \in Thread \ {x} : k'.error[y] = k.error[y]
    BY <1>9, <1>10, <2>4 DEF SemStep, Plain
  <2>10. k'.waiting = Without(k.waiting, x) BY <1>9, <2>4
  <2>11. CASE Taking(x)
    <3>1. ~Gone(x)
      <4>1. k.stat[x] = "suspend" BY <1>0, <1>5, <1>10 DEF Timed
      <4> SUFFICES ASSUME NEW y \in Thread, pc[y] \in {"detach_timer", "detach_close"}, Call(y).on = x
                   PROVE  FALSE
        BY <4>1 DEF Gone, Detaching
      <4>2. pc[y] # "detach_close" BY <1>0, <1>5 DEF Aims, InNoList
      <4>3. pc'[y] = "detach_timer" /\ Call(y)'.on = x BY <1>1, <4>2 DEF Call
      <4>4. \A p \in Priority : ~Contains(k'.ready[p], x) BY <4>3 DEF Orderly
      <4> QED BY <2>3, <4>4, NotContained
    <3>2. Waiting(k, x) # {} BY <1>0, <1>5, <1>10, <2>11, <3>1 DEF Sound
    <3>3. PICK o \in Semaphore : o \in Waiting(k, x) BY <1>10, <3>2, WaitForSemaphores DEF SemStep
    <3> QED BY <1>2, <1>10, <2>5, <2>6, <2>7, <2>8, <2>9, <2>10, <3>3, WaitEnds DEF SemStep
  <2>12. CASE ~Taking(x)
    <3>1. ~Taking(x)' BY <1>1, <2>12 DEF Taking, Call
    <3>2. Waiting(k, x) = {} BY <1>0, <1>10, <2>12 DEF Seated, Taking
    <3>3. k'.waiting = k.waiting BY <1>0, <2>10, <3>2, WithoutNobody
    <3>4. ASSUME NEW y \in Thread PROVE Quiet(y)
      <4>1. CASE y = x BY <2>12, <3>1, <4>1 DEF Quiet
      <4>2. CASE y # x BY <1>2, <2>6, <2>9, <4>2, SteadyQuiet
      <4> QED BY <4>1, <4>2
    <3> QED BY <2>5, <3>3, <3>4, QuietImplements DEF SemStep
  <2> QED BY <2>11, <2>12
<1>11. CASE x \notin Thread
  <2>1. PICK o \in Semaphore : o = Signals[x] BY <1>5, <1>11, SchedAssumption DEF Timer
  <2>2. o \in WaitList BY DEF WaitList
  <2>3. ASSUME NEW s, Kept(k, s)
        PROVE  LET r == Release(s, o) IN
               /\ Listed(s) /\ WaitersSleep(s) /\ Grants(s, r, o, Head(s.waiting[o])) /\ Listed(r)
               /\ Kept(r, Fire(s, x))
    <3> DEFINE r == Release(s, o)
    <3>1. Listed(s) /\ Revives(k, s, {}) BY <2>3 DEF Kept, Moves, Revives
    <3>2. WaitersSleep(s) BY <1>0, <3>1, WaitersStillSleep
    <3>3. Grants(s, r, o, Head(s.waiting[o])) BY <2>2, <3>1, <3>2, ReleaseGrants
    <3>4. Fire(s, x) = r \/ Fire(s, x) = ScheduleInInterrupt(r) BY <1>11, <2>1 DEF Fire
    <3> HIDE DEF r
    <3>5. Listed(r) BY <3>3 DEF Grants, Moves
    <3>6. DOMAIN r = Fields BY <3>5 DEF Listed
    <3>7. Changes(r, r, {}) /\ Changes(r, ScheduleInInterrupt(r), Processor)
      BY <3>6, SwitchEffect DEF Changes
    <3>8. Kept(r, r) /\ Kept(r, ScheduleInInterrupt(r)) BY <3>5, <3>7, OthersKept DEF Processor
    <3> QED BY <3>1, <3>2, <3>3, <3>4, <3>5, <3>8 DEF r
  <2>4. Kept(k, a) BY <1>0, <1>6, OthersKept
  <2>5. Kept(k, d) BY <1>7, <1>9, <1>11 DEF Kept, Moves
  <2>6. ASSUME NEW s, Kept(k, s), Kept(Fire(s, x), k') PROVE Grants(k, k', o, Head(s.waiting[o]))
    <3>1. PICK r : r = Release(s, o) OBVIOUS
    <3>2. /\ WaitersSleep(s) /\ Grants(s, r, o, Head(s.waiting[o]))
          /\ Kept(r, Fire(s, x))
      BY <2>3, <2>6, <3>1
    <3>3. Kept(r, k') BY <2>6, <3>2 DEF Kept, Moves, Same
    <3> QED BY <2>2, <2>6, <3>2, <3>3, GrantsAmid
  <2>7. \E h : Grants(k, k', o, h)
    <3>1. CASE x \in Periodic
      <4> DEFINE f == Fire(a, x)
      <4>1. Listed(f) BY <2>3, <2>4 DEF Kept, Moves
      <4>2. k' = rt_timer_start(f, x, k.init_tick[x]) BY <1>4, <3>1
      <4> HIDE DEF f
      <4>3. Moves(f, k', {x}) BY <4>1, <4>2, TimerMoves
      <4>4. Changes(f, k', TimerParts) BY <4>1, <4>2, StartEffect DEF Listed
      <4>5. k'.waiting = f.waiting /\ k'.value = f.value /\ k'.error = f.error
        BY <4>4 DEF Changes, TimerParts, Fields
      <4>6. Kept(f, k') BY <1>11, <4>3, <4>5 DEF Kept, Moves
      <4> QED BY <2>4, <2>6, <4>6 DEF f
    <3>2. CASE x \notin Periodic
      <4>1. k' = Fire(d, x) BY <1>4, <3>2
      <4>2. Listed(k') BY <2>3, <2>5, <4>1 DEF Kept, Moves
      <4>3. Kept(k', k') BY <4>2 DEF Kept, Moves, Same
      <4> QED BY <2>5, <2>6, <4>1, <4>3
    <3> QED BY <3>1, <3>2
  <2> QED BY <1>2, <2>7, GrantImplements
<1> QED BY <1>10, <1>11

\* The tick and the return from the interrupt are nothing to the semaphores.
LEMMA TickImplements ==
  ASSUME NEW C, SemStep(C), k.current \in Thread, Tick \/ TickReturns PROVE Implements
<1>0. DOMAIN k = Fields /\ Listed(k) BY DEF SemStep, QueuesOK, Waits
<1>1. pc' = pc /\ calls' = calls BY DEF Tick, TickReturns
<1>2. \A y : Detaching(y)' <=> Detaching(y) BY <1>1 DEF Detaching, Call
<1>3. ASSUME Kept(k, k') PROVE Implements
  <2>1. \A y \in Thread : Steady(y) BY <1>1 DEF Steady
  <2>2. \A y \in Thread : Quiet(y) BY <1>2, <1>3, <2>1, SteadyQuiet DEF Kept
  <2> QED BY <1>3, <2>2, QuietImplements DEF SemStep, Kept
<1>4. CASE TickReturns
  <2>1. Changes(k, k', Processor) BY <1>0, <1>4, SwitchEffect DEF TickReturns
  <2> QED BY <1>0, <1>3, <2>1, OthersKept DEF Processor
<1>5. CASE Tick
  <2>0. PICK t \in Thread : t = k.current OBVIOUS
  <2> DEFINE u == [k EXCEPT !.tick = (@ + 1) % TickMod]
             v == [u EXCEPT !.remaining_tick[t] = Slice[t]]
             w == [u EXCEPT !.remaining_tick[t] = @ - 1]
             r == Rotate(v, t)
  <2>1. k' = IF k.remaining_tick[t] > 1 THEN w
             ELSE IF CanYield(v, t) THEN ScheduleInInterrupt(r) ELSE v
    <3>1. u.remaining_tick = k.remaining_tick BY <1>0 DEF Fields
    <3> QED BY <1>5, <2>0, <3>1 DEF Tick, TickOver
  <2>2. Changes(k, v, {"tick", "remaining_tick"}) /\ Changes(k, w, {"tick", "remaining_tick"})
    BY <1>0 DEF Changes, Fields
  <2> HIDE DEF u, v, w
  <2>3. Kept(k, v) /\ Kept(k, w) BY <1>0, <2>2, OthersKept
  <2>4. CASE CanYield(v, t) /\ k' = ScheduleInInterrupt(r)
    <3>1. Listed(v) /\ DOMAIN v = Fields BY <2>3 DEF Kept, Moves, Listed
    <3>2. /\ Moves(v, r, {t}) /\ ~Out(r, t) /\ Waiting(r, t) = Waiting(v, t)
          /\ r.stat = v.stat /\ r.activated = v.activated
      BY <3>1, RotateMoves
    <3>3. r.waiting = v.waiting /\ r.value = v.value /\ r.error = v.error BY <3>1 DEF Rotate, Fields
    <3> HIDE DEF r
    <3>4. Changes(r, k', Processor) BY <2>4, <3>2, SwitchEffect DEF Moves, Listed
    <3>5. Kept(r, k') BY <3>2, <3>4, OthersKept DEF Processor, Moves
    <3>6. Moves(k, k', {t}) BY <2>3, <3>2, <3>5 DEF Kept, Moves, Same
    <3>7. k'.waiting = k.waiting /\ k'.value = k.value /\ k'.error = k.error BY <2>3, <3>3, <3>5 DEF Kept
    <3>8. k'.stat[t] = k.stat[t] /\ (t \in k'.activated <=> t \in k.activated)
      BY <2>3, <3>2, <3>5 DEF Kept, Moves, Same
    <3>9. ASSUME NEW y \in Thread PROVE Quiet(y)
      <4>1. CASE y = t
        <5>1. Waiting(k', t) = Waiting(k, t) BY <3>7 DEF Waiting
        <5>2. Gone(t)' <=> Gone(t) BY <1>2, <3>8 DEF Gone
        <5> QED BY <1>1, <3>7, <3>8, <4>1, <5>1, <5>2, MovedQuiet
      <4>2. CASE y # t BY <1>1, <1>2, <3>6, <3>7, <4>2, OthersQuiet
      <4> QED BY <4>1, <4>2
    <3> QED BY <3>7, <3>9, QuietImplements DEF SemStep
  <2> QED BY <1>3, <2>1, <2>3, <2>4
<1> QED BY <1>4, <1>5

-----------------------------------------------------------------------------
(***************************************************************************)
(* The theorem.                                                            *)
(***************************************************************************)
SemInv(C) == ListInv(C) /\ \A x \in Thread : Sound(x)

LEMMA SemaphoresInit ==
  ASSUME NEW C, Proper(C), Prompted, Init PROVE SemInv(C) /\ \A o \in Semaphore : Abstract(o)!Init
<1>1. ListInv(C) BY ListsInit
<1>2. /\ k.waiting = [o \in WaitList |-> <<>>] /\ k.activated = {}
      /\ k.value = [o \in Semaphore |-> 0]
  BY DEF Init, Booted
<1>3. \A x : Waiting(k, x) = {} BY <1>2 DEF Waiting, Range
<1>4. \A x \in Thread : Sound(x) BY <1>2, <1>3 DEF Sound
<1>5. ASSUME NEW o \in Semaphore PROVE Abstract(o)!Init
  <2>1. \A x \in Thread : Ended(o, x) = "none" BY DEF Init, Ended
  <2>2. Outcome(o) = [x \in Thread |-> "none"] BY <2>1 DEF Outcome
  <2>3. k.value[o] = 0 /\ k.waiting[o] = <<>> BY <1>2 DEF WaitList
  <2> QED BY <2>2, <2>3 DEF Abstract!Init
<1> QED BY <1>1, <1>4, <1>5 DEF SemInv

LEMMA NextImplements ==
  ASSUME NEW C, Proper(C), SemInv(C), Orderly, Orderly', WaitsUndisturbed, [Next]_vars
  PROVE  SemInv(C)' /\ [\A o \in Semaphore : Step(o)]_vars
<1>1. /\ ContextInv /\ TimerInv(C) /\ QueuesOK(k) /\ Waits /\ Prompt /\ Plain(k)
      /\ CallsOK(C) /\ ListInv(C) /\ \A x \in Thread : Sound(x)
  BY DEF SemInv, ListInv, KernelInv, TimerInv
<1>2. k.cpu \in Thread /\ k.current \in Thread BY <1>1 DEF ContextInv, Deferred
<1>3. ListInv(C)' BY <1>1, ListsKept
<1>4. Waits' /\ QueuesOK(k') BY <1>3 DEF ListInv, KernelInv
<1>5. SemStep(C) BY <1>1, <1>4 DEF SemStep
<1>6. ASSUME Implements PROVE SemInv(C)' /\ [\A o \in Semaphore : Step(o)]_vars
  BY <1>3, <1>6 DEF Implements, SemInv
<1>7. CASE RunThread
  <2>1. isr = "none" /\ k.cpu = k.current
    BY <1>1, <1>7, PairIsNotEmpty DEF RunThread, ContextInv, Deferred
  <2>2. PICK t \in Thread : t = k.cpu /\ t = k.current /\ ThreadStep(t) BY <1>2, <1>7, <2>1 DEF RunThread
  <2>3. CASE Schedule(t) BY <1>5, <1>6, <2>3, ScheduleImplements
  <2>4. CASE Detach(t) \/ DetachRemove(t) \/ DetachTimer(t) \/ DetachClose(t)
    BY <1>1, <1>5, <1>6, <2>2, <2>4, DetachImplements
  <2>5. CASE Take(t) \/ Poll(t) BY <1>1, <1>5, <1>6, <2>2, <2>5, TakeImplements
  <2>6. CASE TakeReturn(t) BY <1>1, <1>5, <1>6, <2>2, <2>6, TakeReturnImplements
  <2>7. CASE SemRelease(t) BY <1>5, <1>6, <2>7, SemReleaseImplements
  <2>8. CASE Reset(t) BY <1>5, <1>6, <2>8, ResetImplements
  <2>9. CASE DrainOne(t) BY <1>5, <1>6, <2>9, DrainImplements
  <2> QED BY <1>1, <1>5, <1>6, <2>2, <2>3, <2>4, <2>5, <2>6, <2>7, <2>8, <2>9, OrdinaryStepImplements
<1>8. CASE TimerExpires
  <2>1. isr # "none" BY <1>8 DEF TimerExpires
  <2>2. TimersOK(k, {}, 0) BY <1>1, <2>1 DEF TimerInv
  <2> QED BY <1>4, <1>5, <1>6, <1>8, <2>2, ExpiryImplements
<1>9. CASE Tick \/ TickReturns BY <1>2, <1>5, <1>6, <1>9, TickImplements
<1>10. CASE UNCHANGED vars
  <2>1. k' = k /\ pc' = pc /\ calls' = calls BY <1>10 DEF vars
  <2>2. \A x \in Thread : Sound(x)'
    BY <1>1, <2>1 DEF Sound, Taking, Gone, Detaching, Call
  <2> QED BY <1>3, <1>10, <2>2 DEF SemInv
<1> QED BY <1>7, <1>8, <1>9, <1>10 DEF Next

\* Every semaphore keeps what CountingSemaphore promises, whatever threads and timers do to it in
\* whatever order: a release hands its token to the thread that waits first or counts it, never both,
\* a wait that ends in success has had a token, and each wait ends once, by a token, the time limit,
\* a reset or a detach (ipc.c).
THEOREM SemaphoresKeepTheirPromise ==
  ASSUME NEW C, Proper(C), Prompted PROVE Spec /\ []Orderly /\ []WaitsUndisturbed => SemaphoresImplement
<1>1. Init => SemInv(C) /\ \A o \in Semaphore : Abstract(o)!Init BY SemaphoresInit
<1>2. SemInv(C) /\ Orderly /\ Orderly' /\ WaitsUndisturbed /\ [Next]_vars
        => SemInv(C)' /\ [\A o \in Semaphore : [Abstract(o)!Next]_(Abstract(o)!vars)]_vars
  BY NextImplements DEF Step
<1> QED BY <1>1, <1>2, PTL DEF Spec, SemaphoresImplement

-----------------------------------------------------------------------------
LEMMA TokensStep ==
  ASSUME NEW o \in Semaphore, Abstract(o)!TokenOrQueue, Step(o) PROVE Abstract(o)!TokenOrQueue'
<1> USE DEF Abstract!TokenOrQueue
<1>1. CASE Abstract(o)!Take BY <1>1 DEF Abstract!Take
<1>2. CASE Abstract(o)!Release BY <1>2 DEF Abstract!Release
<1>3. CASE Abstract(o)!Reset BY <1>3 DEF Abstract!Reset
<1>4. CASE Abstract(o)!Dismiss BY <1>4 DEF Abstract!Dismiss
<1>5. ASSUME NEW t \in Thread, Abstract(o)!Wait(t) PROVE Abstract(o)!TokenOrQueue'
  BY <1>5 DEF Abstract!Wait
<1>6. ASSUME NEW t \in Thread, Abstract(o)!Timeout(t) PROVE Abstract(o)!TokenOrQueue'
  BY <1>6 DEF Abstract!Timeout, Abstract!Leaves
<1>7. ASSUME NEW t \in Thread, Abstract(o)!Return(t) PROVE Abstract(o)!TokenOrQueue'
  BY <1>7 DEF Abstract!Return
<1>8. ASSUME NEW t \in Thread, Abstract(o)!Cease(t) PROVE Abstract(o)!TokenOrQueue'
  BY <1>8 DEF Abstract!Cease, Abstract!Waits, Abstract!Leaves
<1>9. CASE UNCHANGED Abstract(o)!vars BY <1>9 DEF Abstract!vars
<1> QED BY <1>1, <1>2, <1>3, <1>4, <1>5, <1>6, <1>7, <1>8, <1>9 DEF Step, Abstract!Next

\* Nobody waits for a token that is there: what ipc.c tests with "value > 0" and with the list of
\* waiting threads is never both, of any semaphore of the kernel.
THEOREM NobodyWaitsForAToken ==
  ASSUME NEW C, Proper(C), Prompted
  PROVE  Spec /\ []Orderly /\ []WaitsUndisturbed => [](\A o \in Semaphore : Abstract(o)!TokenOrQueue)
<1> DEFINE Tokens == \A o \in Semaphore : Abstract(o)!TokenOrQueue
<1>1. Init => SemInv(C) /\ Tokens
  BY SemaphoresInit DEF Abstract!Init, Abstract!TokenOrQueue
<1>2. SemInv(C) /\ Tokens /\ Orderly /\ Orderly' /\ WaitsUndisturbed /\ [Next]_vars => SemInv(C)' /\ Tokens'
  <2> SUFFICES ASSUME SemInv(C), Tokens, Orderly, Orderly', WaitsUndisturbed, [Next]_vars
               PROVE  SemInv(C)' /\ Tokens'
    OBVIOUS
  <2>1. SemInv(C)' /\ [\A o \in Semaphore : Step(o)]_vars BY NextImplements
  <2>2. ASSUME NEW o \in Semaphore PROVE Abstract(o)!TokenOrQueue'
    <3>1. CASE Step(o) BY <3>1, TokensStep
    <3>2. CASE UNCHANGED vars BY <3>2 DEF vars, Abstract!TokenOrQueue
    <3> QED BY <2>1, <3>1, <3>2
  <2> QED BY <2>1, <2>2
<1> QED BY <1>1, <1>2, PTL DEF Spec
=============================================================================
