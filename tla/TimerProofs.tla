---------------------------- MODULE TimerProofs ----------------------------
(***************************************************************************)
(* The timers, for any number of owners, ids, functions and intervals: an  *)
(* id is in one place and its owner knows it, and what owners see of them  *)
(* are alarms.                                                             *)
(***************************************************************************)
EXTENDS Timer, SequenceTheorems, TLAPS

\* A timer with a function is its owner's; one whose function runs and that will
\* be neither started again nor listed was deleted by it.
HisFunc ==
  \A t \in Tids :
    /\ timer_data[t].func # NoFunc
         => /\ timer_data[t].id \in Alarms
            /\ timer_data[t].func = FuncOf[timer_data[t].id]
    /\ timer_heap[t] > 0 \/ t = running
         => timer_data[t].type # "unused" /\ timer_data[t].id \in Alarms
    /\ t = running /\ ~timer_data[t].remove_heap => timer_data[t].func = NoFunc
    /\ timer_data[t].type = "interval" => timer_data[t].interval > 0

TimerInv == TimerTypeOK /\ IdsInPlace /\ OwnersKnow /\ HisFunc

USE NothingAssumption, FuncAssumption, TickAssumption

----------------------------------------------------------------------------
(* The list of free ids *)

LEMMA InvalidTid == INVALID_TIMER \notin Tids
BY DEF INVALID_TIMER, Tids

\* What acquire_timer returns is in no other place.
LEMMA Acquires ==
  ASSUME TimerTypeOK, IdsInPlace, Acquire
  PROVE  /\ Acquired \in Tids
         /\ timer_heap[Acquired] = 0 /\ Acquired # running
         /\ timer_data_num' \in 0..MaxTids
         /\ free_timer_list' \in Seq(0..(timer_data_num' - 1))
         /\ \A u \in Tids : Listed(u)' <=> Listed(u) /\ u # Acquired
         /\ \A i, j \in DOMAIN free_timer_list' :
              free_timer_list'[i] = free_timer_list'[j] => i = j
         /\ \A u \in Tids : u < timer_data_num' <=> u < timer_data_num \/ u = Acquired
<1> DEFINE n == Len(free_timer_list)
<1>0. timer_data_num \in 0..MaxTids /\ free_timer_list \in Seq(0..(timer_data_num - 1))
  BY DEF TimerTypeOK
<1>1. CASE free_timer_list # <<>>
  <2>1. n \in Nat /\ n > 0 /\ DOMAIN free_timer_list = 1..n
    BY <1>0, <1>1, EmptySeq, LenProperties
  <2>2. Acquired = free_timer_list[n] /\ Acquired \in 0..(timer_data_num - 1)
    BY <1>0, <1>1, <2>1, ElementOfSeq DEF Acquired
  <2>3. Acquired \in Tids /\ Acquired < timer_data_num
    BY <1>0, <2>2 DEF Tids
  <2>4. Listed(Acquired)
    BY <2>1, <2>2 DEF Listed
  <2>5. free_timer_list' = SubSeq(free_timer_list, 1, n - 1)
        /\ timer_data_num' = timer_data_num
    BY <1>1 DEF Acquire
  <2>6. /\ free_timer_list' \in Seq(0..(timer_data_num - 1))
        /\ Len(free_timer_list') = n - 1
        /\ \A i \in 1..(n - 1) : free_timer_list'[i] = free_timer_list[i]
    <3>1. n - 1 \in Nat /\ \A i \in 1..(n - 1) : free_timer_list[i] \in 0..(timer_data_num - 1)
      BY <1>0, <2>1, ElementOfSeq
    <3> QED
      BY <1>0, <2>1, <2>5, <3>1, SubSeqProperties
  <2>7. DOMAIN free_timer_list' = 1..(n - 1)
    BY <2>6, LenProperties
  <2>8. \A i, j \in 1..n : free_timer_list[i] = free_timer_list[j] => i = j
    BY <2>1 DEF IdsInPlace
  <2>9. \A u \in Tids : Listed(u)' <=> Listed(u) /\ u # Acquired
    <3> SUFFICES ASSUME NEW u \in Tids PROVE Listed(u)' <=> Listed(u) /\ u # Acquired
      OBVIOUS
    <3>1. ASSUME Listed(u)' PROVE Listed(u) /\ u # Acquired
      <4>1. PICK i \in 1..(n - 1) : free_timer_list'[i] = u
        BY <2>7, <3>1 DEF Listed
      <4>2. i \in 1..n /\ i # n
        <5>1. n \in Nat
          BY <2>1
        <5> HIDE DEF n
        <5> QED
          BY <5>1
      <4>3. free_timer_list[i] = u
        BY <2>6, <4>1
      <4>4. Listed(u)
        BY <2>1, <4>2, <4>3 DEF Listed
      <4>5. n \in 1..n
        BY <2>1
      <4>6. u # Acquired
        BY <2>2, <2>8, <4>2, <4>3, <4>5
      <4> QED
        BY <4>4, <4>6
    <3>2. ASSUME Listed(u), u # Acquired PROVE Listed(u)'
      <4>1. PICK i \in 1..n : free_timer_list[i] = u
        BY <2>1, <3>2 DEF Listed
      <4>2. i \in 1..(n - 1)
        BY <2>1, <2>2, <3>2, <4>1
      <4>3. free_timer_list'[i] = u
        BY <2>6, <4>1, <4>2
      <4> QED
        BY <2>7, <4>2, <4>3 DEF Listed
    <3> QED
      BY <3>1, <3>2
  <2>11. \A i, j \in DOMAIN free_timer_list' :
           free_timer_list'[i] = free_timer_list'[j] => i = j
    <3> SUFFICES ASSUME NEW i \in 1..(n - 1), NEW j \in 1..(n - 1),
                        free_timer_list'[i] = free_timer_list'[j]
                 PROVE  i = j
      BY <2>7
    <3> QED
      BY <2>1, <2>6, <2>8
  <2>12. \A u \in Tids : u < timer_data_num' <=> u < timer_data_num \/ u = Acquired
    BY <2>3, <2>5
  <2>10. timer_heap[Acquired] = 0 /\ Acquired # running
    BY <2>3, <2>4 DEF IdsInPlace, TimerTypeOK
  <2> QED
    BY <1>0, <2>3, <2>5, <2>6, <2>9, <2>10, <2>11, <2>12
<1>2. CASE free_timer_list = <<>>
  <2>1. /\ Acquired = timer_data_num /\ timer_data_num < MaxTids
        /\ timer_data_num' = timer_data_num + 1 /\ free_timer_list' = <<>>
    BY <1>2 DEF Acquire, Acquired, HasRoom
  <2>2. Acquired \in Tids
    BY <1>0, <2>1 DEF Tids
  <2>3. timer_heap[Acquired] = 0 /\ Acquired # running
    BY <1>0, <2>1, <2>2 DEF IdsInPlace
  <2>4. \A u : ~Listed(u) /\ ~Listed(u)'
    BY <1>2, <2>1 DEF Listed
  <2>5. free_timer_list' \in Seq(0..(timer_data_num' - 1))
    BY <2>1
  <2> QED
    BY <1>0, <1>2, <2>1, <2>2, <2>3, <2>4, <2>5 DEF Tids
<1> QED
  BY <1>1, <1>2

\* What do_timer lists was not listed, and is the only one added.
LEMMA Lists ==
  ASSUME TimerTypeOK, IdsInPlace, NEW t \in Tids, ~Listed(t), t < timer_data_num,
         free_timer_list' = Append(free_timer_list, t)
  PROVE  /\ free_timer_list' \in Seq(0..(timer_data_num - 1))
         /\ \A u \in Tids : Listed(u)' <=> Listed(u) \/ u = t
         /\ \A i, j \in DOMAIN free_timer_list' :
              free_timer_list'[i] = free_timer_list'[j] => i = j
<1> DEFINE n == Len(free_timer_list)
<1>0. timer_data_num \in 0..MaxTids /\ free_timer_list \in Seq(0..(timer_data_num - 1))
  BY DEF TimerTypeOK
<1>1. n \in Nat /\ DOMAIN free_timer_list = 1..n /\ t \in 0..(timer_data_num - 1)
  BY <1>0, LenProperties DEF Tids
<1>2. /\ free_timer_list' \in Seq(0..(timer_data_num - 1))
      /\ Len(free_timer_list') = n + 1
      /\ \A i \in 1..n : free_timer_list'[i] = free_timer_list[i]
      /\ free_timer_list'[n + 1] = t
  BY <1>0, <1>1, AppendProperties
<1>3. DOMAIN free_timer_list' = 1..(n + 1)
  BY <1>2, LenProperties
<1>4. \A i, j \in 1..n : free_timer_list[i] = free_timer_list[j] => i = j
  BY <1>1 DEF IdsInPlace
<1>5. \A i \in 1..n : free_timer_list[i] # t
  BY <1>1 DEF Listed
<1> QED
  BY <1>1, <1>2, <1>3, <1>4, <1>5 DEF Listed

----------------------------------------------------------------------------
(* What owners do *)

\* A timer an owner has, and whose function is his, is his.
LEMMA IsHis ==
  ASSUME TimerInv, NEW x \in Alarms, held[x] # INVALID_TIMER,
         timer_data[held[x]].func = FuncOf[x]
  PROVE  timer_data[held[x]].id = x
<1>1. held[x] \in Tids /\ FuncOf[x] # NoFunc
  BY DEF TimerInv, TimerTypeOK
<1>2. CASE x \in Careless
  BY <1>1, <1>2, CarelessAssumption DEF TimerInv, HisFunc
<1>3. CASE x \notin Careless
  BY <1>3 DEF TimerInv, OwnersKnow, Live
<1> QED
  BY <1>2, <1>3

\* A timer that is still to come is his whose alarm it is.
LEMMA LiveIs ==
  ASSUME TimerInv, NEW t \in Tids, Pending(t)
  PROVE  /\ timer_data[t].id \in Alarms /\ held[timer_data[t].id] = t
         /\ Live(timer_data[t].id)
         /\ \A x \in Alarms : Live(x) /\ held[x] = t => x = timer_data[t].id
<1>1. timer_data[t].id \in Alarms
  BY DEF TimerInv, HisFunc, Pending
<1>2. held[timer_data[t].id] = t
  BY DEF TimerInv, OwnersKnow
<1> QED
  BY <1>1, <1>2, InvalidTid DEF Live

LEMMA LiveHeld ==
  ASSUME TimerInv, NEW x \in Alarms, Live(x)
  PROVE  /\ held[x] \in Tids /\ Pending(held[x]) /\ timer_data[held[x]].id = x
         /\ timer_data[held[x]].func = FuncOf[x]
BY DEF TimerInv, TimerTypeOK, HisFunc, Live, Pending

\* The new timer, and that the others are as they were.
LEMMA Added ==
  ASSUME TimerInv, NEW x \in Alarms, NEW d, NEW i \in {0} \cup Intervals,
         Add(x, d, i), NEW a, a = Acquired
  PROVE  /\ a \in Tids /\ timer_heap[a] = 0 /\ a # running
         /\ timer_data' \in [Tids -> TimerData]
         /\ timer_data'[a].tick = d /\ timer_data'[a].func = FuncOf[x]
         /\ timer_data'[a].id = x /\ timer_data'[a].interval = i
         /\ timer_data'[a].type = (IF i = 0 THEN "once" ELSE "interval")
         /\ \A u \in Tids \ {a} : timer_data'[u] = timer_data[u]
         /\ timer_heap' \in [Tids -> Nat] /\ timer_heap'[a] = 1
         /\ \A u \in Tids \ {a} : timer_heap'[u] = timer_heap[u]
         /\ held' \in [Alarms -> Tids \cup {INVALID_TIMER}] /\ held'[x] = a
         /\ \A y \in Alarms \ {x} : held'[y] = held[y]
<1>1. a \in Tids /\ timer_heap[a] = 0 /\ a # running
  BY Acquires DEF TimerInv, Add
<1>2. [tick |-> d, func |-> FuncOf[x], remove_heap |-> FALSE,
       type |-> IF i = 0 THEN "once" ELSE "interval",
       interval |-> i, id |-> x] \in TimerData
  <2>1. d \in Nat /\ i \in Nat
    BY DEF Add, TickAssumption
  <2> QED
    BY <2>1 DEF TimerData
<1>3. timer_data' = [timer_data EXCEPT ![a] =
       [tick |-> d, func |-> FuncOf[x], remove_heap |-> FALSE,
        type |-> IF i = 0 THEN "once" ELSE "interval",
        interval |-> i, id |-> x]]
  BY DEF Add
<1>4. timer_heap' = [timer_heap EXCEPT ![a] = @ + 1] /\ held' = [held EXCEPT ![x] = a]
  BY DEF Add
<1>5. /\ timer_data \in [Tids -> TimerData] /\ timer_heap \in [Tids -> Nat]
      /\ held \in [Alarms -> Tids \cup {INVALID_TIMER}]
  BY DEF TimerInv, TimerTypeOK
<1>6. timer_data' \in [Tids -> TimerData]
  BY <1>1, <1>2, <1>3, <1>5
<1>7. /\ timer_data'[a].tick = d /\ timer_data'[a].func = FuncOf[x]
      /\ timer_data'[a].id = x /\ timer_data'[a].interval = i
      /\ timer_data'[a].type = (IF i = 0 THEN "once" ELSE "interval")
  BY <1>1, <1>3, <1>5
<1>8. \A u \in Tids \ {a} : timer_data'[u] = timer_data[u]
  BY <1>3, <1>5
<1> QED
  BY <1>1, <1>4, <1>5, <1>6, <1>7, <1>8

\* Only the new timer and its owner's old one change their look.
LEMMA AddedPending ==
  ASSUME TimerInv, NEW x \in Alarms, NEW d, NEW i \in {0} \cup Intervals,
         Add(x, d, i), NEW a, a = Acquired
  PROVE  /\ Pending(a)' /\ Live(x)' /\ ~Pending(a) /\ ~Live(x)
         /\ \A u \in Tids \ {a} : Pending(u)' <=> Pending(u)
         /\ \A y \in Alarms \ {x} : Live(y)' <=> Live(y)
         /\ \A y \in Alarms : Live(y) => held[y] # a
<1>1. running' = running /\ ~Live(x)
  BY DEF Add
<1>2. Pending(a)' /\ ~Pending(a)
  <2>1. timer_data'[a].func # NoFunc /\ timer_heap'[a] = 1
    BY Added DEF FuncAssumption, NothingAssumption
  <2>2. timer_heap[a] = 0 /\ a # running
    BY Added
  <2> QED
    BY <2>1, <2>2 DEF Pending
<1>3. \A u \in Tids \ {a} : Pending(u)' <=> Pending(u)
  BY <1>1, Added DEF Pending
<1>4. Live(x)'
  BY <1>2, Added, InvalidTid DEF Live
<1>5. ASSUME NEW y \in Alarms \ {x} PROVE Live(y)' <=> Live(y)
  <2>1. CASE held[y] = a
    BY <1>2, <2>1, Added DEF Live
  <2>2. CASE held[y] = INVALID_TIMER
    BY <2>2, Added DEF Live
  <2>3. CASE held[y] \in Tids \ {a}
    <3>1. held'[y] = held[y] /\ timer_data'[held[y]] = timer_data[held[y]]
      BY <2>3, Added
    <3>2. Pending(held[y])' <=> Pending(held[y])
      BY <1>3, <2>3, <3>1
    <3> QED
      BY <3>1, <3>2 DEF Live
  <2> QED
    BY <2>1, <2>2, <2>3 DEF TimerInv, TimerTypeOK
<1> QED
  BY <1>1, <1>2, <1>3, <1>4, <1>5 DEF Live

LEMMA AddOK ==
  ASSUME TimerInv, NEW x \in Alarms, NEW d, NEW i \in {0} \cup Intervals,
         Add(x, d, i)
  PROVE  TimerInv'
<1> DEFINE a == Acquired
<1>0. PICK b : b = a
  OBVIOUS
<1> HIDE DEF a
<1>1. /\ b \in Tids /\ b # running /\ running' = running /\ pass' = pass /\ now' = now
      /\ timer_heap[b] = 0
  BY <1>0, Added DEF Add, a
<1>2. /\ timer_data_num' \in 0..MaxTids
      /\ free_timer_list' \in Seq(0..(timer_data_num' - 1))
      /\ \A u \in Tids : Listed(u)' <=> Listed(u) /\ u # b
      /\ \A j, k \in DOMAIN free_timer_list' :
           free_timer_list'[j] = free_timer_list'[k] => j = k
      /\ \A u \in Tids : u < timer_data_num' <=> u < timer_data_num \/ u = b
  BY <1>0, Acquires DEF TimerInv, Add, a
<1>3. TimerTypeOK'
  BY <1>0, <1>1, <1>2, Added DEF TimerInv, TimerTypeOK, a
<1>4. IdsInPlace'
  <2> SUFFICES ASSUME NEW t \in Tids
               PROVE  /\ timer_heap'[t] <= 1
                      /\ timer_heap'[t] > 0 => ~Listed(t)' /\ t # running'
                      /\ Listed(t)' => t # running'
                      /\ t >= timer_data_num' => timer_heap'[t] = 0 /\ ~Listed(t)'
                                                 /\ t # running'
                      /\ t < timer_data_num' => \/ timer_heap'[t] > 0 \/ Listed(t)'
                                                \/ t = running'
                                                \/ timer_data'[t].func = NoFunc
    BY <1>2 DEF IdsInPlace
  <2>1. t \in Nat /\ timer_data_num' \in Nat /\ timer_data_num \in Nat
    BY <1>2 DEF Tids, TimerInv, TimerTypeOK
  <2>2. CASE t = b
    <3>1. timer_heap'[t] = 1 /\ ~Listed(t)' /\ t # running' /\ t < timer_data_num'
      BY <1>0, <1>1, <1>2, <2>2, Added DEF a
    <3> QED
      BY <2>1, <3>1
  <2>3. CASE t # b
    <3>1. /\ timer_heap'[t] = timer_heap[t] /\ timer_data'[t] = timer_data[t]
          /\ Listed(t)' <=> Listed(t)
          /\ t < timer_data_num' <=> t < timer_data_num
      BY <1>0, <1>2, <2>3, Added DEF a
    <3>2. t >= timer_data_num' <=> t >= timer_data_num
      BY <2>1, <3>1
    <3> QED
      BY <1>1, <3>1, <3>2 DEF TimerInv, IdsInPlace
  <2> QED
    BY <2>2, <2>3
<1>5. OwnersKnow'
  <2>1. ASSUME NEW y \in Alarms \ Careless, held'[y] # INVALID_TIMER PROVE Live(y)'
    <3>1. CASE y = x
      BY <1>0, <3>1, AddedPending DEF a
    <3>2. CASE y # x
      <4>1. held'[y] = held[y]
        BY <1>0, <3>2, Added DEF a
      <4>2. Live(y)
        BY <2>1, <4>1 DEF TimerInv, OwnersKnow
      <4> QED
        BY <1>0, <3>2, <4>2, AddedPending DEF a
    <3> QED
      BY <3>1, <3>2
  <2>2. ASSUME NEW t \in Tids, Pending(t)' PROVE held'[timer_data'[t].id] = t
    <3>1. CASE t = b
      BY <1>0, <3>1, Added DEF a
    <3>2. CASE t # b
      <4>1. Pending(t) /\ timer_data'[t] = timer_data[t]
        BY <1>0, <2>2, <3>2, Added, AddedPending DEF a
      <4>2. timer_data[t].id \in Alarms \ {x}
        BY <4>1, AddedPending, LiveIs
      <4> QED
        BY <1>0, <4>1, <4>2, LiveIs, Added DEF a
    <3> QED
      BY <3>1, <3>2
  <2> QED
    BY <2>1, <2>2 DEF OwnersKnow
<1>6. HisFunc'
  <2> SUFFICES ASSUME NEW t \in Tids
               PROVE  /\ timer_data'[t].func # NoFunc
                           => /\ timer_data'[t].id \in Alarms
                              /\ timer_data'[t].func = FuncOf[timer_data'[t].id]
                      /\ timer_heap'[t] > 0 \/ t = running'
                           => /\ timer_data'[t].type # "unused"
                              /\ timer_data'[t].id \in Alarms
                      /\ t = running' /\ ~timer_data'[t].remove_heap
                           => timer_data'[t].func = NoFunc
                      /\ timer_data'[t].type = "interval" => timer_data'[t].interval > 0
    BY DEF HisFunc
  <2>1. CASE t = b
    <3>1. i \in Nat
      BY DEF TickAssumption
    <3>2. i # 0 => i > 0
      BY <3>1
    <3> QED
      BY <1>0, <1>1, <2>1, <3>2, Added DEF a
  <2>2. CASE t # b
    <3>1. timer_heap'[t] = timer_heap[t] /\ timer_data'[t] = timer_data[t]
      BY <1>0, <2>2, Added DEF a
    <3> QED
      BY <1>1, <3>1 DEF TimerInv, HisFunc
  <2> QED
    BY <2>1, <2>2
<1> QED
  BY <1>3, <1>4, <1>5, <1>6 DEF TimerInv

\* A step that leaves ids where they are keeps them in their place.
LEMMA StayInPlace ==
  ASSUME IdsInPlace, UNCHANGED <<timer_data_num, free_timer_list, timer_heap, running>>,
         \A t \in Tids : timer_data[t].func = NoFunc => timer_data'[t].func = NoFunc
  PROVE  IdsInPlace'
BY DEF IdsInPlace, Listed

\* The timer that is deleted, and that the others are as they were.
LEMMA Deleted ==
  ASSUME TimerInv, NEW x \in Alarms, Delete(x), NEW t, t = held[x],
         timer_data[t].func = FuncOf[x]
  PROVE  /\ t \in Tids /\ timer_data[t].id = x
         /\ timer_data' \in [Tids -> TimerData]
         /\ timer_data'[t].func = NoFunc /\ timer_data'[t].type = "once"
         /\ timer_data'[t].id = x /\ ~Pending(t)' /\ ~Live(x)'
         /\ \A u \in Tids \ {t} : timer_data'[u] = timer_data[u]
                                  /\ (Pending(u)' <=> Pending(u))
         /\ \A y \in Alarms \ {x} : held'[y] = held[y] /\ (Live(y)' <=> Live(y))
         /\ \A y \in Alarms \ {x} : Live(y) => held[y] # t
<1>1. t \in Tids /\ timer_data[t].id = x
  BY IsHis DEF Delete, TimerInv, TimerTypeOK
<1>2. /\ timer_data' = [timer_data EXCEPT ![t].func = NoFunc, ![t].type = "once",
                                         ![t].remove_heap = FALSE]
      /\ held' = [held EXCEPT ![x] = INVALID_TIMER]
      /\ UNCHANGED <<timer_heap, running>>
  BY DEF Delete, DoDelete
<1>3. /\ timer_data \in [Tids -> TimerData]
      /\ held \in [Alarms -> Tids \cup {INVALID_TIMER}]
  BY DEF TimerInv, TimerTypeOK
<1>4. timer_data' \in [Tids -> TimerData]
  BY <1>1, <1>2, <1>3 DEF TimerData
<1>5. /\ timer_data'[t].func = NoFunc /\ timer_data'[t].type = "once"
      /\ timer_data'[t].id = x
  BY <1>1, <1>2, <1>3 DEF TimerData
<1>6. \A u \in Tids \ {t} : timer_data'[u] = timer_data[u]
  BY <1>2, <1>3
<1>7. ~Pending(t)'
  BY <1>5 DEF Pending
<1>8. \A u \in Tids \ {t} : Pending(u)' <=> Pending(u)
  BY <1>2, <1>6 DEF Pending
<1>9. ~Live(x)' /\ \A y \in Alarms \ {x} : held'[y] = held[y]
  BY <1>2, <1>3 DEF Live
<1>10. ASSUME NEW y \in Alarms \ {x} PROVE Live(y)' <=> Live(y)
  <2>1. CASE held[y] = t
    BY <1>1, <1>7, <1>9, <2>1 DEF Live
  <2>2. CASE held[y] = INVALID_TIMER
    BY <1>9, <2>2 DEF Live
  <2>3. CASE held[y] \in Tids \ {t}
    <3>1. held'[y] = held[y] /\ timer_data'[held[y]] = timer_data[held[y]]
      BY <1>6, <1>9, <2>3
    <3>2. Pending(held[y])' <=> Pending(held[y])
      BY <1>8, <2>3, <3>1
    <3> QED
      BY <3>1, <3>2 DEF Live
  <2> QED
    BY <1>3, <2>1, <2>2, <2>3
<1>11. \A y \in Alarms \ {x} : Live(y) => held[y] # t
  BY <1>1 DEF Live
<1> QED
  BY <1>1, <1>4, <1>5, <1>6, <1>7, <1>8, <1>9, <1>10, <1>11

\* A timer that is somebody else's is left alone, and was not his any more.
LEMMA Refused ==
  ASSUME TimerInv, NEW x \in Alarms, Delete(x),
         timer_data[held[x]].func # FuncOf[x]
  PROVE  /\ ~Live(x) /\ ~Live(x)' /\ x \in Careless
         /\ UNCHANGED timer_data
         /\ \A u \in Tids : Pending(u)' <=> Pending(u)
         /\ \A y \in Alarms \ {x} : held'[y] = held[y] /\ (Live(y)' <=> Live(y))
<1>1. ~Live(x)
  BY LiveHeld
<1>2. x \in Careless
  BY <1>1 DEF TimerInv, OwnersKnow, Delete
<1>3. /\ UNCHANGED <<timer_data, timer_heap, running>>
      /\ held' = [held EXCEPT ![x] = INVALID_TIMER]
  BY DEF Delete, DoDelete
<1>4. \A u \in Tids : Pending(u)' <=> Pending(u)
  BY <1>3 DEF Pending
<1>5. held \in [Alarms -> Tids \cup {INVALID_TIMER}]
  BY DEF TimerInv, TimerTypeOK
<1>6. ~Live(x)' /\ \A y \in Alarms \ {x} : held'[y] = held[y]
  BY <1>3, <1>5 DEF Live
<1>7. \A y \in Alarms \ {x} : Live(y)' <=> Live(y)
  BY <1>3, <1>6 DEF Live, Pending
<1> QED
  BY <1>1, <1>2, <1>3, <1>4, <1>6, <1>7

LEMMA DeleteOK ==
  ASSUME TimerInv, NEW x \in Alarms, Delete(x)
  PROVE  TimerInv'
<1>0. /\ UNCHANGED <<timer_data_num, free_timer_list, timer_heap, now, pass, running>>
      /\ held' = [held EXCEPT ![x] = INVALID_TIMER]
      /\ held' \in [Alarms -> Tids \cup {INVALID_TIMER}]
  BY DEF Delete, TimerInv, TimerTypeOK
<1>1. PICK t : t = held[x]
  OBVIOUS
<1>2. CASE timer_data[t].func = FuncOf[x]
  <2>1. TimerTypeOK'
    BY <1>0, <1>1, <1>2, Deleted DEF TimerInv, TimerTypeOK
  <2>2. IdsInPlace'
    <3>1. \A u \in Tids : timer_data[u].func = NoFunc => timer_data'[u].func = NoFunc
      BY <1>1, <1>2, Deleted
    <3> QED
      BY <1>0, <3>1, StayInPlace DEF TimerInv
  <2>3. OwnersKnow'
    <3>1. \A y \in Alarms \ Careless : held'[y] # INVALID_TIMER => Live(y)'
      BY <1>0, <1>1, <1>2, Deleted DEF TimerInv, TimerTypeOK, OwnersKnow
    <3>2. ASSUME NEW u \in Tids, Pending(u)' PROVE held'[timer_data'[u].id] = u
      <4>1. u # t /\ Pending(u) /\ timer_data'[u] = timer_data[u]
        BY <1>1, <1>2, <3>2, Deleted
      <4>2. timer_data[u].id \in Alarms \ {x} /\ held[timer_data[u].id] = u
        BY <1>1, <4>1, LiveIs
      <4> QED
        BY <1>1, <1>2, <4>1, <4>2, Deleted
    <3> QED
      BY <3>1, <3>2 DEF OwnersKnow
  <2>4. HisFunc'
    <3> SUFFICES ASSUME NEW u \in Tids
                 PROVE  /\ timer_data'[u].func # NoFunc
                             => /\ timer_data'[u].id \in Alarms
                                /\ timer_data'[u].func = FuncOf[timer_data'[u].id]
                        /\ timer_heap'[u] > 0 \/ u = running'
                             => /\ timer_data'[u].type # "unused"
                                /\ timer_data'[u].id \in Alarms
                        /\ u = running' /\ ~timer_data'[u].remove_heap
                             => timer_data'[u].func = NoFunc
                        /\ timer_data'[u].type = "interval"
                             => timer_data'[u].interval > 0
      BY DEF HisFunc
    <3>1. CASE u = t
      BY <1>0, <1>1, <1>2, <3>1, Deleted
    <3>2. CASE u # t
      <4>1. timer_data'[u] = timer_data[u]
        BY <1>1, <1>2, <3>2, Deleted
      <4> QED
        BY <1>0, <4>1 DEF TimerInv, HisFunc
    <3> QED
      BY <3>1, <3>2
  <2> QED
    BY <2>1, <2>2, <2>3, <2>4 DEF TimerInv
<1>3. CASE timer_data[t].func # FuncOf[x]
  <2>0. UNCHANGED timer_data
    BY <1>1, <1>3, Refused
  <2>1. TimerTypeOK'
    BY <1>0, <2>0 DEF TimerInv, TimerTypeOK
  <2>2. IdsInPlace'
    BY <1>0, <2>0, StayInPlace DEF TimerInv
  <2>3. OwnersKnow'
    <3>1. \A y \in Alarms \ Careless : held'[y] # INVALID_TIMER => Live(y)'
      BY <1>1, <1>3, Refused DEF TimerInv, OwnersKnow
    <3>2. ASSUME NEW u \in Tids, Pending(u)' PROVE held'[timer_data'[u].id] = u
      <4>1. Pending(u)
        BY <1>1, <1>3, <3>2, Refused
      <4>2. timer_data[u].id \in Alarms /\ held[timer_data[u].id] = u
            /\ Live(timer_data[u].id)
        BY <4>1, LiveIs
      <4>3. timer_data[u].id # x
        BY <1>1, <1>3, <4>2, Refused
      <4> QED
        BY <1>1, <1>3, <2>0, <4>2, <4>3, Refused
    <3> QED
      BY <3>1, <3>2 DEF OwnersKnow
  <2>4. HisFunc'
    BY <1>0, <2>0 DEF TimerInv, HisFunc
  <2> QED
    BY <2>1, <2>2, <2>3, <2>4 DEF TimerInv
<1> QED
  BY <1>2, <1>3

\* Only the tick changes.
LEMMA Moved ==
  ASSUME TimerInv, NEW x \in Alarms, NEW tick, Settick(x, tick), NEW t, t = held[x]
  PROVE  /\ t \in Tids /\ Live(x) /\ Live(x)' /\ t # running
         /\ tick \in Nat
         /\ timer_data' \in [Tids -> TimerData]
         /\ timer_data'[t].tick = tick
         /\ \A u \in Tids \ {t} : timer_data'[u] = timer_data[u]
         /\ \A u \in Tids :
              /\ timer_data'[u].func = timer_data[u].func
              /\ timer_data'[u].type = timer_data[u].type
              /\ timer_data'[u].remove_heap = timer_data[u].remove_heap
              /\ timer_data'[u].interval = timer_data[u].interval
              /\ timer_data'[u].id = timer_data[u].id
              /\ Pending(u)' <=> Pending(u)
         /\ \A y \in Alarms : Live(y)' <=> Live(y)
         /\ \A y \in Alarms \ {x} : Live(y) => held[y] # t
<1>1. Live(x) /\ t \in Tids
  <2>1. Live(x)
    BY DEF Settick, TimerInv, OwnersKnow
  <2> QED
    BY <2>1, LiveHeld
<1>2. tick \in Nat
  BY DEF Settick, TickAssumption
<1>3. /\ timer_data' = [timer_data EXCEPT ![t].tick = tick]
      /\ timer_data \in [Tids -> TimerData]
      /\ UNCHANGED <<timer_heap, held, running>> /\ timer_heap[t] > 0
  BY DEF Settick, TimerInv, TimerTypeOK
<1>4. timer_data' \in [Tids -> TimerData]
  BY <1>1, <1>2, <1>3 DEF TimerData
<1>5. timer_data'[t].tick = tick /\ \A u \in Tids \ {t} : timer_data'[u] = timer_data[u]
  BY <1>1, <1>3 DEF TimerData
<1>6. \A u \in Tids :
        /\ timer_data'[u].func = timer_data[u].func
        /\ timer_data'[u].type = timer_data[u].type
        /\ timer_data'[u].remove_heap = timer_data[u].remove_heap
        /\ timer_data'[u].interval = timer_data[u].interval
        /\ timer_data'[u].id = timer_data[u].id
  BY <1>1, <1>3 DEF TimerData
<1>7. \A u \in Tids : Pending(u)' <=> Pending(u)
  BY <1>3, <1>6 DEF Pending
<1>8. \A y \in Alarms : Live(y)' <=> Live(y)
  <2> SUFFICES ASSUME NEW y \in Alarms PROVE Live(y)' <=> Live(y)
    OBVIOUS
  <2>1. held[y] \in Tids \cup {INVALID_TIMER} /\ held'[y] = held[y]
    BY <1>3 DEF TimerInv, TimerTypeOK
  <2>2. CASE held[y] \in Tids
    BY <1>6, <1>7, <2>1, <2>2 DEF Live
  <2> QED
    BY <2>1, <2>2 DEF Live
<1>9. t # running
  BY <1>1, <1>3 DEF TimerInv, IdsInPlace
<1>10. \A y \in Alarms \ {x} : Live(y) => held[y] # t
  BY <1>1 DEF Live
<1> QED
  BY <1>1, <1>2, <1>4, <1>5, <1>6, <1>7, <1>8, <1>9, <1>10

LEMMA SettickOK ==
  ASSUME TimerInv, NEW x \in Alarms, NEW tick, Settick(x, tick)
  PROVE  TimerInv'
<1>0. UNCHANGED <<timer_data_num, free_timer_list, timer_heap, held, now, pass, running>>
  BY DEF Settick
<1>1. TimerTypeOK'
  BY <1>0, Moved DEF TimerInv, TimerTypeOK
<1>2. IdsInPlace'
  BY <1>0, Moved, StayInPlace DEF TimerInv
<1>3. OwnersKnow'
  BY <1>0, Moved DEF TimerInv, OwnersKnow
<1>4. HisFunc'
  BY <1>0, Moved DEF TimerInv, HisFunc
<1> QED
  BY <1>1, <1>2, <1>3, <1>4 DEF TimerInv

----------------------------------------------------------------------------
(* do_timer *)

LEMMA Called ==
  ASSUME TimerInv, NEW t \in Tids, Call(t), NEW x, x = timer_data[t].id
  PROVE  /\ x \in Alarms /\ held[x] = t /\ Live(x) /\ Pending(t)
         /\ running = INVALID_TIMER /\ running' = t /\ t < timer_data_num
         /\ timer_heap[t] = 1 /\ timer_heap'[t] = 0
         /\ timer_heap' \in [Tids -> Nat] /\ timer_data' \in [Tids -> TimerData]
         /\ held' \in [Alarms -> Tids \cup {INVALID_TIMER}]
         /\ \A u \in Tids :
              /\ timer_data'[u].func = timer_data[u].func
              /\ timer_data'[u].type = timer_data[u].type
              /\ timer_data'[u].tick = timer_data[u].tick
              /\ timer_data'[u].interval = timer_data[u].interval
              /\ timer_data'[u].id = timer_data[u].id
         /\ timer_data'[t].remove_heap
         /\ timer_data[t].type \in {"once", "interval"}
         /\ \A u \in Tids \ {t} :
              timer_heap'[u] = timer_heap[u] /\ timer_data'[u] = timer_data[u]
         /\ \A y \in Alarms \ {x} : held'[y] = held[y]
         /\ Forgets(t) => held'[x] = INVALID_TIMER
         /\ ~Forgets(t) => held'[x] = t
<1>1. timer_heap[t] > 0 /\ timer_data[t].func # NoFunc /\ running = INVALID_TIMER
  BY DEF Call, IsDue, OnTop
<1>2. Pending(t)
  BY <1>1 DEF Pending
<1>3. x \in Alarms /\ held[x] = t /\ Live(x)
  BY <1>2, LiveIs
<1>4. /\ timer_data \in [Tids -> TimerData] /\ timer_heap \in [Tids -> Nat]
      /\ held \in [Alarms -> Tids \cup {INVALID_TIMER}]
      /\ timer_data_num \in Nat /\ t \in Nat
  BY DEF TimerInv, TimerTypeOK, Tids
<1>5. timer_heap[t] = 1 /\ t < timer_data_num
  BY <1>1, <1>4 DEF TimerInv, IdsInPlace
<1>6. /\ timer_heap' = [timer_heap EXCEPT ![t] = @ - 1]
      /\ timer_data' = [timer_data EXCEPT ![t].remove_heap = TRUE]
      /\ running' = t
      /\ held' = IF Forgets(t) THEN [held EXCEPT ![x] = INVALID_TIMER] ELSE held
  BY DEF Call
<1>7. /\ timer_heap' \in [Tids -> Nat] /\ timer_heap'[t] = 0
      /\ \A u \in Tids \ {t} : timer_heap'[u] = timer_heap[u]
  BY <1>4, <1>5, <1>6
<1>8. timer_data' \in [Tids -> TimerData]
  BY <1>4, <1>6 DEF TimerData
<1>9. /\ \A u \in Tids :
           /\ timer_data'[u].func = timer_data[u].func
           /\ timer_data'[u].type = timer_data[u].type
           /\ timer_data'[u].tick = timer_data[u].tick
           /\ timer_data'[u].interval = timer_data[u].interval
           /\ timer_data'[u].id = timer_data[u].id
      /\ timer_data'[t].remove_heap
      /\ \A u \in Tids \ {t} : timer_data'[u] = timer_data[u]
  BY <1>4, <1>6 DEF TimerData
<1>10. timer_data[t].type \in {"once", "interval"}
  BY <1>1, <1>4 DEF TimerInv, HisFunc, TimerData
<1>11. /\ held' \in [Alarms -> Tids \cup {INVALID_TIMER}]
       /\ \A y \in Alarms \ {x} : held'[y] = held[y]
       /\ Forgets(t) => held'[x] = INVALID_TIMER
       /\ ~Forgets(t) => held'[x] = t
  BY <1>3, <1>4, <1>6
<1> QED
  BY <1>1, <1>2, <1>3, <1>5, <1>6, <1>7, <1>8, <1>9, <1>10, <1>11

LEMMA CalledPending ==
  ASSUME TimerInv, NEW t \in Tids, Call(t), NEW x, x = timer_data[t].id
  PROVE  /\ Pending(t)' <=> timer_data[t].type = "interval"
         /\ Live(x)' <=> timer_data[t].type = "interval"
         /\ \A u \in Tids \ {t} : Pending(u)' <=> Pending(u)
         /\ \A y \in Alarms \ {x} : (Live(y)' <=> Live(y)) /\ (Live(y) => held[y] # t)
<1>1. Pending(t)' <=> timer_data[t].type = "interval"
  <2>1. /\ timer_data[t].func # NoFunc /\ timer_data'[t].func = timer_data[t].func
        /\ timer_heap'[t] = 0 /\ running' = t /\ timer_data'[t].remove_heap
        /\ timer_data'[t].type = timer_data[t].type
    BY Called DEF Call
  <2> QED
    BY <2>1 DEF Pending
<1>2. \A u \in Tids \ {t} : Pending(u)' <=> Pending(u)
  BY Called, InvalidTid DEF Pending
<1>3. Live(x)' <=> timer_data[t].type = "interval"
  BY <1>1, Called, InvalidTid DEF Live, Forgets
<1>4. ASSUME NEW y \in Alarms \ {x}
      PROVE  (Live(y)' <=> Live(y)) /\ (Live(y) => held[y] # t)
  <2>1. CASE held[y] = t
    BY <2>1, Called DEF Live
  <2>2. CASE held[y] = INVALID_TIMER
    BY <2>2, Called, InvalidTid DEF Live
  <2>3. CASE held[y] \in Tids \ {t}
    <3>1. held'[y] = held[y] /\ timer_data'[held[y]] = timer_data[held[y]]
      BY <2>3, Called
    <3>2. Pending(held[y])' <=> Pending(held[y])
      BY <1>2, <2>3, <3>1
    <3> QED
      BY <2>3, <3>1, <3>2 DEF Live
  <2> QED
    BY <2>1, <2>2, <2>3 DEF TimerInv, TimerTypeOK
<1> QED
  BY <1>1, <1>2, <1>3, <1>4

LEMMA CallOK ==
  ASSUME TimerInv, NEW t \in Tids, Call(t)
  PROVE  TimerInv'
<1>0. PICK x : x = timer_data[t].id
  OBVIOUS
<1>1. UNCHANGED <<timer_data_num, free_timer_list, now, pass>> /\ pass # Idle
  BY DEF Call, IsDue
<1>2. TimerTypeOK'
  <2>1. timer_heap' \in [Tids -> Nat] /\ timer_data' \in [Tids -> TimerData]
        /\ held' \in [Alarms -> Tids \cup {INVALID_TIMER}] /\ running' \in Tids
    BY <1>0, Called
  <2> QED
    BY <1>1, <2>1 DEF TimerInv, TimerTypeOK
<1>3. IdsInPlace'
  <2> SUFFICES ASSUME NEW u \in Tids
               PROVE  /\ timer_heap'[u] <= 1
                      /\ timer_heap'[u] > 0 => ~Listed(u)' /\ u # running'
                      /\ Listed(u)' => u # running'
                      /\ u >= timer_data_num' => timer_heap'[u] = 0 /\ ~Listed(u)'
                                                 /\ u # running'
                      /\ u < timer_data_num' => \/ timer_heap'[u] > 0 \/ Listed(u)'
                                                \/ u = running'
                                                \/ timer_data'[u].func = NoFunc
    BY <1>1 DEF IdsInPlace, TimerInv
  <2>1. Listed(u)' <=> Listed(u)
    BY <1>1 DEF Listed
  <2>2. u \in Nat /\ t \in Nat /\ timer_data_num \in Nat
    BY DEF Tids, TimerInv, TimerTypeOK
  <2>3. CASE u = t
    <3>1. timer_heap'[t] = 0 /\ timer_heap[t] = 1 /\ running' = t /\ t < timer_data_num
      BY <1>0, Called
    <3>2. ~Listed(t)
      BY <3>1 DEF TimerInv, IdsInPlace
    <3> QED
      BY <1>1, <2>1, <2>2, <2>3, <3>1, <3>2
  <2>4. CASE u # t
    <3>1. timer_heap'[u] = timer_heap[u] /\ timer_data'[u] = timer_data[u]
          /\ running' = t /\ running = INVALID_TIMER
      BY <1>0, <2>4, Called
    <3>2. u # running
      BY <3>1, InvalidTid
    <3> QED
      BY <1>1, <2>1, <2>4, <3>1, <3>2 DEF TimerInv, IdsInPlace
  <2> QED
    BY <2>3, <2>4
<1>4. OwnersKnow'
  <2>1. ASSUME NEW y \in Alarms \ Careless, held'[y] # INVALID_TIMER PROVE Live(y)'
    <3>1. CASE y = x
      BY <1>0, <2>1, <3>1, Called, CalledPending DEF Forgets
    <3>2. CASE y # x
      BY <1>0, <2>1, <3>2, Called, CalledPending DEF TimerInv, OwnersKnow
    <3> QED
      BY <3>1, <3>2
  <2>2. ASSUME NEW u \in Tids, Pending(u)' PROVE held'[timer_data'[u].id] = u
    <3>1. CASE u = t
      BY <1>0, <2>2, <3>1, Called, CalledPending DEF Forgets
    <3>2. CASE u # t
      <4>1. Pending(u) /\ timer_data'[u] = timer_data[u]
        BY <1>0, <2>2, <3>2, Called, CalledPending
      <4>2. timer_data[u].id \in Alarms /\ held[timer_data[u].id] = u
        BY <4>1, LiveIs
      <4>3. timer_data[u].id # x
        BY <1>0, <3>2, <4>2, Called
      <4> QED
        BY <1>0, <4>1, <4>2, <4>3, Called
    <3> QED
      BY <3>1, <3>2
  <2> QED
    BY <2>1, <2>2 DEF OwnersKnow
<1>5. HisFunc'
  <2> SUFFICES ASSUME NEW u \in Tids
               PROVE  /\ timer_data'[u].func # NoFunc
                           => /\ timer_data'[u].id \in Alarms
                              /\ timer_data'[u].func = FuncOf[timer_data'[u].id]
                      /\ timer_heap'[u] > 0 \/ u = running'
                           => /\ timer_data'[u].type # "unused"
                              /\ timer_data'[u].id \in Alarms
                      /\ u = running' /\ ~timer_data'[u].remove_heap
                           => timer_data'[u].func = NoFunc
                      /\ timer_data'[u].type = "interval" => timer_data'[u].interval > 0
    BY DEF HisFunc
  <2>1. CASE u = t
    BY <1>0, <2>1, Called DEF TimerInv, HisFunc
  <2>2. CASE u # t
    <3>1. timer_heap'[u] = timer_heap[u] /\ timer_data'[u] = timer_data[u] /\ u # running'
      BY <1>0, <2>2, Called
    <3> QED
      BY <3>1 DEF TimerInv, HisFunc
  <2> QED
    BY <2>1, <2>2
<1> QED
  BY <1>2, <1>3, <1>4, <1>5 DEF TimerInv

\* An id that do_timer lists was not its owner's any more.
LEMMA Released ==
  ASSUME TimerInv, NEW t \in Tids, ~Listed(t), t < timer_data_num, Release(t),
         ~Pending(t), timer_heap'[t] = 0, t # running',
         \A u \in Tids \ {t} : timer_heap'[u] = timer_heap[u],
         \A u \in Tids \ {t} : u = running <=> u = running',
         timer_heap' \in [Tids -> Nat], running' \in Tids \cup {INVALID_TIMER},
         running # INVALID_TIMER => running' = INVALID_TIMER \/ running' = running,
         running = INVALID_TIMER => running' = INVALID_TIMER,
         UNCHANGED <<timer_data_num, held, now, pass>>
  PROVE  /\ TimerInv'
         /\ \A u \in Tids \ {t} : timer_data'[u] = timer_data[u]
         /\ \A u \in Tids : Pending(u)' <=> Pending(u)
         /\ \A y \in Alarms : Live(y)' <=> Live(y)
<1>1. /\ timer_data' = [timer_data EXCEPT ![t].remove_heap = FALSE, ![t].type = "unused"]
      /\ free_timer_list' = Append(free_timer_list, t)
      /\ timer_data \in [Tids -> TimerData]
  BY DEF Release, TimerInv, TimerTypeOK
<1>2. /\ timer_data' \in [Tids -> TimerData]
      /\ \A u \in Tids \ {t} : timer_data'[u] = timer_data[u]
      /\ timer_data'[t].func = timer_data[t].func /\ timer_data'[t].id = timer_data[t].id
      /\ timer_data'[t].type = "unused"
  BY <1>1 DEF TimerData
<1>3. /\ free_timer_list' \in Seq(0..(timer_data_num - 1))
      /\ \A u \in Tids : Listed(u)' <=> Listed(u) \/ u = t
      /\ \A i, j \in DOMAIN free_timer_list' :
           free_timer_list'[i] = free_timer_list'[j] => i = j
  BY <1>1, Lists DEF TimerInv
<1>4. \A u \in Tids : Pending(u)' <=> Pending(u)
  <2>1. ~Pending(t)'
    BY <1>2 DEF Pending
  <2>2. \A u \in Tids \ {t} : Pending(u)' <=> Pending(u)
    BY <1>2 DEF Pending
  <2> QED
    BY <2>1, <2>2
<1>5. \A y \in Alarms : Live(y)' <=> Live(y)
  <2> SUFFICES ASSUME NEW y \in Alarms PROVE Live(y)' <=> Live(y)
    OBVIOUS
  <2>1. held[y] \in Tids \cup {INVALID_TIMER} /\ held'[y] = held[y]
    BY DEF TimerInv, TimerTypeOK
  <2>2. CASE held[y] \in Tids
    BY <1>2, <1>4, <2>1, <2>2 DEF Live
  <2> QED
    BY <2>1, <2>2 DEF Live
<1>6. TimerTypeOK'
  BY <1>2, <1>3 DEF TimerInv, TimerTypeOK
<1>7. IdsInPlace'
  <2> SUFFICES ASSUME NEW u \in Tids
               PROVE  /\ timer_heap'[u] <= 1
                      /\ timer_heap'[u] > 0 => ~Listed(u)' /\ u # running'
                      /\ Listed(u)' => u # running'
                      /\ u >= timer_data_num' => timer_heap'[u] = 0 /\ ~Listed(u)'
                                                 /\ u # running'
                      /\ u < timer_data_num' => \/ timer_heap'[u] > 0 \/ Listed(u)'
                                                \/ u = running'
                                                \/ timer_data'[u].func = NoFunc
    BY <1>3 DEF IdsInPlace
  <2>1. CASE u = t
    <3>1. t \in Nat /\ timer_data_num \in Nat
      BY DEF Tids, TimerInv, TimerTypeOK
    <3> QED
      BY <1>3, <2>1, <3>1
  <2>2. CASE u # t
    <3>1. timer_heap'[u] = timer_heap[u] /\ timer_data'[u] = timer_data[u]
          /\ (Listed(u)' <=> Listed(u)) /\ (u = running <=> u = running')
      BY <1>2, <1>3, <2>2
    <3> QED
      BY <3>1 DEF TimerInv, IdsInPlace
  <2> QED
    BY <2>1, <2>2
<1>8. OwnersKnow'
  <2>1. \A y \in Alarms \ Careless : held'[y] # INVALID_TIMER => Live(y)'
    BY <1>5 DEF TimerInv, OwnersKnow
  <2>2. ASSUME NEW u \in Tids, Pending(u)' PROVE held'[timer_data'[u].id] = u
    BY <1>2, <1>4, <2>2 DEF TimerInv, OwnersKnow
  <2> QED
    BY <2>1, <2>2 DEF OwnersKnow
<1>9. HisFunc'
  <2> SUFFICES ASSUME NEW u \in Tids
               PROVE  /\ timer_data'[u].func # NoFunc
                           => /\ timer_data'[u].id \in Alarms
                              /\ timer_data'[u].func = FuncOf[timer_data'[u].id]
                      /\ timer_heap'[u] > 0 \/ u = running'
                           => /\ timer_data'[u].type # "unused"
                              /\ timer_data'[u].id \in Alarms
                      /\ u = running' /\ ~timer_data'[u].remove_heap
                           => timer_data'[u].func = NoFunc
                      /\ timer_data'[u].type = "interval" => timer_data'[u].interval > 0
    BY DEF HisFunc
  <2>1. CASE u = t
    BY <1>2, <2>1 DEF TimerInv, HisFunc
  <2>2. CASE u # t
    BY <1>2, <2>2 DEF TimerInv, HisFunc
  <2> QED
    BY <2>1, <2>2
<1> QED
  BY <1>2, <1>4, <1>5, <1>6, <1>7, <1>8, <1>9 DEF TimerInv

LEMMA Discarded ==
  ASSUME TimerInv, NEW t \in Tids, Discard(t)
  PROVE  /\ TimerInv' /\ UNCHANGED <<now, running, held>> /\ running = INVALID_TIMER
         /\ ~Pending(t)
         /\ \A u \in Tids \ {t} : timer_data'[u] = timer_data[u]
         /\ \A y \in Alarms : Live(y)' <=> Live(y)
<1>1. /\ timer_heap[t] > 0 /\ running = INVALID_TIMER /\ timer_data[t].func = NoFunc
      /\ timer_heap' = [timer_heap EXCEPT ![t] = @ - 1] /\ Release(t)
      /\ UNCHANGED <<timer_data_num, held, now, pass, running>>
  BY DEF Discard, IsDue, OnTop
<1>2. timer_heap \in [Tids -> Nat] /\ t \in Nat /\ timer_data_num \in Nat
  BY DEF TimerInv, TimerTypeOK, Tids
<1>3. timer_heap[t] = 1 /\ ~Listed(t) /\ t < timer_data_num
  BY <1>1, <1>2 DEF TimerInv, IdsInPlace
<1>4. /\ timer_heap' \in [Tids -> Nat] /\ timer_heap'[t] = 0
      /\ \A u \in Tids \ {t} : timer_heap'[u] = timer_heap[u]
  BY <1>1, <1>2, <1>3
<1>5. ~Pending(t) /\ t # running'
  BY <1>1, InvalidTid DEF Pending
<1> QED
  BY <1>1, <1>3, <1>4, <1>5, InvalidTid, Released

\* The function of a timer for one use returns.
LEMMA ReturnedOnce ==
  ASSUME TimerInv, Return, timer_data[running].remove_heap,
         timer_data[running].type # "interval"
  PROVE  /\ TimerInv' /\ UNCHANGED <<now, held>> /\ running \in Tids
         /\ ~Pending(running)
         /\ \A u \in Tids \ {running} : timer_data'[u] = timer_data[u]
         /\ \A y \in Alarms : Live(y)' <=> Live(y)
<1>1. PICK t \in Tids : t = running
  BY DEF Return, TimerInv, TimerTypeOK
<1>2. /\ running' = INVALID_TIMER /\ Release(t) /\ UNCHANGED timer_heap
      /\ UNCHANGED <<timer_data_num, held, now, pass>>
  BY <1>1 DEF Return
<1>3. timer_heap \in [Tids -> Nat] /\ t \in Nat /\ timer_data_num \in Nat
  BY DEF TimerInv, TimerTypeOK, Tids
<1>4. timer_heap[t] = 0 /\ ~Listed(t) /\ t < timer_data_num
  BY <1>1, <1>3 DEF TimerInv, IdsInPlace
<1>5. ~Pending(t) /\ t # running' /\ t # INVALID_TIMER
  BY <1>1, <1>2, <1>4, InvalidTid DEF Pending
<1>6. \A u \in Tids \ {t} : u = running <=> u = running'
  BY <1>1, <1>2, InvalidTid
<1> QED
  BY <1>1, <1>2, <1>3, <1>4, <1>5, <1>6, Released

\* The function of an interval timer returns: it waits for its next tick.
LEMMA ReturnedInterval ==
  ASSUME TimerInv, Return, timer_data[running].remove_heap,
         timer_data[running].type = "interval", NEW t, t = running
  PROVE  /\ t \in Tids /\ running' = INVALID_TIMER /\ timer_heap[t] = 0
         /\ UNCHANGED <<now, held, pass, timer_data_num, free_timer_list>>
         /\ timer_heap' \in [Tids -> Nat] /\ timer_heap'[t] = 1
         /\ timer_data' \in [Tids -> TimerData] /\ timer_data'[t].tick = NextTick(t)
         /\ \A u \in Tids \ {t} :
              timer_data'[u] = timer_data[u] /\ timer_heap'[u] = timer_heap[u]
         /\ \A u \in Tids :
              /\ timer_data'[u].func = timer_data[u].func
              /\ timer_data'[u].type = timer_data[u].type
              /\ timer_data'[u].interval = timer_data[u].interval
              /\ timer_data'[u].id = timer_data[u].id
              /\ Pending(u)' <=> Pending(u)
         /\ \A y \in Alarms : Live(y)' <=> Live(y)
<1>1. t \in Tids /\ pass \in Nat
  BY DEF Return, TimerInv, TimerTypeOK
<1>2. /\ running' = INVALID_TIMER
      /\ timer_data' = [timer_data EXCEPT ![t].remove_heap = FALSE,
                                         ![t].tick = NextTick(t)]
      /\ timer_heap' = [timer_heap EXCEPT ![t] = @ + 1]
      /\ UNCHANGED <<now, held, pass, timer_data_num, free_timer_list>>
  BY DEF Return, Restart
<1>3. timer_heap \in [Tids -> Nat] /\ timer_data \in [Tids -> TimerData]
  BY DEF TimerInv, TimerTypeOK
<1>4. timer_heap[t] = 0
  BY <1>1, <1>3 DEF TimerInv, IdsInPlace
<1>5. NextTick(t) \in Nat
  BY <1>1, <1>3 DEF NextTick, CallTick, TimerData
<1>6. /\ timer_heap' \in [Tids -> Nat] /\ timer_heap'[t] = 1
      /\ \A u \in Tids \ {t} : timer_heap'[u] = timer_heap[u]
  BY <1>1, <1>2, <1>3, <1>4
<1>7. timer_data' \in [Tids -> TimerData]
  <2> DEFINE k == NextTick(t)
  <2>1. k \in Nat /\ timer_data' = [timer_data EXCEPT ![t].remove_heap = FALSE,
                                                    ![t].tick = k]
    BY <1>2, <1>5
  <2> HIDE DEF k
  <2>2. [timer_data[t] EXCEPT !.remove_heap = FALSE, !.tick = k] \in TimerData
    <3>1. timer_data[t] \in TimerData
      BY <1>1, <1>3
    <3> QED
      BY <2>1, <3>1 DEF TimerData
  <2>3. timer_data' = [timer_data EXCEPT
          ![t] = [timer_data[t] EXCEPT !.remove_heap = FALSE, !.tick = k]]
    BY <1>1, <1>3, <2>1
  <2> QED
    BY <1>3, <2>2, <2>3
<1>8. /\ timer_data'[t].tick = NextTick(t)
      /\ \A u \in Tids \ {t} : timer_data'[u] = timer_data[u]
  BY <1>1, <1>2, <1>3 DEF TimerData
<1>9. \A u \in Tids :
        /\ timer_data'[u].func = timer_data[u].func
        /\ timer_data'[u].type = timer_data[u].type
        /\ timer_data'[u].interval = timer_data[u].interval
        /\ timer_data'[u].id = timer_data[u].id
  BY <1>1, <1>2, <1>3 DEF TimerData
<1>10. \A u \in Tids : Pending(u)' <=> Pending(u)
  <2>1. Pending(t)' <=> Pending(t)
    BY <1>6, <1>9, <1>1 DEF Pending
  <2>2. \A u \in Tids \ {t} : Pending(u)' <=> Pending(u)
    BY <1>2, <1>6, <1>9, InvalidTid DEF Pending
  <2> QED
    BY <2>1, <2>2
<1>11. \A y \in Alarms : Live(y)' <=> Live(y)
  <2> SUFFICES ASSUME NEW y \in Alarms PROVE Live(y)' <=> Live(y)
    OBVIOUS
  <2>1. held[y] \in Tids \cup {INVALID_TIMER} /\ held'[y] = held[y]
    BY <1>2 DEF TimerInv, TimerTypeOK
  <2>2. CASE held[y] \in Tids
    BY <1>9, <1>10, <2>1, <2>2 DEF Live
  <2> QED
    BY <2>1, <2>2 DEF Live
<1> QED
  BY <1>1, <1>2, <1>4, <1>6, <1>7, <1>8, <1>9, <1>10, <1>11

\* The function deleted its own timer.
LEMMA ReturnedDeleted ==
  ASSUME TimerInv, Return, ~timer_data[running].remove_heap, NEW t, t = running
  PROVE  /\ t \in Tids /\ timer_data[t].func = NoFunc /\ running' = INVALID_TIMER
         /\ UNCHANGED <<timer_data, timer_heap, free_timer_list, timer_data_num, held,
                        now, pass>>
         /\ \A u \in Tids : Pending(u)' <=> Pending(u)
         /\ \A y \in Alarms : Live(y)' <=> Live(y)
<1>1. /\ t \in Tids /\ running' = INVALID_TIMER
      /\ UNCHANGED <<timer_data, timer_heap, free_timer_list, timer_data_num, held,
                     now, pass>>
  BY DEF Return, TimerInv, TimerTypeOK
<1>2. timer_data[t].func = NoFunc
  BY <1>1 DEF TimerInv, HisFunc
<1>3. \A u \in Tids : Pending(u)' <=> Pending(u)
  BY <1>1, <1>2, InvalidTid DEF Pending
<1>4. \A y \in Alarms : Live(y)' <=> Live(y)
  <2> SUFFICES ASSUME NEW y \in Alarms PROVE Live(y)' <=> Live(y)
    OBVIOUS
  <2>1. held[y] \in Tids \cup {INVALID_TIMER}
    BY DEF TimerInv, TimerTypeOK
  <2>2. CASE held[y] \in Tids
    BY <1>1, <1>3, <2>2 DEF Live
  <2> QED
    BY <1>1, <2>1, <2>2 DEF Live
<1> QED
  BY <1>1, <1>2, <1>3, <1>4

LEMMA ReturnOK ==
  ASSUME TimerInv, Return
  PROVE  TimerInv'
<1>1. CASE timer_data[running].remove_heap /\ timer_data[running].type # "interval"
  BY <1>1, ReturnedOnce
<1>2. CASE timer_data[running].remove_heap /\ timer_data[running].type = "interval"
  <2>0. PICK t : t = running
    OBVIOUS
  <2>1. TimerTypeOK'
    BY <1>2, <2>0, ReturnedInterval DEF TimerInv, TimerTypeOK
  <2>2. IdsInPlace'
    <3> SUFFICES ASSUME NEW u \in Tids
                 PROVE  /\ timer_heap'[u] <= 1
                        /\ timer_heap'[u] > 0 => ~Listed(u)' /\ u # running'
                        /\ Listed(u)' => u # running'
                        /\ u >= timer_data_num' => timer_heap'[u] = 0 /\ ~Listed(u)'
                                                   /\ u # running'
                        /\ u < timer_data_num' => \/ timer_heap'[u] > 0 \/ Listed(u)'
                                                  \/ u = running'
                                                  \/ timer_data'[u].func = NoFunc
      BY <1>2, <2>0, ReturnedInterval DEF IdsInPlace, TimerInv
    <3>1. /\ running' = INVALID_TIMER /\ u # running' /\ timer_data_num' = timer_data_num
          /\ Listed(u)' <=> Listed(u)
      BY <1>2, <2>0, ReturnedInterval, InvalidTid DEF Listed
    <3>2. u \in Nat /\ timer_data_num \in Nat
      BY DEF Tids, TimerInv, TimerTypeOK
    <3>3. CASE u = t
      <4>1. timer_heap'[u] = 1
        BY <1>2, <2>0, <3>3, ReturnedInterval
      <4>2. ~Listed(u) /\ ~(u >= timer_data_num)
        BY <2>0, <3>3 DEF TimerInv, IdsInPlace
      <4> QED
        BY <3>1, <4>1, <4>2
    <3>4. CASE u # t
      <4>1. timer_heap'[u] = timer_heap[u] /\ timer_data'[u] = timer_data[u]
        BY <1>2, <2>0, <3>4, ReturnedInterval
      <4> QED
        BY <2>0, <3>1, <3>4, <4>1 DEF TimerInv, IdsInPlace
    <3> QED
      BY <3>3, <3>4
  <2>3. OwnersKnow'
    <3>1. /\ UNCHANGED held /\ \A u \in Tids : timer_data'[u].id = timer_data[u].id
          /\ \A u \in Tids : Pending(u)' <=> Pending(u)
          /\ \A y \in Alarms : Live(y)' <=> Live(y)
      BY <1>2, <2>0, ReturnedInterval
    <3> QED
      BY <3>1 DEF TimerInv, OwnersKnow
  <2>4. HisFunc'
    <3>1. /\ \A u \in Tids \ {t} : timer_heap'[u] = timer_heap[u]
          /\ \A u \in Tids :
               /\ timer_data'[u].func = timer_data[u].func
               /\ timer_data'[u].type = timer_data[u].type
               /\ timer_data'[u].interval = timer_data[u].interval
               /\ timer_data'[u].id = timer_data[u].id
          /\ \A u \in Tids : u # running'
      BY <1>2, <2>0, ReturnedInterval, InvalidTid
    <3> QED
      BY <2>0, <3>1 DEF TimerInv, HisFunc
  <2> QED
    BY <2>1, <2>2, <2>3, <2>4 DEF TimerInv
<1>3. CASE ~timer_data[running].remove_heap
  <2>0. PICK t : t = running
    OBVIOUS
  <2>1. TimerTypeOK'
    BY <1>3, <2>0, ReturnedDeleted DEF TimerInv, TimerTypeOK
  <2>2. IdsInPlace'
    <3> SUFFICES ASSUME NEW u \in Tids
                 PROVE  /\ timer_heap'[u] <= 1
                        /\ timer_heap'[u] > 0 => ~Listed(u)' /\ u # running'
                        /\ Listed(u)' => u # running'
                        /\ u >= timer_data_num' => timer_heap'[u] = 0 /\ ~Listed(u)'
                                                   /\ u # running'
                        /\ u < timer_data_num' => \/ timer_heap'[u] > 0 \/ Listed(u)'
                                                  \/ u = running'
                                                  \/ timer_data'[u].func = NoFunc
      BY <1>3, <2>0, ReturnedDeleted DEF IdsInPlace, TimerInv
    <3>1. u # running' /\ (Listed(u)' <=> Listed(u))
      BY <1>3, <2>0, ReturnedDeleted, InvalidTid DEF Listed
    <3>2. CASE u = t
      BY <1>3, <2>0, <3>1, <3>2, ReturnedDeleted DEF TimerInv, IdsInPlace
    <3>3. CASE u # t
      BY <1>3, <2>0, <3>1, <3>3, ReturnedDeleted DEF TimerInv, IdsInPlace
    <3> QED
      BY <3>2, <3>3
  <2>3. OwnersKnow'
    BY <1>3, <2>0, ReturnedDeleted DEF TimerInv, OwnersKnow
  <2>4. HisFunc'
    <3>1. UNCHANGED <<timer_data, timer_heap>> /\ \A u \in Tids : u # running'
      BY <1>3, <2>0, ReturnedDeleted, InvalidTid
    <3> QED
      BY <3>1 DEF TimerInv, HisFunc
  <2> QED
    BY <2>1, <2>2, <2>3, <2>4 DEF TimerInv
<1> QED
  BY <1>1, <1>2, <1>3

\* Steps that touch no timer.
LEMMA SameTimers ==
  ASSUME TimerInv, StartPass \/ EndPass \/ ClockTicks \/ UNCHANGED timer_vars
  PROVE  TimerInv' /\ \A x \in Alarms : Live(x)' <=> Live(x)
<1>1. UNCHANGED <<timer_data, timer_data_num, free_timer_list, timer_heap, held, running>>
  BY DEF StartPass, EndPass, ClockTicks, timer_vars
<1>2. TimerTypeOK'
  <2>1. now \in Nat /\ pass \in 0..now \cup {Idle} /\ (pass = Idle => running = INVALID_TIMER)
    BY DEF TimerInv, TimerTypeOK
  <2>2. now' \in Nat /\ pass' \in 0..now' \cup {Idle}
        /\ (pass' = Idle => running = INVALID_TIMER)
    BY <2>1 DEF StartPass, EndPass, ClockTicks, timer_vars, Idle
  <2> QED
    BY <1>1, <2>2 DEF TimerInv, TimerTypeOK
<1>3. IdsInPlace'
  BY <1>1 DEF TimerInv, IdsInPlace, Listed
<1>4. OwnersKnow' /\ \A x \in Alarms : Live(x)' <=> Live(x)
  BY <1>1 DEF TimerInv, OwnersKnow, Live, Pending
<1>5. HisFunc'
  BY <1>1 DEF TimerInv, HisFunc
<1> QED
  BY <1>2, <1>3, <1>4, <1>5 DEF TimerInv

LEMMA TimerStart == TimerInit => TimerInv
<1> SUFFICES ASSUME TimerInit PROVE TimerInv
  OBVIOUS
<1>1. TimerTypeOK
  <2>1. Unused \in TimerData
    BY DEF Unused, TimerData
  <2>2. 0 \in 0..MaxTids
    BY DEF TickAssumption
  <2>3. <<>> \in Seq(0..(0 - 1))
    OBVIOUS
  <2> QED
    BY <2>1, <2>2, <2>3 DEF TimerInit, TimerTypeOK, Idle
<1>2. IdsInPlace
  BY InvalidTid DEF TimerInit, IdsInPlace, Listed, Tids
<1>3. OwnersKnow /\ HisFunc
  BY InvalidTid DEF TimerInit, OwnersKnow, HisFunc, Pending, Unused
<1> QED
  BY <1>1, <1>2, <1>3 DEF TimerInv

LEMMA TimerStep ==
  ASSUME TimerInv, [TimerNext]_timer_vars
  PROVE  TimerInv'
<1>1. ASSUME NEW x \in Alarms, OwnerStep(x) PROVE TimerInv'
  BY <1>1, AddOK, DeleteOK, SettickOK DEF OwnerStep
<1>2. CASE DoTimer
  BY <1>2, SameTimers, ReturnOK, CallOK, Discarded DEF DoTimer
<1> QED
  BY <1>1, <1>2, SameTimers DEF TimerNext

LEMMA TimerAlways == TimerSpec => []TimerInv
<1>1. TimerInv /\ [TimerNext]_timer_vars => TimerInv'
  BY TimerStep
<1> QED
  BY <1>1, TimerStart, PTL DEF TimerSpec

\* The heap, the free list and the table of timers keep their types.
THEOREM TimerTypes == TimerSpec => []TimerTypeOK
<1>1. TimerInv => TimerTypeOK
  BY DEF TimerInv
<1> QED
  BY <1>1, TimerAlways, PTL

\* An id is in one place: pending in the heap, free, in the hands of do_timer, or
\* lost for good, however timers fire, are deleted, moved and started by functions
\* that do_timer calls (acquire_timer, do_timer).
THEOREM TimerPlaces == TimerSpec => []IdsInPlace
<1>1. TimerInv => IdsInPlace
  BY DEF TimerInv
<1> QED
  BY <1>1, TimerAlways, PTL

\* An owner's id is that of a timer of his own, given to him alone.
THEOREM TimerOwners == TimerSpec => []OwnersKnow
<1>1. TimerInv => OwnersKnow
  BY DEF TimerInv
<1> QED
  BY <1>1, TimerAlways, PTL

----------------------------------------------------------------------------
(* What owners see *)

Ringing == IF running = INVALID_TIMER THEN NoAlarm ELSE timer_data[running].id

\* An alarm looks the same as long as its timer does.
LEMMA SameAlarm ==
  ASSUME NEW y \in Alarms, Live(y)' <=> Live(y),
         Live(y) => /\ held'[y] = held[y]
                    /\ timer_data'[held[y]].type = timer_data[held[y]].type
                    /\ timer_data'[held[y]].interval = timer_data[held[y]].interval
                    /\ timer_data'[held[y]].tick = timer_data[held[y]].tick
                    /\ held[y] = running' <=> held[y] = running
                    /\ held[y] = running => pass' = pass
  PROVE  AlarmOf(y)' = AlarmOf(y)
<1>1. CASE ~Live(y)
  BY <1>1 DEF AlarmOf
<1>2. CASE Live(y)
  <2>1. Due(held[y])' = Due(held[y])
    BY <1>2 DEF Due, NextTick, CallTick
  <2> QED
    BY <1>2, <2>1 DEF AlarmOf
<1> QED
  BY <1>1, <1>2

\* The alarms of the others, when the timer that changes is not theirs.
LEMMA OtherAlarm ==
  ASSUME TimerInv, NEW y \in Alarms, NEW t, Live(y)' <=> Live(y),
         Live(y) => held[y] # t, held'[y] = held[y],
         \A u \in Tids \ {t} : timer_data'[u] = timer_data[u],
         \A u \in Tids \ {t} : u = running' <=> u = running,
         running # INVALID_TIMER => pass' = pass
  PROVE  AlarmOf(y)' = AlarmOf(y)
<1>1. Live(y) => held[y] \in Tids \ {t} /\ held[y] # INVALID_TIMER
  BY LiveHeld DEF Live
<1> QED
  BY <1>1, SameAlarm

LEMMA AddSets ==
  ASSUME TimerInv, NEW x \in Alarms, NEW d, NEW i \in {0} \cup Intervals,
         Add(x, d, i)
  PROVE  AlarmClock!Set(x)
<1>0. PICK a : a = Acquired
  OBVIOUS
<1>1. /\ running' = running /\ pass' = pass /\ now' = now
      /\ a \in Tids /\ a # running
  BY <1>0, Added DEF Add
<1>2. AlarmOf(x).on = FALSE
  BY <1>0, AddedPending DEF AlarmOf
<1>3. AlarmOf(x)'.on /\ AlarmOf(x)'.due = d
  BY <1>0, <1>1, Added, AddedPending DEF AlarmOf, Due
<1>4. ASSUME NEW y \in Alarms \ {x} PROVE AlarmOf(y)' = AlarmOf(y)
  BY <1>0, <1>1, Added, AddedPending, OtherAlarm
<1>5. Ringing' = Ringing
  <2>1. running \in Tids \ {a} \/ running = INVALID_TIMER
    BY <1>1 DEF TimerInv, TimerTypeOK
  <2> QED
    BY <1>0, <1>1, <2>1, Added DEF Ringing
<1> QED
  BY <1>1, <1>2, <1>3, <1>4, <1>5 DEF AlarmClock!Set, AlarmClock!Only, Ringing

LEMMA DeleteCancels ==
  ASSUME TimerInv, NEW x \in Alarms, Delete(x)
  PROVE  AlarmClock!Cancel(x) \/ UNCHANGED AlarmClock!alarm_vars
<1>0. PICK t : t = held[x]
  OBVIOUS
<1>1. UNCHANGED <<now, pass, running>>
  BY DEF Delete
<1>2. CASE timer_data[t].func = FuncOf[x]
  <2>1. ASSUME NEW y \in Alarms \ {x} PROVE AlarmOf(y)' = AlarmOf(y)
    BY <1>0, <1>1, <1>2, Deleted, OtherAlarm
  <2>2. AlarmOf(x)' = AlarmClock!Off
    BY <1>0, <1>2, Deleted DEF AlarmOf, AlarmClock!Off
  <2>3. Ringing' = Ringing
    <3>1. running \in Tids \/ running = INVALID_TIMER
      BY DEF TimerInv, TimerTypeOK
    <3>2. running \in Tids => timer_data'[running].id = timer_data[running].id
      BY <1>0, <1>2, Deleted
    <3> QED
      BY <1>1, <3>1, <3>2 DEF Ringing
  <2>4. CASE Live(x)
    <3>1. AlarmOf(x).on
      BY <2>4 DEF AlarmOf
    <3> QED
      BY <1>1, <2>1, <2>2, <2>3, <3>1 DEF AlarmClock!Cancel, AlarmClock!Only, Ringing
  <2>5. CASE ~Live(x)
    <3>1. AlarmOf(x)' = AlarmOf(x)
      BY <2>2, <2>5 DEF AlarmOf, AlarmClock!Off
    <3>2. \A y \in Alarms : AlarmOf(y)' = AlarmOf(y)
      BY <2>1, <3>1
    <3> QED
      BY <1>1, <2>3, <3>2 DEF AlarmClock!alarm_vars, Ringing
  <2> QED
    BY <2>4, <2>5
<1>3. CASE timer_data[t].func # FuncOf[x]
  <2>1. AlarmOf(x)' = AlarmOf(x)
    BY <1>0, <1>3, Refused DEF AlarmOf
  <2>2. ASSUME NEW y \in Alarms \ {x} PROVE AlarmOf(y)' = AlarmOf(y)
    BY <1>0, <1>1, <1>3, Refused, SameAlarm
  <2>3. \A y \in Alarms : AlarmOf(y)' = AlarmOf(y)
    BY <2>1, <2>2
  <2>4. Ringing' = Ringing
    BY <1>0, <1>1, <1>3, Refused DEF Ringing
  <2> QED
    BY <1>1, <2>3, <2>4 DEF AlarmClock!alarm_vars, Ringing
<1> QED
  BY <1>2, <1>3

LEMMA SettickMoves ==
  ASSUME TimerInv, NEW x \in Alarms, NEW tick, Settick(x, tick)
  PROVE  AlarmClock!Move(x)
<1>0. PICK t : t = held[x]
  OBVIOUS
<1>1. UNCHANGED <<now, pass, running, held>>
  BY DEF Settick
<1>2. t \in Tids /\ t # running
  BY <1>0, Moved
<1>3. AlarmOf(x).on /\ AlarmOf(x)'.on /\ AlarmOf(x)'.due = tick
      /\ AlarmOf(x)'.every = AlarmOf(x).every
  BY <1>0, <1>1, <1>2, Moved DEF AlarmOf, Due
<1>4. ASSUME NEW y \in Alarms \ {x} PROVE AlarmOf(y)' = AlarmOf(y)
  <2>1. /\ Live(y)' <=> Live(y)
        /\ Live(y) => held[y] # t
        /\ \A u \in Tids \ {t} : timer_data'[u] = timer_data[u]
    BY <1>0, Moved
  <2> QED
    BY <1>1, <2>1, OtherAlarm
<1>5. Ringing' = Ringing
  <2>1. running \in Tids \/ running = INVALID_TIMER
    BY DEF TimerInv, TimerTypeOK
  <2> QED
    BY <1>0, <1>1, <2>1, Moved DEF Ringing
<1> QED
  BY <1>1, <1>3, <1>4, <1>5 DEF AlarmClock!Move, AlarmClock!Only, Ringing

\* An alarm is its three fields, and moving one changes one of them.
LEMMA AlarmFields ==
  ASSUME NEW d, NEW e, NEW y \in [on : {TRUE}, due : d, every : {e}]
  PROVE  y = [on |-> TRUE, due |-> y.due, every |-> e]
  OBVIOUS

LEMMA NewDue ==
  ASSUME NEW d, NEW e, NEW v, NEW a, a = [on |-> TRUE, due |-> d, every |-> e]
  PROVE  [a EXCEPT !.due = v] = [on |-> TRUE, due |-> v, every |-> e]
<1> DEFINE y == [a EXCEPT !.due = v]
<1>1. a \in [on : {TRUE}, due : {d, v}, every : {e}]
  OBVIOUS
<1>2. y \in [on : {TRUE}, due : {d, v}, every : {e}] /\ y.due = v
  BY <1>1
<1> HIDE DEF y
<1>3. y = [on |-> TRUE, due |-> v, every |-> e]
  BY <1>2, AlarmFields
<1> QED
  BY <1>3 DEF y

LEMMA CallRings ==
  ASSUME TimerInv, NEW t \in Tids, Call(t)
  PROVE  AlarmClock!Ring(timer_data[t].id)
<1>0. PICK x : x = timer_data[t].id
  OBVIOUS
<1>1. /\ UNCHANGED <<now, pass>> /\ pass # Idle /\ timer_data[t].tick <= pass
      /\ x \in Alarms /\ held[x] = t /\ Live(x) /\ running = INVALID_TIMER /\ running' = t
      /\ timer_data[t].type \in {"once", "interval"}
  BY <1>0, Called DEF Call, IsDue
<1>2. /\ now \in Nat /\ pass \in Nat /\ pass <= now /\ LateLimit \in Nat
      /\ timer_data[t] \in TimerData
  BY <1>1 DEF TimerInv, TimerTypeOK, TickAssumption
<1>3. t # INVALID_TIMER /\ t # running
  BY <1>1, InvalidTid
<1>4. Ringing = NoAlarm /\ Ringing' = x
  BY <1>0, <1>1, <1>3, Called DEF Ringing
<1>5. AlarmOf(x) = [on |-> TRUE, due |-> timer_data[t].tick,
                    every |-> IF timer_data[t].type = "once" THEN 0
                              ELSE timer_data[t].interval]
  BY <1>1, <1>3 DEF AlarmOf, Due
<1>6. ASSUME NEW y \in Alarms \ {x} PROVE AlarmOf(y)' = AlarmOf(y)
  <2>1. /\ Live(y)' <=> Live(y)
        /\ Live(y) => held[y] # t
        /\ held'[y] = held[y]
        /\ \A u \in Tids \ {t} : timer_data'[u] = timer_data[u]
    BY <1>0, Called, CalledPending
  <2>2. \A u \in Tids \ {t} : u = running' <=> u = running
    BY <1>1, InvalidTid
  <2> QED
    BY <1>1, <2>1, <2>2, OtherAlarm
<1>9. \A y \in Alarms : AlarmOf(y).on => AlarmOf(x).due <= AlarmOf(y).due
  <2> SUFFICES ASSUME NEW y \in Alarms, AlarmOf(y).on
               PROVE  AlarmOf(x).due <= AlarmOf(y).due
    OBVIOUS
  <2>1. Live(y)
    BY DEF AlarmOf
  <2>2. held[y] \in Tids /\ held[y] # running /\ timer_heap[held[y]] > 0
    BY <1>1, <2>1, LiveHeld, InvalidTid DEF Pending
  <2>3. timer_data[t].tick <= timer_data[held[y]].tick
    BY <2>2 DEF Call, IsDue, OnTop
  <2>4. AlarmOf(y).due = timer_data[held[y]].tick
    BY <2>1, <2>2 DEF AlarmOf, Due
  <2> QED
    BY <1>5, <2>3, <2>4
<1>7. CASE timer_data[t].type = "once"
  <2>1. ~Live(x)'
    BY <1>0, <1>7, CalledPending
  <2>2. AlarmOf(x)' = AlarmClock!Off
    BY <2>1 DEF AlarmOf, AlarmClock!Off
  <2>3. AlarmOf(x).on /\ AlarmOf(x).due <= now /\ AlarmOf(x).every = 0
    BY <1>1, <1>2, <1>5, <1>7 DEF TimerData
  <2> QED
    BY <1>0, <1>1, <1>4, <1>6, <1>9, <2>2, <2>3
       DEF AlarmClock!Ring, AlarmClock!Only, Ringing
<1>8. CASE timer_data[t].type = "interval"
  <2>1. Live(x)' /\ held'[x] = t /\ ~Forgets(t)
    BY <1>0, <1>8, Called, CalledPending DEF Forgets
  <2>2. /\ timer_data'[t].type = "interval" /\ timer_data'[t].tick = timer_data[t].tick
        /\ timer_data'[t].interval = timer_data[t].interval
    BY <1>0, <1>8, Called
  <2> DEFINE beat == IF pass > timer_data[t].tick + LateLimit
                     THEN pass ELSE timer_data[t].tick
  <2>3. AlarmOf(x)' = [on |-> TRUE, due |-> timer_data[t].interval + beat,
                       every |-> timer_data[t].interval]
    BY <1>1, <2>1, <2>2 DEF AlarmOf, Due, NextTick, CallTick
  <2>4. timer_data[t].tick \in Nat /\ timer_data[t].interval \in Nat
    BY <1>2 DEF TimerData
  <2>5. timer_data[t].interval > 0
    BY <1>8 DEF TimerInv, HisFunc
  <2>6. beat \in timer_data[t].tick..now
    BY <1>1, <1>2, <2>4
  <2>7. beat = IF beat > timer_data[t].tick + LateLimit THEN beat ELSE timer_data[t].tick
    BY <1>2, <2>4
  <2> HIDE DEF beat
  <2>8. /\ AlarmOf(x).on /\ AlarmOf(x).due = timer_data[t].tick
        /\ AlarmOf(x).every = timer_data[t].interval
        /\ AlarmOf(x) = [on |-> TRUE, due |-> timer_data[t].tick,
                         every |-> timer_data[t].interval]
    BY <1>5, <1>8
  <2> DEFINE late == IF beat > timer_data[t].tick + LateLimit
                     THEN beat ELSE timer_data[t].tick
  <2>9. AlarmOf(x)' = [AlarmOf(x) EXCEPT !.due = timer_data[t].interval + late]
    <3>1. late = beat
      BY <2>7
    <3> HIDE DEF late
    <3>2. AlarmOf(x)' = [on |-> TRUE, due |-> timer_data[t].interval + late,
                         every |-> timer_data[t].interval]
      BY <2>3, <3>1
    <3> QED
      BY <2>8, <3>2, NewDue
  <2>10. \E b \in AlarmOf(x).due..now :
           AlarmOf(x)' = [AlarmOf(x) EXCEPT
                            !.due = AlarmOf(x).every
                                      + (IF b > AlarmOf(x).due + LateLimit
                                         THEN b ELSE AlarmOf(x).due)]
    BY <2>6, <2>8, <2>9
  <2>11. AlarmOf(x).due <= now /\ AlarmOf(x).every # 0
    BY <1>1, <1>2, <2>4, <2>5, <2>8
  <2> QED
    BY <1>0, <1>1, <1>4, <1>6, <1>9, <2>8, <2>10, <2>11
       DEF AlarmClock!Ring, AlarmClock!NextBeat, AlarmClock!Only, Ringing
<1> QED
  BY <1>1, <1>7, <1>8

LEMMA DiscardStutters ==
  ASSUME TimerInv, NEW t \in Tids, Discard(t)
  PROVE  UNCHANGED AlarmClock!alarm_vars
<1>1. ASSUME NEW y \in Alarms PROVE AlarmOf(y)' = AlarmOf(y)
  <2>1. Live(y) => held[y] # t
    BY Discarded DEF Live
  <2> QED
    BY <2>1, Discarded, OtherAlarm
<1>2. Ringing' = Ringing /\ now' = now
  BY Discarded DEF Ringing
<1> QED
  BY <1>1, <1>2 DEF AlarmClock!alarm_vars, Ringing

LEMMA ReturnIsDone ==
  ASSUME TimerInv, Return
  PROVE  AlarmClock!Done
<1>0. PICK t \in Tids : t = running
  BY DEF Return, TimerInv, TimerTypeOK
<1>1. running' = INVALID_TIMER /\ t # INVALID_TIMER /\ UNCHANGED <<now, held, pass>>
  BY <1>0, InvalidTid DEF Return
<1>2. Ringing' = NoAlarm /\ Ringing # NoAlarm
  <2>1. timer_data[t].id \in Alarms
    BY <1>0 DEF TimerInv, HisFunc
  <2>2. NoAlarm \notin Alarms
    BY NothingAssumption DEF NothingAssumption
  <2> QED
    BY <1>0, <1>1, <2>1, <2>2 DEF Ringing
<1>3. \A u \in Tids \ {t} : u = running' <=> u = running
  BY <1>0, <1>1, InvalidTid
<1>4. \A y \in Alarms : AlarmOf(y)' = AlarmOf(y)
  <2> SUFFICES ASSUME NEW y \in Alarms PROVE AlarmOf(y)' = AlarmOf(y)
    OBVIOUS
  <2>1. CASE timer_data[t].remove_heap /\ timer_data[t].type # "interval"
    <3>1. /\ Live(y)' <=> Live(y)
          /\ ~Pending(t)
          /\ \A u \in Tids \ {t} : timer_data'[u] = timer_data[u]
      BY <1>0, <2>1, ReturnedOnce
    <3>2. Live(y) => held[y] # t
      BY <3>1 DEF Live
    <3> QED
      BY <1>1, <1>3, <3>1, <3>2, OtherAlarm
  <2>2. CASE timer_data[t].remove_heap /\ timer_data[t].type = "interval"
    <3>1. /\ Live(y)' <=> Live(y)
          /\ timer_data'[t].tick = NextTick(t)
          /\ timer_data'[t].type = timer_data[t].type
          /\ timer_data'[t].interval = timer_data[t].interval
          /\ \A u \in Tids \ {t} : timer_data'[u] = timer_data[u]
      BY <1>0, <2>2, ReturnedInterval
    <3>2. CASE Live(y) /\ held[y] = t
      <4>1. Due(held[y])' = Due(held[y])
        BY <1>0, <1>1, <3>1, <3>2 DEF Due
      <4> QED
        BY <1>1, <3>1, <3>2, <4>1 DEF AlarmOf
    <3>3. CASE ~(Live(y) /\ held[y] = t)
      BY <1>1, <1>3, <3>1, <3>3, OtherAlarm
    <3> QED
      BY <3>2, <3>3
  <2>3. CASE ~timer_data[t].remove_heap
    <3>1. Live(y)' <=> Live(y)
      BY <1>0, <2>3, ReturnedDeleted
    <3>2. UNCHANGED timer_data /\ ~Pending(t)
      BY <1>0, <2>3, ReturnedDeleted DEF Pending
    <3>3. Live(y) => held[y] # t
      BY <3>2 DEF Live
    <3> QED
      BY <1>1, <1>3, <3>1, <3>2, <3>3, OtherAlarm
  <2> QED
    BY <2>1, <2>2, <2>3
<1> QED
  BY <1>1, <1>2, <1>4 DEF AlarmClock!Done, Ringing

LEMMA PassesStutter ==
  ASSUME TimerInv, StartPass \/ EndPass \/ ClockTicks \/ UNCHANGED timer_vars
  PROVE  AlarmClock!TimePasses \/ UNCHANGED AlarmClock!alarm_vars
<1>1. UNCHANGED <<timer_data, timer_data_num, free_timer_list, timer_heap, held, running>>
  BY DEF StartPass, EndPass, ClockTicks, timer_vars
<1>2. running # INVALID_TIMER => pass' = pass
  BY DEF StartPass, EndPass, ClockTicks, timer_vars, TimerInv, TimerTypeOK
<1>3. ASSUME NEW y \in Alarms PROVE AlarmOf(y)' = AlarmOf(y)
  <2>1. Live(y) => held[y] # INVALID_TIMER
    BY DEF Live
  <2> QED
    BY <1>1, <1>2, <2>1, SameTimers, SameAlarm
<1>4. Ringing' = Ringing
  BY <1>1 DEF Ringing
<1>5. now' = now \/ now' > now
  BY DEF StartPass, EndPass, ClockTicks, timer_vars, TimerInv, TimerTypeOK
<1> QED
  BY <1>3, <1>4, <1>5 DEF AlarmClock!TimePasses, AlarmClock!alarm_vars, Ringing

LEMMA AlarmStart == TimerInit => AlarmClock!AlarmsInit
<1> SUFFICES ASSUME TimerInit PROVE AlarmClock!AlarmsInit
  OBVIOUS
<1>1. \A x \in Alarms : AlarmOf(x) = AlarmClock!Off
  BY DEF TimerInit, AlarmOf, Live, AlarmClock!Off
<1>2. Ringing = NoAlarm /\ now = 0
  BY DEF TimerInit, Ringing
<1> QED
  BY <1>1, <1>2 DEF AlarmClock!AlarmsInit, Ringing

LEMMA AlarmStep ==
  ASSUME TimerInv, [TimerNext]_timer_vars
  PROVE  [AlarmClock!AlarmsNext]_(AlarmClock!alarm_vars)
<1>1. ASSUME NEW x \in Alarms, OwnerStep(x)
      PROVE  [AlarmClock!AlarmsNext]_(AlarmClock!alarm_vars)
  BY <1>1, AddSets, DeleteCancels, SettickMoves DEF OwnerStep, AlarmClock!AlarmsNext
<1>2. ASSUME NEW t \in Tids, Call(t) PROVE AlarmClock!AlarmsNext
  <2>1. timer_data[t].id \in Alarms
    BY <1>2, Called
  <2> QED
    BY <1>2, <2>1, CallRings DEF AlarmClock!AlarmsNext
<1>3. ASSUME NEW t \in Tids, Discard(t) PROVE UNCHANGED AlarmClock!alarm_vars
  BY <1>3, DiscardStutters
<1>4. CASE Return
  BY <1>4, ReturnIsDone DEF AlarmClock!AlarmsNext
<1>5. CASE StartPass \/ EndPass \/ ClockTicks \/ UNCHANGED timer_vars
  BY <1>5, PassesStutter DEF AlarmClock!AlarmsNext
<1> QED
  BY <1>1, <1>2, <1>3, <1>4, <1>5 DEF TimerNext, DoTimer

\* What owners see of the timers is alarms: they ring when they are due, once or at
\* every beat, the earliest first, one at a time, and never after they were deleted,
\* whatever ticks timer_add and timer_settick are called with, past ones included.
THEOREM TimerIsAlarms == TimerSpec => IsAlarms
<1>1. TimerInv /\ [TimerNext]_timer_vars => TimerInv'
  BY TimerStep
<1>2. TimerInv /\ [TimerNext]_timer_vars
        => [AlarmClock!AlarmsNext]_(AlarmClock!alarm_vars)
  BY AlarmStep
<1> QED
  BY <1>1, <1>2, TimerStart, AlarmStart, PTL
     DEF TimerSpec, IsAlarms, AlarmClock!AlarmsSpec
=============================================================================
