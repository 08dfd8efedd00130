------------------------------- MODULE Timer -------------------------------
(***************************************************************************)
(* The timers of src/common/timer.c: an array of timer data, the heap of   *)
(* the timers that wait, the list of ids to use again, and do_timer, which *)
(* calls the functions of those that are due.  A function that is called   *)
(* may start, delete and move timers itself, its own among them.           *)
(*                                                                         *)
(* An alarm is one use of a timer by its owner: the id and data he gives   *)
(* to timer_add, and the variable he keeps the timer id in (held).  Owners *)
(* behave as the code's do: they reset the variable when they delete the   *)
(* timer and when its function is called.  A careless one does not (as     *)
(* instance_destroy_timer does not), and may delete a timer that fired.    *)
(*                                                                         *)
(* The heap is the bag of its elements with the smallest tick on top: ties *)
(* are broken either way.  Growing arrays, names and errors are left out.  *)
(***************************************************************************)
EXTENDS Integers, Sequences

CONSTANTS Alarms, NoAlarm,
          Funcs, NoFunc,        \* timer functions, NULL
          FuncOf,               \* alarm -> the function it is started with
          Careless,             \* alarms whose owner keeps a stale id
          Delays, Intervals,    \* what is asked for: so long after some tick
          LateLimit,            \* 1000 ms
          MaxTids, MaxNow, MaxTick  \* bounds

ASSUME NothingAssumption == NoAlarm \notin Alarms /\ NoFunc \notin Funcs
ASSUME FuncAssumption    == FuncOf \in [Alarms -> Funcs]
\* A stale id can only meet a timer of another function: timer_do_delete tells.
ASSUME CarelessAssumption ==
  /\ Careless \subseteq Alarms
  /\ \A z \in Careless : \A x \in Alarms \ {z} : FuncOf[x] # FuncOf[z]
ASSUME TickAssumption ==
  /\ Delays \subseteq Int /\ Intervals \subseteq Nat
  /\ {LateLimit, MaxTids, MaxNow, MaxTick} \subseteq Nat

VARIABLES
  timer_data,       \* id -> struct TimerData
  timer_data_num,   \* how many ids were ever used
  free_timer_list,  \* ids to use again, last in first out
  timer_heap,       \* id -> how often it is in the heap
  held,             \* alarm -> the timer id its owner has
  now,              \* gettick()
  pass,             \* do_timer's tick, or Idle
  running           \* the timer whose function runs

timer_vars == <<timer_data, timer_data_num, free_timer_list, timer_heap, held,
                now, pass, running>>

Tids    == 0..(MaxTids - 1)
INVALID_TIMER == -1
Idle    == -1
Unused  == [tick |-> 0, func |-> NoFunc, type |-> "unused", remove_heap |-> FALSE,
            interval |-> 0, id |-> NoAlarm]
TimerData == [tick : Nat, func : Funcs \cup {NoFunc},
              type : {"unused", "once", "interval"}, remove_heap : BOOLEAN,
              interval : Nat, id : Alarms \cup {NoAlarm}]

TimerTypeOK ==
  /\ timer_data \in [Tids -> TimerData]
  /\ timer_data_num \in 0..MaxTids
  /\ free_timer_list \in Seq(0..(timer_data_num - 1))
  /\ timer_heap \in [Tids -> Nat]
  /\ held \in [Alarms -> Tids \cup {INVALID_TIMER}]
  /\ now \in Nat
  /\ pass \in 0..now \cup {Idle}
  /\ running \in Tids \cup {INVALID_TIMER}
  /\ pass = Idle => running = INVALID_TIMER

----------------------------------------------------------------------------
(* What the owners of timers call *)

\* Handlers run between two calls of do_timer, timer functions within one.
Awake == pass = Idle \/ running # INVALID_TIMER

\* acquire_timer.  The loop over the list ends at once: its ids are in use.
HasRoom  == free_timer_list # <<>> \/ timer_data_num < MaxTids
Acquired == IF free_timer_list # <<>> THEN free_timer_list[Len(free_timer_list)]
                                      ELSE timer_data_num
Acquire ==
  /\ HasRoom
  /\ IF free_timer_list # <<>>
     THEN /\ free_timer_list' = SubSeq(free_timer_list, 1, Len(free_timer_list) - 1)
          /\ UNCHANGED timer_data_num
     ELSE /\ timer_data_num' = timer_data_num + 1
          /\ UNCHANGED free_timer_list

\* It waits for its tick, or its function runs and it will be started again.
Pending(t) ==
  /\ timer_data[t].func # NoFunc
  /\ \/ timer_heap[t] > 0
     \/ t = running /\ timer_data[t].type = "interval" /\ timer_data[t].remove_heap
Live(x) == /\ held[x] # INVALID_TIMER
           /\ timer_data[held[x]].id = x
           /\ Pending(held[x])

\* timer_add (interval 0) and timer_add_interval: for any tick, a past one too
Add(x, tick, interval) ==
  /\ Awake /\ ~Live(x)
  /\ tick \in 0..MaxTick
  /\ Acquire
  /\ timer_data' = [timer_data EXCEPT ![Acquired] =
       [tick |-> tick, func |-> FuncOf[x], remove_heap |-> FALSE,
        type |-> IF interval = 0 THEN "once" ELSE "interval",
        interval |-> interval, id |-> x]]
  /\ timer_heap' = [timer_heap EXCEPT ![Acquired] = @ + 1]
  /\ held' = [held EXCEPT ![x] = Acquired]
  /\ UNCHANGED <<now, pass, running>>

\* Faulty: whoever's timer it is.
DoDeleteAny(t, f) ==
  timer_data' = [timer_data EXCEPT ![t].func = NoFunc, ![t].type = "once",
                                   ![t].remove_heap = FALSE]

\* Faulty: a timer that waits keeps its function.
DoDeleteType(t, f) ==
  IF timer_data[t].func = f
  THEN timer_data' = [timer_data EXCEPT ![t].type = "once", ![t].remove_heap = FALSE]
  ELSE UNCHANGED timer_data

\* timer_do_delete: refused when the timer has another function.
DoDelete(t, f) ==
  IF timer_data[t].func = f
  THEN timer_data' = [timer_data EXCEPT ![t].func = NoFunc, ![t].type = "once",
                                        ![t].remove_heap = FALSE]
  ELSE UNCHANGED timer_data

\* Faulty: the id may be used again at once.
DeleteAndFree(x) ==
  /\ Awake /\ held[x] # INVALID_TIMER
  /\ DoDelete(held[x], FuncOf[x])
  /\ held' = [held EXCEPT ![x] = INVALID_TIMER]
  /\ free_timer_list' = Append(free_timer_list, held[x])
  /\ UNCHANGED <<timer_data_num, timer_heap, now, pass, running>>

Delete(x) ==
  /\ Awake /\ held[x] # INVALID_TIMER
  /\ DoDelete(held[x], FuncOf[x])
  /\ held' = [held EXCEPT ![x] = INVALID_TIMER]
  /\ UNCHANGED <<timer_data_num, free_timer_list, timer_heap, now, pass, running>>

\* timer_settick, timer_addtick: fails when the timer is not in the heap.
Settick(x, tick) ==
  /\ Awake /\ held[x] # INVALID_TIMER /\ x \notin Careless
  /\ timer_heap[held[x]] > 0
  /\ tick \in 0..MaxTick
  /\ timer_data' = [timer_data EXCEPT ![held[x]].tick = tick]
  /\ UNCHANGED <<timer_data_num, free_timer_list, timer_heap, held, now, pass,
                 running>>

----------------------------------------------------------------------------
(* do_timer *)

\* The tick the function is called with: its own, unless it is called too late.
CallTick(t) == IF pass > timer_data[t].tick + LateLimit THEN pass
                                                        ELSE timer_data[t].tick

\* Faulty: due again at once.
SameTick(t) == CallTick(t)

NextTick(t) == timer_data[t].interval + CallTick(t)

\* Its function changed nothing: back to the list of ids, or started again.
Restart(t) ==
  /\ timer_data' = [timer_data EXCEPT ![t].remove_heap = FALSE, ![t].tick = NextTick(t)]
  /\ timer_heap' = [timer_heap EXCEPT ![t] = @ + 1]
  /\ UNCHANGED free_timer_list
Release(t) ==
  /\ timer_data' = [timer_data EXCEPT ![t].remove_heap = FALSE, ![t].type = "unused"]
  /\ free_timer_list' = Append(free_timer_list, t)

\* Faulty: a tick ahead.
StartAhead ==
  /\ pass = Idle
  /\ pass' = now + 1
  /\ UNCHANGED <<timer_data, timer_data_num, free_timer_list, timer_heap, held,
                 now, running>>

StartPass ==
  /\ pass = Idle
  /\ pass' = now
  /\ UNCHANGED <<timer_data, timer_data_num, free_timer_list, timer_heap, held,
                 now, running>>

OnTop(t) == /\ timer_heap[t] > 0
            /\ \A u \in Tids : timer_heap[u] > 0
                                 => timer_data[t].tick <= timer_data[u].tick
IsDue(t) == /\ pass # Idle /\ running = INVALID_TIMER
            /\ OnTop(t) /\ timer_data[t].tick <= pass

\* The owner's function is called, and resets his variable first thing.
Forgets(t) == timer_data[t].type = "once" /\ timer_data[t].id \notin Careless
Call(t) ==
  /\ IsDue(t) /\ timer_data[t].func # NoFunc
  /\ timer_heap' = [timer_heap EXCEPT ![t] = @ - 1]
  /\ timer_data' = [timer_data EXCEPT ![t].remove_heap = TRUE]
  /\ running' = t
  /\ held' = IF Forgets(t)
             THEN [held EXCEPT ![timer_data[t].id] = INVALID_TIMER] ELSE held
  /\ UNCHANGED <<timer_data_num, free_timer_list, now, pass>>

\* A deleted timer: its function is gone.
Discard(t) ==
  /\ IsDue(t) /\ timer_data[t].func = NoFunc
  /\ timer_heap' = [timer_heap EXCEPT ![t] = @ - 1]
  /\ Release(t)
  /\ UNCHANGED <<timer_data_num, held, now, pass, running>>

\* The function returns.  A timer it deleted is neither started again nor listed
\* for use: timer_do_delete took TIMER_REMOVE_HEAP away.
Return ==
  /\ running # INVALID_TIMER /\ running' = INVALID_TIMER
  /\ IF ~timer_data[running].remove_heap
     THEN UNCHANGED <<timer_data, timer_heap, free_timer_list>>
     ELSE IF timer_data[running].type = "interval" THEN Restart(running)
     ELSE Release(running) /\ UNCHANGED timer_heap
  /\ UNCHANGED <<timer_data_num, held, now, pass>>

EndPass ==
  /\ pass # Idle /\ running = INVALID_TIMER
  /\ \A t \in Tids : ~IsDue(t)
  /\ pass' = Idle
  /\ UNCHANGED <<timer_data, timer_data_num, free_timer_list, timer_heap, held,
                 now, running>>

ClockTicks ==
  /\ now < MaxNow
  /\ now' = now + 1
  /\ UNCHANGED <<timer_data, timer_data_num, free_timer_list, timer_heap, held,
                 pass, running>>

----------------------------------------------------------------------------

TimerInit ==
  /\ timer_data = [t \in Tids |-> Unused]
  /\ timer_data_num = 0
  /\ free_timer_list = <<>>
  /\ timer_heap = [t \in Tids |-> 0]
  /\ held = [x \in Alarms |-> INVALID_TIMER]
  /\ now = 0
  /\ pass = Idle
  /\ running = INVALID_TIMER

\* Owners count from gettick(), functions from the tick they are called with
\* too (unit_walktoxy_timer), timer_addtick from the timer's own.
From == {now} \cup {CallTick(t) : t \in {running} \ {INVALID_TIMER}}
OwnerStep(x) ==
  \/ \E d \in Delays : \E from \in From :
       \/ \E i \in {0} \cup Intervals : Add(x, from + d, i)
       \/ Settick(x, from + d)
  \/ \E d \in Delays : Settick(x, timer_data[held[x]].tick + d)
  \/ Delete(x)
DoTimer == \/ StartPass \/ Return \/ EndPass
           \/ \E t \in Tids : Call(t) \/ Discard(t)

TimerNext == (\E x \in Alarms : OwnerStep(x)) \/ DoTimer \/ ClockTicks

TimerSpec     == TimerInit /\ [][TimerNext]_timer_vars
\* The server's main loop calls do_timer for ever, and functions return.
FairTimerSpec == TimerSpec /\ WF_timer_vars(DoTimer)

----------------------------------------------------------------------------
(* Properties *)

\* Every timer id ever used is in one place only: once in the heap, once in the
\* list of free ids, or with its function running; or it is lost, because its
\* function deleted it.  No id is given to two owners however timers are deleted,
\* fire and come again (acquire_timer, do_timer).
Listed(t) == \E i \in DOMAIN free_timer_list : free_timer_list[i] = t
IdsInPlace ==
  /\ \A t \in Tids :
       /\ timer_heap[t] <= 1
       /\ timer_heap[t] > 0 => ~Listed(t) /\ t # running
       /\ Listed(t) => t # running
       /\ t >= timer_data_num => timer_heap[t] = 0 /\ ~Listed(t) /\ t # running
       /\ t < timer_data_num => \/ timer_heap[t] > 0 \/ Listed(t) \/ t = running
                                \/ timer_data[t].func = NoFunc
  /\ \A i, j \in DOMAIN free_timer_list :
       free_timer_list[i] = free_timer_list[j] => i = j

\* The id an owner has is that of his own timer, still to come, and an owner
\* whose timer is still to come has its id: he can delete it, and what he deletes
\* or moves is his (the checks of walktimer, deletetimer, ... against tid).
OwnersKnow ==
  /\ \A x \in Alarms \ Careless : held[x] # INVALID_TIMER => Live(x)
  /\ \A t \in Tids : Pending(t) => held[timer_data[t].id] = t

\* Users see alarms: each rings when it is due, once or at every beat, the
\* earliest first, and never after it was deleted, though ids are used again,
\* deleted timers stay in the heap, and functions that do_timer calls start,
\* delete and move timers, to ticks that are past as well.
Due(t)     == IF t = running THEN NextTick(t) ELSE timer_data[t].tick
AlarmOf(x) ==
  IF Live(x) THEN [on |-> TRUE, due |-> Due(held[x]),
                   every |-> IF timer_data[held[x]].type = "once" THEN 0
                             ELSE timer_data[held[x]].interval]
             ELSE [on |-> FALSE, due |-> 0, every |-> 0]
AlarmClock == INSTANCE Alarms WITH
  alarms  <- [x \in Alarms |-> AlarmOf(x)],
  ringing <- IF running = INVALID_TIMER THEN NoAlarm ELSE timer_data[running].id
IsAlarms == AlarmClock!AlarmsSpec

\* Nothing stays due for ever: it rings, or is deleted or moved, although the
\* functions that are called start timers which are due in the same do_timer,
\* counting from the late tick they are called with.
DueRings ==
  \A x \in Alarms :
    Live(x) /\ Due(held[x]) <= now ~> ~(Live(x) /\ Due(held[x]) <= now)
=============================================================================
