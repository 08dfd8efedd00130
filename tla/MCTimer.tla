------------------------------ MODULE MCTimer ------------------------------
(* Two owners with one function, and a careless one with another. *)
EXTENDS Timer

CONSTANTS x1, x2, z

MCAlarms   == {x1, x2, z}
MCCareless == {z}
MCFuncOf   == [x \in {x1, x2, z} |-> IF x = z THEN "destroy" ELSE "event"]

\* Of a timer that is neither in the heap nor running only the function is read,
\* by timer_do_delete; of a deleted one in the heap only the tick.
Read(t) ==
  LET d == timer_data[t] IN
    IF timer_heap[t] = 0 /\ t # running THEN [Unused EXCEPT !.func = d.func]
    ELSE IF d.func = NoFunc /\ t # running THEN [Unused EXCEPT !.tick = d.tick]
    ELSE d
MCView == <<[t \in Tids |-> Read(t)], timer_data_num, free_timer_list, timer_heap,
            held, now, pass, running>>
=============================================================================
