---------------------------- MODULE TimeoutList ----------------------------
(***************************************************************************)
(* The list of pending timeouts of eloop.c.  A timeout is a record whose    *)
(* field rem is the time left until it is due (0 when it is due or late);   *)
(* the list is the sequence eloop.timeout, eloop.timeout->next, ...         *)
(***************************************************************************)
EXTENDS Integers, Sequences

\* The scan of eloop_register_timeout stops at p: before the first timeout that
\* is due strictly later than t, or at the end.
IsInsertPoint(list, t, p) ==
    /\ p \in 1..(Len(list) + 1)
    /\ \A i \in 1..(p - 1) : ~(t.rem < list[i].rem)
    /\ p <= Len(list) => t.rem < list[p].rem

InsertAtPoint(list, t, p) ==
    [i \in 1..(Len(list) + 1) |->
        IF i < p THEN list[i] ELSE IF i = p THEN t ELSE list[i - 1]]

\* Mutant: a timeout is put before those due at the same time.
eloop_register_timeout_lifo(list, t) ==
    LET p == CHOOSE k \in 1..(Len(list) + 1) :
                /\ \A i \in 1..(k - 1) : list[i].rem < t.rem
                /\ k <= Len(list) => ~(list[k].rem < t.rem)
    IN  InsertAtPoint(list, t, p)

\* Mutant: a timeout is put at the head of the list.
eloop_register_timeout_head(list, t) == InsertAtPoint(list, t, 1)

\* Timeouts due at the same time stay in the order they were registered.
eloop_register_timeout(list, t) ==
    InsertAtPoint(list, t,
                  CHOOSE p \in 1..(Len(list) + 1) : IsInsertPoint(list, t, p))

\* One unit of time passes.  The order of the list does not depend on it.
Elapse(list) ==
    [i \in DOMAIN list |->
        [list[i] EXCEPT !.rem = IF @ = 0 THEN 0 ELSE @ - 1]]

\* eloop_run may run the handler of the first timeout when it is due.
HeadDue(list) == list # <<>> /\ Head(list).rem = 0
=============================================================================
