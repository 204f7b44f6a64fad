----------------------------- MODULE SendQueue -----------------------------
(***************************************************************************)
(* What the users of the MQTT-C message queue rely on, with no buffer, no   *)
(* addresses and no sizes: a sequence of messages, each in one of the three *)
(* states of enum MQTTQueuedMessageState.  A message is appended at the end *)
(* as UNSENT, its state only moves forward, and only a prefix of COMPLETE   *)
(* messages may be forgotten.  A request may be refused; a refusal is final *)
(* until the client is initialised again.                                   *)
(***************************************************************************)
EXTENDS Integers, Sequences

CONSTANT Ids            \* the messages the client may stage

VARIABLES
    pending,            \* sequence of [id, state]
    refusing            \* TRUE from the first refusal to the next Restart

vars == <<pending, refusing>>

States == {"UNSENT", "AWAITING_ACK", "COMPLETE"}

TypeOK == /\ pending \in Seq([id : Ids, state : States])
          /\ refusing \in BOOLEAN

Init == pending = <<>> /\ refusing = FALSE

\* Forgetting k messages is allowed when each of them is COMPLETE.
Forgettable(k) == /\ k \in 0..Len(pending)
                  /\ \A i \in 1..k : pending[i].state = "COMPLETE"

Post(id) ==
    /\ ~refusing
    /\ \E k \in 0..Len(pending) :
          /\ Forgettable(k)
          /\ pending' = Append(SubSeq(pending, k + 1, Len(pending)),
                               [id |-> id, state |-> "UNSENT"])
    /\ UNCHANGED refusing

Refuse ==
    /\ ~refusing
    /\ refusing' = TRUE
    /\ \E k \in 0..Len(pending) :
          Forgettable(k) /\ pending' = SubSeq(pending, k + 1, Len(pending))

Advance(i) ==
    /\ pending[i].state # "COMPLETE"
    /\ \E s \in {"AWAITING_ACK", "COMPLETE"} :
          pending' = [pending EXCEPT ![i].state = s]
    /\ UNCHANGED refusing

Restart == pending' = <<>> /\ refusing' = FALSE

Next == \/ \E id \in Ids : Post(id)
        \/ Refuse
        \/ \E i \in DOMAIN pending : Advance(i)
        \/ Restart

Spec == Init /\ [][Next]_vars
=============================================================================
