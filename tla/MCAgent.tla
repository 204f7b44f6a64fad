------------------------------ MODULE MCAgent ------------------------------
(* The agent for TLC.  One tick is MQTT_SYN_T; SM_CHECK_T is three of them,  *)
(* so that traffic, deferred publishes and the exit overtake the state       *)
(* machine, and the first run of the state machine comes after two.          *)
EXTENDS Agent

Budget(rc, cmd, full, signal) ==
    [rc |-> rc, cmd |-> cmd, full |-> full, signal |-> signal]

\* Two remote commands, or a remote or a control command with each of: the other
\* one, a full buffer, a signal.
AgentBudgets == { Budget(2, 0, 0, 0), Budget(1, 1, 0, 0), Budget(1, 0, 1, 0),
                  Budget(0, 1, 1, 0), Budget(1, 0, 0, 1), Budget(0, 1, 0, 1) }

LateBudgets   == { Budget(1, 0, 0, 0) }
RebootBudgets == { Budget(1, 1, 0, 0) }
=============================================================================
