--------------------------- MODULE MCMqttClient ---------------------------
(* The plans of the runs of MqttClient.                                    *)
EXTENDS MqttClient

Budget(n0, n1, n2) == [q \in QoS |-> IF q = 0 THEN n0 ELSE IF q = 1 THEN n1 ELSE n2]

Plan(pub, push, requests, resends, refuse, chan, drop) ==
    [pub |-> pub, push |-> push, requests |-> requests, resends |-> resends,
     refuse |-> refuse, chan |-> chan, drop |-> drop]

None == Budget(0, 0, 0)

ClientPlans ==
    { Plan(Budget(1, 0, 2), None, {}, 0, FALSE, 2, FALSE),
      Plan(Budget(0, 1, 0), Budget(1, 1, 1), {"SUBSCRIBE", "UNSUBSCRIBE"}, 1, TRUE, 1, FALSE) }

SessionPlans    == { Plan(Budget(0, 0, 2), None, {}, 0, FALSE, 2, FALSE),
                     Plan(Budget(0, 1, 0), None, {}, 0, TRUE, 2, TRUE) }
SlowBrokerPlans == { Plan(None, None, {}, 0, FALSE, 2, FALSE) }
ReusedPidPlans  == { Plan(None, Budget(0, 0, 2), {}, 0, FALSE, 2, FALSE) }
=============================================================================
