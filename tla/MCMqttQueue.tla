---------------------------- MODULE MCMqttQueue ----------------------------
(* A buffer of 18 bytes with records of 3 bytes and packets of 2 to 4 bytes: *)
(* up to three packets fit.  Packets of different sizes make mqtt_mq_clean    *)
(* move packets by an amount that is not their own size.                     *)
EXTENDS MqttQueue, TLC

IdSymmetry == Permutations(Ids)
=============================================================================
