---------------------------- MODULE MCMqttClient ----------------------------
(* Model values and bounds for checking MqttClient with TLC.              *)
EXTENDS MqttClient

CONSTANTS u1, u2, t1, t2

MCUsers1 == {u1}
MCUsers2 == {u1, u2}
MCTopics1 == {t1}
=============================================================================
