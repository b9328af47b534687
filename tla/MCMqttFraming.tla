--------------------------- MODULE MCMqttFraming ---------------------------
(* MqttFraming over a stream that exercises every branch of the read path *)
(* with a read buffer of 4 bytes: a packet with no body, one that fills   *)
(* the buffer exactly, one a byte too long (drained in one read), one     *)
(* drained in two reads, and one whose remaining length takes two bytes.  *)
EXTENDS MqttFraming

(* Two failed reads in a drain are enough to see it keep looping.        *)
MCMinTotal == -2

MCSent == << [type |-> 13, flags |-> 0, len |-> 0],
             [type |-> 4,  flags |-> 0, len |-> 2],
             [type |-> 9,  flags |-> 0, len |-> 3],
             [type |-> 3,  flags |-> 2, len |-> 6],
             [type |-> 3,  flags |-> 2, len |-> 128],
             [type |-> 11, flags |-> 0, len |-> 2] >>

(* A 16384-byte PUBLISH: its remaining length takes three bytes.          *)
MCSentLarge == << [type |-> 3, flags |-> 0, len |-> 16384],
                  [type |-> 13, flags |-> 0, len |-> 0] >>
=============================================================================
