---------------------------- MODULE MCModbusRTU ----------------------------
(***************************************************************************)
(* ModbusRTU with one frame of each kind: the shortest request, undamaged  *)
(* and damaged, a broadcast, a frame for another slave and an overlong one.*)
(***************************************************************************)
EXTENDS ModbusRTU

Frame(to, len, good) == [to |-> to, len |-> len, good |-> good]

AllKinds ==
    { Frame("us", PduSizeMin, TRUE), Frame("us", PduSizeMin, FALSE),
      Frame("broadcast", PduSizeMin, TRUE), Frame("other", PduSizeMin, TRUE),
      Frame("us", PduSizeMax + 1, TRUE) }

PlainRequests == { Frame("us", PduSizeMin, TRUE) }

=============================================================================
