---------------------------- MODULE MCSerialQueue ----------------------------
(***************************************************************************)
(* Instance of SerialQueue: four tasks over two keys, so that a queue with *)
(* a head, a middle and a tail exists beside a second, independent one.    *)
(***************************************************************************)
EXTENDS SerialQueueFifo

=============================================================================
