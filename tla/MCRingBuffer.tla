------------------------------ MODULE MCRingBuffer ------------------------------
(* RingBuffer with two fields before the data, for TLC.                       *)
EXTENDS RingBuffer

MCFields == <<1, 1>>
=============================================================================
