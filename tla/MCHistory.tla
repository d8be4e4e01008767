------------------------------ MODULE MCHistory ------------------------------
(* Small instances of ProducerHistory, with the sets of MCProducer.        *)
EXTENDS MCProducer, ProducerHistory
=============================================================================
