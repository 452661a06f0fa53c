------------------------------ MODULE MCJevSender ------------------------------
(* JevSender with chunks of three threads, so that a call sends two batches. *)
EXTENDS JevSender

MCThreads == 1..3
=============================================================================
