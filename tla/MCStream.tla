------------------------------ MODULE MCStream ------------------------------
(* Stream on a small instance.                                              *)
EXTENDS Stream
=============================================================================
