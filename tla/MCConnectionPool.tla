-------------------------- MODULE MCConnectionPool --------------------------
(* The calls of a busy moment: the processor moving a message, a receive, a redrive request and *)
(* a batch redrive of two messages.                                                             *)
EXTENDS ConnectionPool

CONSTANTS move, receive, redrive, batch

Kinds == [c \in Calls |-> CASE c = receive -> "transaction"
                            [] c = batch   -> "batch"
                            [] OTHER       -> "statements"]
Lengths == [c \in Calls |-> IF c \in {move, redrive} THEN 3 ELSE 2]
=============================================================================
