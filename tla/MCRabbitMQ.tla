----------------------------- MODULE MCRabbitMQ -----------------------------
(* Publishers and consumers of one queue, for TLC. *)
EXTENDS RabbitMQ

Alike == Permutations(Publishers) \union Permutations(Consumers)
=============================================================================
