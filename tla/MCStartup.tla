------------------------------ MODULE MCStartup ------------------------------
(* Three machines whose second GID is the usable one.                       *)
EXTENDS Startup

Gids == << [zero |-> TRUE, ipv4 |-> FALSE, v2 |-> FALSE, own |-> FALSE],
           [zero |-> FALSE, ipv4 |-> TRUE, v2 |-> TRUE, own |-> TRUE] >>

=============================================================================
