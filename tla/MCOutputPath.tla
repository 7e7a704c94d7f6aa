---------------------------- MODULE MCOutputPath ----------------------------
(* Two clients, so that one can fall behind while the other keeps up.      *)
EXTENDS OutputPath

CONSTANTS a, b

MCClients == {a, b}
=============================================================================
