---------------------------- MODULE MCOne2oneMsg ----------------------------
(* Instances of One2oneMsg for TLC: the application's thread and the one that *)
(* reads from the server.                                                     *)
EXTENDS One2oneMsg

CONSTANTS api, reader
=============================================================================
