---------------------------- MODULE MCTransaction ----------------------------
(* Transaction for every kind of request.                                  *)
EXTENDS Transaction

EveryKind == AllKinds
NoKind == {}

(* Kinds none of whose transactions writes more than once: a panic cannot  *)
(* cut them in two (see PanicRollsBack).                                   *)
OneWriteEach == { "finish upload", "create cluster", "create organization" }
=============================================================================
