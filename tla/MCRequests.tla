----------------------------- MODULE MCRequests -----------------------------
(* Requests that write in transactions: one of every kind in detail, and   *)
(* the pushes of one version by several clients.  A behaviour is of one    *)
(* part; the variables of the other keep their initial values.             *)
EXTENDS MCTransaction, Upload

VARIABLE part

RequestsInit == part \in { "request", "pushes" } /\ Init /\ UploadInit

RequestsNext ==
  /\ UNCHANGED part
  /\ \/ part = "request" /\ Next /\ UNCHANGED uploadVars
     \/ part = "pushes" /\ UploadNext /\ UNCHANGED vars

RequestsSpec == RequestsInit /\ [][RequestsNext]_<< part, vars, uploadVars >>

(* The types of both parts.                                                *)
TypesOK == TypeOK /\ UploadTypeOK
=============================================================================
