---------------------------- MODULE AtomicRequest ----------------------------
(***************************************************************************)
(* What a request that writes to the database promises: its writes come in *)
(* units, each unit is stored at once or not at all, and whoever crashes   *)
(* or answers with an error leaves no part of a unit behind.  Writes that  *)
(* are optional may be missing from a unit that is stored.                 *)
(***************************************************************************)
EXTENDS Naturals

CONSTANTS
  Kinds,        \* kinds of requests
  Units(_),     \* the sets of writes that belong together, for each kind
  Optional(_)   \* writes a request of that kind may go without

VARIABLES kind, stored, answer

Init == kind = "none" /\ stored = {} /\ answer = "none"

Receive ==
  /\ kind = "none" /\ kind' \in Kinds
  /\ UNCHANGED << stored, answer >>

Store ==
  /\ kind \in Kinds /\ answer = "none"
  /\ \E u \in Units(kind) :
       /\ u \cap stored = {}
       /\ \E s \in SUBSET u : u \ Optional(kind) \subseteq s /\ stored' = stored \cup s
  /\ UNCHANGED << kind, answer >>

Reply ==
  /\ kind \in Kinds /\ answer = "none"
  /\ answer' \in { "ok", "error", "lost" }
  /\ UNCHANGED << kind, stored >>

Spec == Init /\ [][Receive \/ Store \/ Reply]_<< kind, stored, answer >>
=============================================================================
