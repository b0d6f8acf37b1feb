------------------------------ MODULE InFlight ------------------------------
(***************************************************************************)
(* What the adaptive limiter promises its callers, whatever it learns from *)
(* latencies and errors (README "the server still enforces the hard        *)
(* limit"): a call of Acquire is granted or denied, and at no time are     *)
(* more than Max requests in flight.                                       *)
(***************************************************************************)
EXTENDS Naturals, FiniteSets

CONSTANTS Clients, Max

VARIABLE caller     \* caller[k]: what client k is doing

InFlight == {k \in Clients : caller[k] = "granted"}

Init == caller = [k \in Clients |-> "idle"]

Become(k, from, to) == caller[k] = from /\ caller' = [caller EXCEPT ![k] = to]

Call(k) == Become(k, "idle", "pending")
Grant(k) == Cardinality(InFlight) < Max /\ Become(k, "pending", "granted")
Deny(k) == Become(k, "pending", "idle")
Finish(k) == Become(k, "granted", "idle")

Next == \E k \in Clients : Call(k) \/ Grant(k) \/ Deny(k) \/ Finish(k)

Spec == Init /\ [][Next]_caller
=============================================================================
