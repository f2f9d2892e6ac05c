---------------------------- MODULE TradePromise ----------------------------
(***************************************************************************)
(* What buy(), sell() and cancel_order() promise their caller, without the *)
(* requests, tokens, probes and polls that keep the promise: a call brings *)
(* at most one order to the broker, reports once, never brings one after a *)
(* refusal, and never has a live one after a cancellation.                 *)
(***************************************************************************)
CONSTANT Calls

VARIABLES
  order,     \* order[c]: the order of c at the broker
  said,      \* said[c]: what c has reported of it; "unknown" promises nothing
  cancelled  \* has cancel_order said CANCELLED of it?

vars == <<order, said, cancelled>>

Init ==
  /\ order = [c \in Calls |-> "none"]
  /\ said = [c \in Calls |-> "nothing"]
  /\ cancelled = [c \in Calls |-> FALSE]

(* A request that is on its way when the call reports "unknown" may still   *)
(* arrive.                                                                  *)
Place(c) ==
  /\ order[c] = "none"
  /\ said[c] \in {"nothing", "unknown"}
  /\ ~cancelled[c]
  /\ \E s \in {"queued", "open"} : order' = [order EXCEPT ![c] = s]
  /\ UNCHANGED <<said, cancelled>>

Fill(c) ==
  /\ order[c] = "queued"
  /\ order' = [order EXCEPT ![c] = "open"]
  /\ UNCHANGED <<said, cancelled>>

Withdraw(c) ==
  /\ order[c] = "queued"
  /\ order' = [order EXCEPT ![c] = "cancelled"]
  /\ UNCHANGED <<said, cancelled>>

Report(c) ==
  /\ said[c] = "nothing"
  /\ \E s \in {"refused", "taken", "unknown"} :
       /\ s = "refused" => order[c] = "none"
       /\ s = "taken" => order[c] # "none"
       /\ said' = [said EXCEPT ![c] = s]
  /\ UNCHANGED <<order, cancelled>>

ConfirmCancel(c) ==
  /\ said[c] \in {"taken", "unknown"}
  /\ order[c] = "cancelled"
  /\ cancelled' = [cancelled EXCEPT ![c] = TRUE]
  /\ UNCHANGED <<order, said>>

Next == \E c \in Calls : Place(c) \/ Fill(c) \/ Withdraw(c) \/ Report(c) \/ ConfirmCancel(c)

Spec == Init /\ [][Next]_vars
=============================================================================
