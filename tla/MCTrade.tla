------------------------------ MODULE MCTrade ------------------------------
(* Instances of Trade for TLC.                                              *)
EXTENDS Trade, TLC

CONSTANTS t1, t2, t3, pre, other, eur, cig

Ask(symbol, side, volume) == [symbol |-> symbol, side |-> side, volume |-> volume]

(* Two calls that ask for the same thing, no position before them. *)
TwinReq == [x \in {t1, t2} |-> Ask(eur, "buy", 10)]

(* Volumes at the edges: one share can be bought, 0.6 of a share passes the *)
(* check but cannot be encoded, 0.4 is refused.  Next to them a position    *)
(* identical to what t1 asks for, and one on the same symbol the other way. *)
CrowdReq == [x \in {t1, t2, t3, pre, other} |->
               CASE x \in {t1, pre} -> Ask(eur, "buy", 10)
                 [] x = t2         -> Ask(eur, "buy", 6)
                 [] x = t3         -> Ask(eur, "buy", 4)
                 [] x = other      -> Ask(eur, "sell", 20)]

LoneReq == [x \in {t1} |-> Ask(eur, "buy", 10)]

(* The twins are interchangeable: same request, nothing else names them. *)
Twins == Permutations({t1, t2})

(* A search for a symbol hits it only, or also what resembles it. *)
ExactListing == [s \in {eur, cig} |-> {s}]
LooseListing == [s \in {eur, cig} |-> {eur, cig}]
=============================================================================
