------------------------------ MODULE MCMarket ------------------------------
(* Instances of Market for TLC.                                             *)
EXTENDS Market, TLC

CONSTANTS c1, c2, cig, brk, brkb, gone

AllKinds == [m \in Commands |-> CASE m = "symbols" -> {"listing", "empty"}
                                  [] m = "order"   -> {"ok", "error", "exception"}
                                  [] OTHER         -> {"ok"}]

(* The text of cig occurs in brkb, which is listed before it; brk is listed *)
(* last, after its dot-less look-alike.                                     *)
TheListing == <<brkb, cig, brk>>
TheHits == [s \in Symbols |-> IF s = cig THEN {brkb, cig} ELSE {s}]
NoDots == [s \in Symbols |-> IF s \in {brk, gone} THEN brkb ELSE None]

Errands == [c \in Callers |-> IF c = c1 THEN {"trade", "plain"} ELSE {"populate", "resolve"}]
=============================================================================
