SPECIFICATION Spec
CHECK_DEADLOCK FALSE
CONSTANTS
  c1 = c1
  c2 = c2
  cig = cig
  brk = brk
  brkb = brkb
  gone = gone
  None = None
  Callers = {c1, c2}
  Commands = {"symbols", "status", "order", "plain"}
  Kinds <- AllKinds
  MaxIds = 3
  Jobs <- Errands
  Symbols = {cig, brk, brkb, gone}
  Queries = {cig}
  Listing <- TheListing
  Hits <- TheHits
  MaxHits = 2
  Wanted = {brk, gone}
  Dotless <- NoDots
INVARIANT
  FilledIsConfirmed
