--------------------------- MODULE MCBrowserPool ---------------------------
(* Small instances of BrowserPool.  Clients are interchangeable, and so are   *)
(* the slots for restarts: no definition of the model chooses among them.     *)
EXTENDS BrowserPool, TLC

Symmetry == Permutations(Clients) \cup Permutations(Restarters)

(* The environment strikes at most MaxFaults times in all: two faults, or a   *)
(* fault and a cancellation.                                                  *)
BudgetedNext == Next /\ faults' + cancels' <= MaxFaults
Budgeted == Init /\ [][BudgetedNext]_vars /\ Fairness
=============================================================================
