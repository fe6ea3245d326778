--------------------------- MODULE MCRobotsCache ---------------------------
(* A small instance of RobotsCache: one host, with and without TLS, and the   *)
(* claim its documentation makes.                                             *)
EXTENDS RobotsCache, TLC

Symmetry == Permutations(Calls)

OneHost == [o \in Origins |-> "host"]

(* "while still never bypassing an explicit disallow that WAS retrieved"     *)
(* (robots.py:5): no call allows, for want of rules, a path that rules       *)
(* retrieved from its origin, and still in the cache, deny.                  *)
Bypassed(entry) ==
  /\ entry # None
  /\ entry.origin = verdict'.origin /\ entry.rules # None
  /\ verdict'.path \in entry.rules

DisallowKept ==
  [][verdict' # None /\ verdict'.basis.rules = None =>
       ~Bypassed(cache[Netloc[verdict'.origin]])]_vars
=============================================================================
