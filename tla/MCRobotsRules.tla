--------------------------- MODULE MCRobotsRules ---------------------------
(* What a test says of robots.txt and the code does not do in general.        *)
EXTENDS RobotsRules

(* "empty_disallow_allows_all" (tests/test_robots.py:69), which tests a file  *)
(* of these two lines: also when groups for other crawlers follow.            *)
EmptyDisallowAllowsAll ==
  /\ Len(file) >= 2
  /\ file[1] = [field |-> "agent", value |-> "*"]
  /\ file[2] = [field |-> "disallow", value |-> ""]
  /\ \A i \in 3..Len(file) : file[i].field = "agent" => file[i].value \notin {"*", Ours, ""}
  /\ Len(file) > 2 => file[3].field = "agent"
  => Allowed

PatternLength == [p \in Patterns |-> IF p = "/" THEN 1 ELSE 2]
=============================================================================
