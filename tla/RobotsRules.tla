---------------------------- MODULE RobotsRules ----------------------------
(* What _get_parser() of engine/robots.py makes of a robots.txt, line by      *)
(* line, and what is_allowed() makes of that, for one crawler and one path.   *)
(* Which patterns match the path, percent-encoding and wildcards included, is *)
(* the constant Matches.                                                      *)
EXTENDS Naturals, Sequences

CONSTANTS
  Agents,    \* names a User-agent line may carry: "*" and others
  Ours,      \* the one our own name contains
  Patterns, Matches, Length,
  MaxLines   \* bound: lines of a file

VARIABLES
  file,      \* history: the lines read so far
  rules,     \* the groups that are complete
  agents,    \* names of the group being read
  group      \* and its rules

vars == <<file, rules, agents, group>>

ConstantsOK == Length \in [Patterns -> Nat]

Lines == [field : {"agent"}, value : Agents \cup {""}]
           \cup [field : {"allow", "disallow"}, value : Patterns \cup {""}]

Init == file = <<>> /\ rules = <<>> /\ agents = {} /\ group = <<>>

Flushed == IF group = <<>> THEN rules ELSE Append(rules, [names |-> agents, lines |-> group])

Read(line) ==
  /\ Len(file) < MaxLines
  /\ file' = Append(file, line)
  /\ \/ /\ line.field = "agent"
        /\ rules' = Flushed
        /\ agents' = (IF group = <<>> THEN agents ELSE {}) \cup ({line.value} \ {""})
        /\ group' = <<>>
     \/ /\ line.field # "agent"
        /\ group' = IF agents = {} \/ line.value = "" THEN group ELSE Append(group, line)
        /\ UNCHANGED <<rules, agents>>

Next == \E line \in Lines : Read(line)

Spec == Init /\ [][Next]_vars

-----------------------------------------------------------------------------
(* is_allowed() of the file so far: the code ends it with one User-agent line *)
(* more.                                                                      *)
Applicable == {g \in DOMAIN Flushed : Flushed[g].names \cap {"*", Ours} # {}}

First(indices) == CHOOSE i \in indices : \A j \in indices : i <= j

(* The first group that names anyone, or else the first.                      *)
Selected ==
  LET named == {g \in Applicable : Flushed[g].names # {"*"}}
  IN  Flushed[First(IF named # {} THEN named ELSE Applicable)].lines

Matching == {i \in DOMAIN Selected : Selected[i].value \in Matches}

(* Mutant: the first match decides, as in urllib's own parser.                *)
LongestFirst == Matching
(* Of the rules that match, the first of the longest decides.                 *)
Longest ==
  {i \in Matching : \A j \in Matching : Length[Selected[j].value] <= Length[Selected[i].value]}

Allowed ==
  Applicable = {} \/ Matching = {} \/ Selected[First(Longest)].field = "allow"

-----------------------------------------------------------------------------
TypeOK ==
  /\ file \in Seq(Lines) /\ group \in Seq(Lines)
  /\ agents \subseteq Agents
  /\ \A i \in DOMAIN rules : rules[i].names # {} /\ rules[i].lines # <<>>

(* The rules of robots.txt, over line numbers: a rule belongs to the names    *)
(* above it that no rule parts from it.                                       *)
IsRule(i) == file[i].field # "agent"
NamesOf(i) ==
  {j \in 1..(i - 1) : ~IsRule(j) /\ ~\E k, l \in j..i : k < l /\ IsRule(k) /\ ~IsRule(l)}
RulesFor(name) ==
  {i \in DOMAIN file : IsRule(i) /\ \E j \in NamesOf(i) : file[j].value = name}
Binding ==
  LET mine == IF RulesFor(Ours) # {} THEN RulesFor(Ours) ELSE RulesFor("*")
  IN  {i \in mine : \A j \in mine : i <= j \/ NamesOf(i) = NamesOf(j)}

(* No line without a value, and "*" shares no group with a name.              *)
Plain ==
  /\ \A i \in DOMAIN file : file[i].value # ""
  /\ \A i \in DOMAIN file : IsRule(i) =>
       LET names == {file[j].value : j \in NamesOf(i)} IN "*" \in names => names = {"*"}

(* For any plain file, and any first part of it: what the crawler may do is   *)
(* what a longest matching rule of the first group that names it says, or     *)
(* else of the first group for everyone.                                      *)
LongestRuleApplies ==
  LET matching == {i \in Binding : file[i].value \in Matches}
      longest == {i \in matching : \A j \in matching : Length[file[j].value] <= Length[file[i].value]}
  IN  Plain =>
        IF longest = {} THEN Allowed
        ELSE \E i \in longest : Allowed <=> file[i].field = "allow"
=============================================================================
