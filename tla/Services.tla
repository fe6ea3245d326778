------------------------------ MODULE Services ------------------------------
(* Five components that share no state, ScrapeService and four others.  A     *)
(* behaviour is one of `scope`, chosen at the start, while the variables of   *)
(* the others keep initial values.                                            *)
EXTENDS ScrapeService, Sequences, FiniteSets

CONSTANTS
  Servers, FileKeys,                                \* KeyFile
  Callers, Clients, MaxRestarts,                    \* ApiClient
  Agents, Ours, Patterns, Matches, Length, MaxLines, \* RobotsRules
  Links, Seed, Bare, Site, Scheme, Candidates, Listed, Sitemap, LinkLists,
  MaxSitemapDepth, MaxUrls, MaxChildren             \* Mapper

VARIABLE scope
VARIABLES exists, content, synced, at, key, shown, drawn
VARIABLES kind, jobs, phase, tries, polled, id, restarts
VARIABLES file, rules, agents, group
VARIABLES todo, cands, seen, found, graph, rest, result, step, fetched, refused

keyVars == <<exists, content, synced, at, key, shown, drawn>>
clientVars == <<kind, jobs, phase, tries, polled, id, restarts>>
rulesVars == <<file, rules, agents, group>>
mapVars == <<todo, cands, seen, found, graph, rest, result, step, fetched, refused>>
allVars == <<scope, keyVars, clientVars, vars, rulesVars, mapVars>>

K == INSTANCE KeyFile WITH Keys <- FileKeys
C == INSTANCE ApiClient
R == INSTANCE RobotsRules
M == INSTANCE Mapper

ASSUME ServicesAssumption == ConstantsOK /\ C!ConstantsOK /\ R!ConstantsOK /\ M!ConstantsOK

-----------------------------------------------------------------------------
AnyInit ==
  /\ scope \in {"key", "client", "scrape", "rules", "map"}
  /\ K!Init
  /\ C!Init /\ (scope = "client" \/ kind = CHOOSE f \in [Callers -> Clients] : TRUE)
  /\ Init /\ (scope = "scrape" \/ query = CHOOSE f \in [Requests -> Queries] : TRUE)
  /\ R!Init
  /\ M!Init /\ (scope = "map" \/ step = "validate")

Key == scope = "key" /\ K!Next /\ UNCHANGED <<scope, clientVars, vars, rulesVars, mapVars>>
Client == scope = "client" /\ C!Next /\ UNCHANGED <<scope, keyVars, vars, rulesVars, mapVars>>
Scrape == scope = "scrape" /\ Next /\ UNCHANGED <<scope, keyVars, clientVars, rulesVars, mapVars>>
Map == scope = "map" /\ M!Next /\ UNCHANGED <<scope, keyVars, clientVars, vars, rulesVars>>
Rules == scope = "rules" /\ R!Next /\ UNCHANGED <<scope, keyVars, clientVars, vars, mapVars>>
AnyNext == Key \/ Client \/ Scrape \/ Map \/ Rules

(* A request ends in an answer or a timeout of its client.  Assumed: the      *)
(* server finishes its jobs, as it does while no scrape hangs (EveryJobEnds   *)
(* of CrawlManager).                                                          *)
Within(A) == scope = "client" /\ A /\ UNCHANGED <<scope, keyVars, vars, rulesVars, mapVars>>
Fairness ==
  \A c \in Callers : WF_allVars(Within(C!Call(c))) /\ WF_allVars(Within(C!JobEnds(c)))

AnySpec == AnyInit /\ [][AnyNext]_allVars /\ Fairness

-----------------------------------------------------------------------------
(* Each is stated, and explained, in its component's module; NothingLost and  *)
(* HitHonest are those of ScrapeService.                                      *)
TypesOK == K!TypeOK /\ C!TypeOK /\ TypeOK /\ R!TypeOK /\ M!TypeOK

(* KeyFile: whatever starts race, crash or lose power, one key lives.         *)
OneKey == K!OneKey

(* ApiClient: a call makes at most one job per try.                           *)
DuplicatesBounded == C!DuplicatesBounded

(* ApiClient: every call ends.                                                *)
CallEnds == scope = "client" => C!CallEnds

(* RobotsRules: a plain robots.txt is understood as it is meant.              *)
LongestRuleApplies == R!LongestRuleApplies

(* Mapper: no sitemap is walked twice, too deep, or past the limit.           *)
WalkBounded == M!WalkBounded

(* Mapper: what was found is in the result, once, unless the result is full   *)
(* or the DNS refuses it.                                                     *)
PagesKept == M!PagesKept
=============================================================================
