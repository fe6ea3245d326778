---------------------------- MODULE RobotsCache ----------------------------
(* The cache of robots.txt rules in blazecrawl_core/engine/robots.py, which   *)
(* every crawl job asks before every page.                                    *)
(*                                                                            *)
(* is_allowed() reads the cache and the clock, and on a miss fetches the      *)
(* origin's robots.txt; nothing keeps two calls from fetching the same one.   *)
(* Rules are abstracted to the set of paths they deny.                        *)
EXTENDS Naturals

CONSTANTS
  Calls,      \* the is_allowed() calls that may be under way together
  Origins,    \* scheme and host
  Netloc,     \* the host of an origin, a function on Origins
  Paths,      \* the paths asked about
  None,       \* no entry, no rules, no call
  CacheTTL,   \* _CACHE_TTL
  MaxClock    \* bound: how far the clock runs

Keys == {Netloc[o] : o \in Origins}
Rules == {None} \cup SUBSET Paths

ASSUME OriginAssumption == DOMAIN Netloc = Origins
ASSUME NoneAssumption ==
  None \notin Nat /\ \A denied \in SUBSET Paths : denied # None
ASSUME TimeAssumption == CacheTTL \in Nat /\ MaxClock \in Nat

VARIABLES
  clock,    \* time.time()
  site,     \* the paths the robots.txt of an origin denies today
  since,    \* history: when it last changed
  cache,    \* _cache
  call,     \* the fetches under way
  verdict   \* history: the answer the last step gave, and what it rests on

world == <<clock, site, since>>
vars == <<world, cache, call, verdict>>

(* `at` and `rules` are the code's pair; where and when the site answered    *)
(* with these rules is history.                                              *)
Stamp == [at : Nat, rules : Rules, origin : Origins, served : Nat]

(* A fetch: the site has answered with rules once `served` is a time.        *)
Fetch == [origin : Origins, path : Paths, at : Nat, rules : Rules,
          served : Nat \cup {None}]

Init ==
  /\ clock = 0
  /\ site \in [Origins -> SUBSET Paths]
  /\ since = [o \in Origins |-> 0]
  /\ cache = [k \in Keys |-> None]
  /\ call = [c \in Calls |-> None]
  /\ verdict = None

Allows(rules, path) == rules = None \/ path \notin rules

(* A call answers, and the answer rests on the entry.                        *)
Answer(origin, path, asked, entry) ==
  verdict' = [allowed |-> Allows(entry.rules, path), origin |-> origin,
              path |-> path, asked |-> asked, basis |-> entry]

NoAnswer == verdict' = None

-----------------------------------------------------------------------------
(* Mutant: an entry as old as the TTL still counts as fresh.                 *)
FreshAtTTL(key) == cache[key] # None /\ clock - cache[key].at <= CacheTTL

Fresh(key) == cache[key] # None /\ clock - cache[key].at < CacheTTL

AnswerFromCache(c, origin, path) ==
  /\ call[c] = None
  /\ Fresh(Netloc[origin])
  /\ Answer(origin, path, clock, cache[Netloc[origin]])
  /\ UNCHANGED <<world, cache, call>>

StartFetch(c, origin, path) ==
  /\ call[c] = None
  /\ ~Fresh(Netloc[origin])
  /\ call' = [call EXCEPT ![c] = [origin |-> origin, path |-> path, at |-> clock,
                                  rules |-> None, served |-> None]]
  /\ NoAnswer
  /\ UNCHANGED <<world, cache>>

(* The site sends its robots.txt, or a status other than 200.                *)
SiteAnswers(c) ==
  /\ call[c] # None
  /\ call[c].served = None
  /\ \E rules \in {site[call[c].origin], None} :
       call' = [call EXCEPT ![c].rules = rules, ![c].served = clock]
  /\ NoAnswer
  /\ UNCHANGED <<world, cache>>

(* Mutant: the entry of a fetch that brought no rules has no stamp.          *)
EntryUnstamped(c, rules) ==
  [at |-> IF rules = None THEN None ELSE call[c].at, rules |-> rules,
   origin |-> call[c].origin,
   served |-> IF call[c].served = None THEN clock ELSE call[c].served]

(* The entry a fetch leaves behind: stamped with the time it began.          *)
Entry(c, rules) ==
  [at |-> call[c].at, rules |-> rules, origin |-> call[c].origin,
   served |-> IF call[c].served = None THEN clock ELSE call[c].served]

(* Mutant: stamped with the time it ended.                                   *)
StoreLate(c, rules) ==
  /\ cache' = [cache EXCEPT ![Netloc[call[c].origin]] =
                 [Entry(c, rules) EXCEPT !.at = clock]]
  /\ call' = [call EXCEPT ![c] = None]
  /\ Answer(call[c].origin, call[c].path, call[c].at, Entry(c, rules))

(* The entry replaces whatever the cache holds by now.                       *)
Store(c, rules) ==
  /\ cache' = [cache EXCEPT ![Netloc[call[c].origin]] = Entry(c, rules)]
  /\ call' = [call EXCEPT ![c] = None]
  /\ Answer(call[c].origin, call[c].path, call[c].at, Entry(c, rules))

FetchEnds(c) ==
  /\ call[c] # None
  /\ call[c].served # None
  /\ Store(c, call[c].rules)
  /\ UNCHANGED world

(* Any exception but SSRFValidationError counts as "no robots.txt".          *)
FetchFails(c) ==
  /\ call[c] # None
  /\ Store(c, None)
  /\ UNCHANGED world

(* SSRFValidationError goes to the caller and leaves the cache alone.        *)
FetchBlocked(c) ==
  /\ call[c] # None
  /\ call' = [call EXCEPT ![c] = None]
  /\ NoAnswer
  /\ UNCHANGED <<world, cache>>

ClearCache ==
  /\ cache' = [k \in Keys |-> None]
  /\ NoAnswer
  /\ UNCHANGED <<world, call>>

-----------------------------------------------------------------------------
(* The world.                                                                *)

Tick ==
  /\ clock < MaxClock
  /\ clock' = clock + 1
  /\ NoAnswer
  /\ UNCHANGED <<site, since, cache, call>>

SiteChanges(o) ==
  /\ \E denied \in SUBSET Paths \ {site[o]} : site' = [site EXCEPT ![o] = denied]
  /\ since' = [since EXCEPT ![o] = clock]
  /\ NoAnswer
  /\ UNCHANGED <<clock, cache, call>>

-----------------------------------------------------------------------------
Ask(c) ==
  \E o \in Origins, p \in Paths : AnswerFromCache(c, o, p) \/ StartFetch(c, o, p)

Next ==
  \/ \E c \in Calls :
       Ask(c) \/ SiteAnswers(c) \/ FetchEnds(c) \/ FetchFails(c) \/ FetchBlocked(c)
  \/ ClearCache
  \/ Tick
  \/ \E o \in Origins : SiteChanges(o)

Spec == Init /\ [][Next]_vars

-----------------------------------------------------------------------------
(* Properties.                                                               *)

Verdict == [allowed : BOOLEAN, origin : Origins, path : Paths, asked : Nat,
            basis : Stamp]

(* The state has its type.                                                   *)
TypeOK ==
  /\ clock \in Nat
  /\ site \in [Origins -> SUBSET Paths]
  /\ since \in [Origins -> Nat]
  /\ cache \in [Keys -> {None} \cup Stamp]
  /\ call \in [Calls -> {None} \cup Fetch]
  /\ verdict \in {None} \cup Verdict

(* However long a fetch takes and however many overlap, an answer rests on a *)
(* robots.txt that was served during the call or less than the TTL before:   *)
(* entries are stamped with the time before the fetch (robots.py:51).        *)
AnswersRecent ==
  verdict # None =>
    \/ verdict.basis.served >= verdict.asked
    \/ clock - verdict.basis.served < CacheTTL

(* A path the site began to deny a TTL before the call is denied, whatever   *)
(* the cache holds: unless the rules are those of another origin on the same *)
(* host, or none could be had.                                               *)
ChangesObeyed ==
  /\ verdict # None
  /\ verdict.basis.origin = verdict.origin /\ verdict.basis.rules # None
  /\ verdict.path \in site[verdict.origin]
  /\ verdict.asked > since[verdict.origin]
  /\ verdict.asked - since[verdict.origin] >= CacheTTL
  => ~verdict.allowed
=============================================================================
