-------------------------- MODULE RobotsCacheProofs --------------------------
(* What is_allowed() rests its answers on, for any number of calls, origins   *)
(* and paths, any TTL and any timing of fetches and of changes of the sites.  *)
EXTENDS RobotsCache, TLAPS

(* At a time, with the sites as they changed last and as they are: rules of  *)
(* a site that has not changed since they were served are the site's, and an *)
(* entry is stamped no later than its rules were served.                     *)
EntryAt(x, now, changed, denied) ==
  /\ x.at <= x.served /\ x.served <= now
  /\ x.rules # None /\ changed[x.origin] < x.served => x.rules = denied[x.origin]

FetchAt(x, now, changed, denied) ==
  /\ x.at <= now
  /\ x.served = None => x.rules = None
  /\ x.served # None => EntryAt(x, now, changed, denied)

EntryOK(x) == EntryAt(x, clock, since, site)
FetchOK(x) == FetchAt(x, clock, since, site)

Cached == \A k \in Keys : cache[k] # None => EntryOK(cache[k])

Fetching == \A c \in Calls : call[c] # None => FetchOK(call[c])

(* The answer just given rests on an entry that was fresh when it was used,  *)
(* or on one that the call fetched itself.                                   *)
Answered ==
  verdict # None =>
    /\ EntryOK(verdict.basis)
    /\ verdict.allowed = Allows(verdict.basis.rules, verdict.path)
    /\ \/ verdict.asked = clock /\ clock - verdict.basis.at < CacheTTL
       \/ verdict.basis.at = verdict.asked

IInv == /\ TypeOK
        /\ \A o \in Origins : since[o] <= clock
        /\ Cached
        /\ Fetching
        /\ Answered

-----------------------------------------------------------------------------

LEMMA KeyType == \A o \in Origins : Netloc[o] \in Keys
  BY DEF Keys

LEMMA IInvInit == Init => IInv
  BY NoneAssumption, TimeAssumption
     DEF Init, IInv, TypeOK, Cached, Fetching, Answered, Rules

(* What an entry says of the world holds on as the clock runs...             *)
LEMMA Later ==
  ASSUME IInv, Tick, NEW x, x.served \in Nat, EntryOK(x)
  PROVE  EntryAt(x, clock', since', site')
  BY DEF IInv, TypeOK, Tick, EntryOK, EntryAt, FetchAt

(* ...and as a site changes, which is no earlier than it was served.         *)
LEMMA Changed ==
  ASSUME IInv, NEW o \in Origins, SiteChanges(o), NEW x, x.served \in Nat,
         x.origin \in Origins, EntryOK(x)
  PROVE  EntryAt(x, clock', since', site')
  BY DEF IInv, TypeOK, SiteChanges, EntryOK, EntryAt, FetchAt

(* An entry that a step of a call leaves alone stays what it was.            *)
LEMMA Same ==
  ASSUME UNCHANGED world, NEW x, EntryOK(x)
  PROVE  EntryAt(x, clock', since', site')
  BY DEF world, EntryOK, EntryAt, FetchAt

LEMMA EntryType ==
  ASSUME IInv, NEW c \in Calls, call[c] # None, NEW rules \in Rules,
         rules = None \/ (call[c].served # None /\ rules = call[c].rules)
  PROVE  Entry(c, rules) \in Stamp /\ EntryOK(Entry(c, rules))
<1> DEFINE x == call[c]
<1>1. x \in Fetch /\ FetchOK(x)
  BY DEF IInv, TypeOK, Fetching
<1>2. clock \in Nat /\ x.at \in Nat /\ x.at <= clock /\ x.origin \in Origins
  BY <1>1 DEF IInv, TypeOK, Fetch, FetchOK, FetchAt
<1>3. CASE x.served = None
  <2>1. rules = None
    BY <1>3
  <2> QED BY <1>2, <1>3, <2>1 DEF Entry, Stamp, EntryOK, EntryAt, FetchAt
<1>4. CASE x.served # None
  <2>1. x.served \in Nat /\ EntryOK(x)
    BY <1>1, <1>4 DEF Fetch, FetchOK, FetchAt, EntryOK
  <2> QED BY <1>2, <1>4, <2>1 DEF Entry, Stamp, EntryOK, EntryAt, FetchAt
<1> QED BY <1>3, <1>4

(* The end of a fetch, with or without rules.                                *)
LEMMA StoreInv ==
  ASSUME IInv, NEW c \in Calls, call[c] # None, NEW rules \in Rules,
         rules = None \/ (call[c].served # None /\ rules = call[c].rules),
         Store(c, rules), UNCHANGED world
  PROVE  IInv'
<1> DEFINE x == call[c]
           e == Entry(c, rules)
           k == Netloc[x.origin]
<1>1. x \in Fetch /\ FetchOK(x)
  BY DEF IInv, TypeOK, Fetching
<1>2. e \in Stamp /\ EntryOK(e) /\ e.at = x.at /\ e.rules = rules
  BY EntryType DEF Entry
<1>3. k \in Keys /\ x.origin \in Origins /\ x.path \in Paths /\ x.at \in Nat
  BY <1>1, KeyType DEF Fetch
<1>4. cache' = [cache EXCEPT ![k] = e] /\ call' = [call EXCEPT ![c] = None]
  BY DEF Store
<1>5. verdict' = [allowed |-> Allows(rules, x.path), origin |-> x.origin,
                  path |-> x.path, asked |-> x.at, basis |-> e]
  BY <1>2 DEF Store, Answer
<1>6. verdict' \in Verdict
  <2>1. Allows(rules, x.path) \in BOOLEAN
    BY DEF Allows
  <2> QED BY <1>2, <1>3, <1>5, <2>1 DEF Verdict
<1>7. TypeOK'
  BY <1>2, <1>3, <1>4, <1>6 DEF IInv, TypeOK, world
<1>8. Cached'
  <2> SUFFICES ASSUME NEW l \in Keys, cache'[l] # None
               PROVE  EntryAt(cache'[l], clock', since', site')
    BY DEF Cached, EntryOK
  <2>1. CASE l = k
    BY <1>2, <1>4, <2>1, Same DEF IInv, TypeOK
  <2>2. CASE l # k
    <3>1. cache'[l] = cache[l] /\ EntryOK(cache[l])
      BY <1>4, <2>2 DEF IInv, TypeOK, Cached
    <3> QED BY <3>1, Same
  <2> QED BY <2>1, <2>2
<1>9. Fetching'
  <2> SUFFICES ASSUME NEW d \in Calls, call'[d] # None
               PROVE  FetchAt(call'[d], clock', since', site')
    BY DEF Fetching, FetchOK
  <2>1. call'[d] = call[d] /\ FetchOK(call[d])
    BY <1>4 DEF IInv, TypeOK, Fetching
  <2> QED BY <2>1 DEF FetchOK, EntryOK, EntryAt, FetchAt, world
<1>10. Answered'
  BY <1>2, <1>5, Same DEF Answered, EntryOK, world
<1> QED BY <1>7, <1>8, <1>9, <1>10 DEF IInv, world

LEMMA IInvNext == IInv /\ [Next]_vars => IInv'
<1> SUFFICES ASSUME IInv, [Next]_vars
             PROVE  IInv'
  OBVIOUS
<1>1. ASSUME NEW c \in Calls, NEW o \in Origins, NEW p \in Paths,
             AnswerFromCache(c, o, p)
      PROVE  IInv'
  <2> DEFINE e == cache[Netloc[o]]
  <2>1. e \in Stamp /\ EntryOK(e) /\ clock - e.at < CacheTTL
    BY <1>1, KeyType DEF AnswerFromCache, Fresh, IInv, TypeOK, Cached
  <2>2. /\ verdict' = [allowed |-> Allows(e.rules, p), origin |-> o, path |-> p,
                       asked |-> clock, basis |-> e]
        /\ UNCHANGED <<world, cache, call>>
    BY <1>1 DEF AnswerFromCache, Answer
  <2>3. verdict' \in Verdict
    <3>1. Allows(e.rules, p) \in BOOLEAN
      BY DEF Allows
    <3> QED BY <2>1, <2>2, <3>1 DEF Verdict, IInv, TypeOK
  <2>4. TypeOK'
    BY <2>2, <2>3 DEF IInv, TypeOK, world
  <2>5. Cached' /\ Fetching'
    BY <2>2 DEF IInv, Cached, Fetching, FetchOK, EntryOK, EntryAt, FetchAt, world
  <2>6. Answered'
    <3>1. EntryAt(e, clock', since', site')
      BY <2>1, <2>2, Same
    <3> HIDE DEF e
    <3> QED BY <2>1, <2>2, <3>1 DEF Answered, world, EntryOK, EntryAt, FetchAt
  <2> QED BY <2>2, <2>4, <2>5, <2>6 DEF IInv, world
<1>2. ASSUME NEW c \in Calls, NEW o \in Origins, NEW p \in Paths,
             StartFetch(c, o, p)
      PROVE  IInv'
  <2> DEFINE x == [origin |-> o, path |-> p, at |-> clock, rules |-> None,
                   served |-> None]
  <2>1. /\ call' = [call EXCEPT ![c] = x] /\ verdict' = None
        /\ UNCHANGED <<world, cache>>
    BY <1>2 DEF StartFetch, NoAnswer
  <2>2. x \in Fetch
    BY DEF Fetch, Rules, IInv, TypeOK
  <2>3. TypeOK'
    BY <2>1, <2>2 DEF IInv, TypeOK, world
  <2>4. Cached' /\ Answered'
    BY <2>1 DEF IInv, Cached, Answered, EntryOK, EntryAt, FetchAt, world
  <2>5. Fetching'
    <3> SUFFICES ASSUME NEW d \in Calls, call'[d] # None
                 PROVE  FetchAt(call'[d], clock', since', site')
      BY DEF Fetching, FetchOK
    <3>1. CASE d = c
      BY <2>1, <3>1 DEF IInv, TypeOK, FetchOK, FetchAt, world
    <3>2. CASE d # c
      BY <2>1, <3>2 DEF IInv, TypeOK, Fetching, FetchOK, EntryOK, EntryAt, FetchAt, world
    <3> QED BY <3>1, <3>2
  <2> QED BY <2>1, <2>3, <2>4, <2>5 DEF IInv, world
<1>3. ASSUME NEW c \in Calls, SiteAnswers(c)
      PROVE  IInv'
  <2>1. PICK rules \in {site[call[c].origin], None} :
          call' = [call EXCEPT ![c].rules = rules, ![c].served = clock]
    BY <1>3 DEF SiteAnswers
  <2>2. call[c] \in Fetch /\ FetchOK(call[c]) /\ call[c].served = None
    BY <1>3 DEF SiteAnswers, IInv, TypeOK, Fetching
  <2>3. verdict' = None /\ UNCHANGED <<world, cache>>
    BY <1>3 DEF SiteAnswers, NoAnswer
  <2>4. rules \in Rules
    BY <2>1, <2>2 DEF Rules, Fetch, IInv, TypeOK
  <2>5. /\ call'[c] = [call[c] EXCEPT !.rules = rules, !.served = clock]
        /\ call'[c] \in Fetch
        /\ \A d \in Calls \ {c} : call'[d] = call[d]
    BY <2>1, <2>2, <2>4 DEF IInv, TypeOK, Fetch
  <2>6. call' \in [Calls -> {None} \cup Fetch]
    BY <2>1, <2>5 DEF IInv, TypeOK
  <2>7. TypeOK'
    BY <2>3, <2>6 DEF IInv, TypeOK, world
  <2>8. Cached' /\ Answered'
    BY <2>3 DEF IInv, Cached, Answered, EntryOK, EntryAt, FetchAt, world
  <2>9. Fetching'
    <3> SUFFICES ASSUME NEW d \in Calls, call'[d] # None
                 PROVE  FetchAt(call'[d], clock', since', site')
      BY DEF Fetching, FetchOK
    <3>1. CASE d = c
      <4>1. /\ call'[c].at = call[c].at /\ call'[c].origin = call[c].origin
            /\ call'[c].rules = rules /\ call'[c].served = clock
        BY <2>2, <2>5 DEF Fetch
      <4>2. call[c].at <= clock /\ clock \in Nat
        BY <2>2 DEF FetchOK, FetchAt, IInv, TypeOK
      <4>3. call'[c].served # None
        BY <4>1, <4>2, NoneAssumption
      <4> QED BY <2>1, <2>3, <3>1, <4>1, <4>2, <4>3
              DEF FetchOK, EntryOK, EntryAt, FetchAt, world
    <3>2. CASE d # c
      BY <2>3, <2>5, <3>2 DEF IInv, Fetching, FetchOK, EntryOK, EntryAt, FetchAt, world
    <3> QED BY <3>1, <3>2
  <2> QED BY <2>3, <2>7, <2>8, <2>9 DEF IInv, world
<1>4. ASSUME NEW c \in Calls, FetchEnds(c) \/ FetchFails(c)
      PROVE  IInv'
  <2>1. CASE FetchEnds(c)
    <3>1. call[c] # None /\ call[c].served # None /\ call[c].rules \in Rules
      BY <2>1 DEF FetchEnds, IInv, TypeOK, Fetch
    <3> QED BY <2>1, <3>1, StoreInv DEF FetchEnds
  <2>2. CASE FetchFails(c)
    BY <2>2, StoreInv DEF FetchFails, Rules
  <2> QED BY <1>4, <2>1, <2>2
<1>5. ASSUME NEW c \in Calls, FetchBlocked(c)
      PROVE  IInv'
  <2>1. /\ call' = [call EXCEPT ![c] = None] /\ verdict' = None
        /\ UNCHANGED <<world, cache>>
    BY <1>5 DEF FetchBlocked, NoAnswer
  <2>2. TypeOK'
    BY <2>1 DEF IInv, TypeOK, world
  <2>3. Cached' /\ Fetching' /\ Answered'
    BY <2>1 DEF IInv, TypeOK, Cached, Fetching, Answered, FetchOK, EntryOK, EntryAt, FetchAt, world
  <2> QED BY <2>1, <2>2, <2>3 DEF IInv, world
<1>6. ASSUME ClearCache
      PROVE  IInv'
  BY <1>6 DEF ClearCache, NoAnswer, IInv, TypeOK, Cached, Fetching, Answered,
              FetchOK, EntryOK, EntryAt, FetchAt, world
<1>7. ASSUME Tick
      PROVE  IInv'
  <2>1. TypeOK'
    BY <1>7 DEF Tick, NoAnswer, IInv, TypeOK
  <2>2. Cached'
    <3> SUFFICES ASSUME NEW k \in Keys, cache'[k] # None
                 PROVE  EntryAt(cache'[k], clock', since', site')
      BY DEF Cached, EntryOK
    <3>1. cache'[k] = cache[k] /\ cache[k] \in Stamp /\ EntryOK(cache[k])
      BY <1>7 DEF Tick, IInv, TypeOK, Cached
    <3> QED BY <1>7, <3>1, Later DEF Stamp
  <2>3. Fetching'
    <3> SUFFICES ASSUME NEW c \in Calls, call'[c] # None
                 PROVE  FetchAt(call'[c], clock', since', site')
      BY DEF Fetching, FetchOK
    <3>1. call'[c] = call[c] /\ call[c] \in Fetch /\ FetchOK(call[c])
      BY <1>7 DEF Tick, IInv, TypeOK, Fetching
    <3>2. call[c].at <= clock'
      BY <1>7, <3>1 DEF Tick, FetchOK, FetchAt, Fetch, IInv, TypeOK
    <3>3. call[c].served # None => EntryAt(call[c], clock', since', site')
      BY <1>7, <3>1, Later DEF Fetch, FetchOK, FetchAt, EntryOK
    <3> QED BY <3>1, <3>2, <3>3 DEF FetchOK, EntryOK, EntryAt, FetchAt
  <2>4. \A o \in Origins : since'[o] <= clock'
    BY <1>7 DEF Tick, IInv, TypeOK
  <2>5. Answered'
    BY <1>7 DEF Tick, NoAnswer, Answered
  <2> QED BY <2>1, <2>2, <2>3, <2>4, <2>5 DEF IInv
<1>8. ASSUME NEW o \in Origins, SiteChanges(o)
      PROVE  IInv'
  <2>1. TypeOK'
    BY <1>8 DEF SiteChanges, NoAnswer, IInv, TypeOK
  <2>2. Cached'
    <3> SUFFICES ASSUME NEW k \in Keys, cache'[k] # None
                 PROVE  EntryAt(cache'[k], clock', since', site')
      BY DEF Cached, EntryOK
    <3>1. cache'[k] = cache[k] /\ cache[k] \in Stamp /\ EntryOK(cache[k])
      BY <1>8 DEF SiteChanges, IInv, TypeOK, Cached
    <3> QED BY <1>8, <3>1, Changed DEF Stamp
  <2>3. Fetching'
    <3> SUFFICES ASSUME NEW c \in Calls, call'[c] # None
                 PROVE  FetchAt(call'[c], clock', since', site')
      BY DEF Fetching, FetchOK
    <3>1. call'[c] = call[c] /\ call[c] \in Fetch /\ FetchOK(call[c])
      BY <1>8 DEF SiteChanges, IInv, TypeOK, Fetching
    <3>2. call[c].at <= clock'
      BY <1>8, <3>1 DEF SiteChanges, FetchOK, FetchAt
    <3>3. call[c].served # None => EntryAt(call[c], clock', since', site')
      BY <1>8, <3>1, Changed DEF Fetch, FetchOK, FetchAt, EntryOK
    <3> QED BY <3>1, <3>2, <3>3 DEF FetchOK, EntryOK, EntryAt, FetchAt
  <2>4. \A p \in Origins : since'[p] <= clock'
    BY <1>8 DEF SiteChanges, IInv, TypeOK
  <2>5. Answered'
    BY <1>8 DEF SiteChanges, NoAnswer, Answered
  <2> QED BY <2>1, <2>2, <2>3, <2>4, <2>5 DEF IInv
<1>9. CASE UNCHANGED vars
  BY <1>9 DEF vars, world, IInv, TypeOK, Cached, Fetching, Answered, FetchOK,
              EntryOK, EntryAt, FetchAt
<1> QED BY <1>1, <1>2, <1>3, <1>4, <1>5, <1>6, <1>7, <1>8, <1>9 DEF Next, Ask

LEMMA IInvAlways == Spec => []IInv
<1>1. Init => IInv
  BY IInvInit
<1>2. IInv /\ [Next]_vars => IInv'
  BY IInvNext
<1> QED BY <1>1, <1>2, PTL DEF Spec

-----------------------------------------------------------------------------

(* The state of the robots cache has its type.                               *)
THEOREM Typing == Spec => []TypeOK
<1>1. IInv => TypeOK
  BY DEF IInv
<1> QED BY <1>1, IInvAlways, PTL

(* Every answer of is_allowed() rests on a robots.txt served during the call *)
(* or less than the TTL before it (robots.py:51-55).                         *)
THEOREM AnswersAlwaysRecent == Spec => []AnswersRecent
<1>1. IInv => AnswersRecent
  <2> SUFFICES ASSUME IInv, verdict # None
               PROVE  \/ verdict.basis.served >= verdict.asked
                      \/ clock - verdict.basis.served < CacheTTL
    BY DEF AnswersRecent
  <2>1. /\ verdict.basis.at \in Nat /\ verdict.basis.served \in Nat
        /\ clock \in Nat /\ verdict.asked \in Nat
    BY DEF IInv, TypeOK, Verdict, Stamp
  <2> QED BY <2>1, TimeAssumption DEF IInv, Answered, EntryOK, EntryAt
<1> QED BY <1>1, IInvAlways, PTL

(* A path a site denies since a TTL is denied by every call that has rules   *)
(* of that origin.                                                           *)
THEOREM ChangesAlwaysObeyed == Spec => []ChangesObeyed
<1>1. IInv => ChangesObeyed
  <2> SUFFICES ASSUME IInv, verdict # None,
                      verdict.basis.origin = verdict.origin,
                      verdict.basis.rules # None,
                      verdict.path \in site[verdict.origin],
                      verdict.asked > since[verdict.origin],
                      verdict.asked - since[verdict.origin] >= CacheTTL
               PROVE  ~verdict.allowed
    BY DEF ChangesObeyed
  <2>1. /\ verdict.basis.at \in Nat /\ verdict.basis.served \in Nat
        /\ clock \in Nat /\ verdict.asked \in Nat
        /\ verdict.origin \in Origins /\ since[verdict.origin] \in Nat
    BY DEF IInv, TypeOK, Verdict, Stamp
  <2>2. EntryOK(verdict.basis)
    BY DEF IInv, Answered
  <2>3. since[verdict.origin] < verdict.basis.served
    BY <2>1, <2>2, TimeAssumption DEF IInv, Answered, EntryOK, EntryAt
  <2>4. verdict.basis.rules = site[verdict.origin]
    BY <2>2, <2>3 DEF EntryOK, EntryAt, FetchAt
  <2> QED BY <2>4 DEF IInv, Answered, Allows
<1> QED BY <1>1, IInvAlways, PTL
=============================================================================
