--------------------------- MODULE ServicesProofs ---------------------------
(* The components of Services, each for every value of its constants, and     *)
(* what they keep side by side.                                               *)
EXTENDS Services, TLAPS, WellFoundedInduction

-----------------------------------------------------------------------------
(* What a scrape answers, for any number of requests that share the cache,    *)
(* any pages and any TTL.                                                     *)

(* A result is of a kind its own query allows.                                *)
Allowed(x) == x.for.render = "static" => x.render = "static"

(* An entry lies where its query leads, and was stored no later than now.     *)
Stored ==
  \A k \in Keys : store[k] # NoEntry =>
    /\ KeyOf(store[k].result.for) = k
    /\ Allowed(store[k].result)
    /\ store[k].expires <= clock + Ttl

(* A request for a static fetch never waits for a browser, and only one that  *)
(* waits for its second fetch, or has ended, has a first result.              *)
Course ==
  \A r \in Requests :
    /\ stage[r] \in {"browser", "second"} => query[r].render # "static"
    /\ static[r] # NoEntry => static[r].for = query[r]
    /\ static[r] # NoEntry => stage[r] \in {"second", "done"}

Inv == TypeOK /\ Stored /\ Course /\ NothingLost /\ HitHonest

-----------------------------------------------------------------------------
LEMMA KeyType ==
  ASSUME ConstantsOK, NEW q \in Queries
  PROVE  KeyOf(q) \in Keys /\ KeyOf(q).render = q.render
BY DEF ConstantsOK, KeyOf, Keys, Query

LEMMA ScrapedType ==
  ASSUME TypeOK, NEW r \in Requests, NEW page \in Pages,
         NEW render \in {"static", "browser"}
  PROVE  /\ Scraped(page, r, render) \in Result
         /\ Scraped(page, r, render).for = query[r]
         /\ Scraped(page, r, render).render = render
<1>1. page \in Page /\ query[r] \in Query /\ query[r] \in Queries
  BY DEF TypeOK, ConstantsOK
<1>2. Words(page, query[r]) \in Nat
  BY <1>1 DEF Words, Page, Body, Query
<1> QED BY <1>1, <1>2 DEF Scraped, Result

LEMMA InitInv == ASSUME ConstantsOK PROVE Init => Inv
<1> SUFFICES ASSUME Init PROVE Inv
  OBVIOUS
<1>1. TypeOK
  BY DEF Init, TypeOK, ConstantsOK
<1>2. Stored /\ Course /\ NothingLost /\ HitHonest
  BY DEF Init, Stored, Course, NothingLost, HitHonest, Given
<1> QED BY <1>1, <1>2 DEF Inv

(* Every answer but a cached one.                                             *)
LEMMA DeliverInv ==
  ASSUME Inv, NEW r \in Requests, NEW outcome \in Result, Deliver(r, outcome),
         outcome.for = query[r], Allowed(outcome),
         static[r] # NoEntry => outcome.words >= static[r].words
  PROVE  Inv'
<1> DEFINE a == [kind |-> "scraped", result |-> outcome]
<1> USE DEF Inv
<1>1. /\ reply' = [reply EXCEPT ![r] = a] /\ stage' = [stage EXCEPT ![r] = "done"]
      /\ UNCHANGED <<query, static, clock>>
  BY DEF Deliver, Answer, Goto
<1>2. /\ query[r] \in Queries /\ KeyOf(query[r]) \in Keys
      /\ clock \in Nat /\ Ttl \in Nat /\ MaxTime \in Nat
  BY KeyType DEF TypeOK, ConstantsOK
<1>3. \/ store' = store
      \/ store' = [store EXCEPT ![KeyOf(query[r])] = [result |-> outcome, expires |-> clock + Ttl]]
  BY DEF Deliver
<1>4. TypeOK'
  <2>1. a \in Reply
    BY DEF Reply
  <2>2. clock + Ttl \in 0..(MaxTime + Ttl)
    BY <1>2 DEF TypeOK
  <2>3. store' \in [Keys -> [result : Result, expires : 0..(MaxTime + Ttl)] \cup {NoEntry}]
    BY <1>2, <1>3, <2>2 DEF TypeOK
  <2> QED BY <1>1, <2>1, <2>3 DEF TypeOK, ConstantsOK
<1>5. Stored'
  BY <1>1, <1>2, <1>3 DEF Stored, TypeOK
<1>6. Course'
  BY <1>1 DEF Course, TypeOK
<1>7. NothingLost'
  BY <1>1 DEF NothingLost, Given, TypeOK
<1>8. HitHonest'
  BY <1>1 DEF HitHonest, Given, TypeOK
<1> QED BY <1>4, <1>5, <1>6, <1>7, <1>8

LEMMA FailInv ==
  ASSUME Inv, NEW r \in Requests, NEW how \in Failure, Fail(r, how), static[r] = NoEntry
  PROVE  Inv'
<1> USE DEF Inv
<1>1. /\ reply' = [reply EXCEPT ![r] = [kind |-> how]]
      /\ stage' = [stage EXCEPT ![r] = "done"]
      /\ UNCHANGED <<store, query, static, clock>>
  BY DEF Fail, Answer, Goto
<1>2. [kind |-> how] \in Reply /\ how # "cached"
  BY DEF Reply, Failure
<1>3. TypeOK'
  BY <1>1, <1>2 DEF TypeOK, ConstantsOK
<1>4. Stored' /\ Course'
  BY <1>1 DEF Stored, Course, TypeOK
<1>5. NothingLost'
  BY <1>1 DEF NothingLost, Given, TypeOK
<1>6. HitHonest'
  BY <1>1, <1>2 DEF HitHonest, Given, TypeOK
<1> QED BY <1>3, <1>4, <1>5, <1>6

LEMMA HitInv ==
  ASSUME Inv, NEW r \in Requests, Hit(r)
  PROVE  Inv'
<1> DEFINE entry == store[KeyOf(query[r])]
           a == [kind |-> "cached", result |-> entry.result, age |-> clock + Ttl - entry.expires]
<1> USE DEF Inv
<1>1. /\ reply' = [reply EXCEPT ![r] = a] /\ stage' = [stage EXCEPT ![r] = "done"]
      /\ UNCHANGED <<store, query, static, clock>>
  BY DEF Hit, Answer, Goto
<1>2. /\ query[r] \in Queries /\ KeyOf(query[r]) \in Keys
      /\ KeyOf(query[r]).render = query[r].render
      /\ clock \in Nat /\ Ttl \in Nat /\ MaxTime \in Nat
  BY KeyType DEF TypeOK, ConstantsOK
<1>3. entry # NoEntry /\ clock <= entry.expires /\ static[r] = NoEntry
  BY DEF Hit, Usable, Course
<1>4. entry.result \in Result /\ entry.expires \in Nat
  BY <1>2, <1>3 DEF TypeOK
<1>5. /\ KeyOf(entry.result.for) = KeyOf(query[r]) /\ Allowed(entry.result)
      /\ entry.expires <= clock + Ttl
  BY <1>2, <1>3 DEF Stored
<1>6. entry.result.for.render = query[r].render
  <2>1. entry.result.for \in Queries
    BY <1>4 DEF Result
  <2> QED BY <1>2, <1>5, <2>1, KeyType DEF TypeOK
<1>7. a.age \in Nat /\ a.age <= Ttl
  BY <1>2, <1>3, <1>4, <1>5
<1>8. a \in Reply
  BY <1>4, <1>7 DEF Reply
<1> HIDE DEF entry
<1>9. TypeOK'
  BY <1>1, <1>8 DEF TypeOK, ConstantsOK
<1>10. Stored' /\ Course'
  BY <1>1 DEF Stored, Course, TypeOK
<1>11. NothingLost'
  BY <1>1, <1>3 DEF NothingLost, Given, TypeOK
<1>12. HitHonest'
  BY <1>1, <1>5, <1>6, <1>7 DEF HitHonest, Given, TypeOK, Allowed
<1> QED BY <1>9, <1>10, <1>11, <1>12

(* What only moves a request on to its next fetch.                            *)
LEMMA MissInv ==
  ASSUME Inv, NEW r \in Requests, Miss(r)
  PROVE  Inv'
<1> USE DEF Inv
<1>1. /\ stage' = [stage EXCEPT ![r] = IF query[r].render = "browser" THEN "browser" ELSE "static"]
      /\ UNCHANGED <<query, static, reply, clock>>
      /\ \/ store' = store
         \/ store' = [store EXCEPT ![KeyOf(query[r])] = NoEntry]
      /\ static[r] = NoEntry
  BY DEF Miss, Goto, Course
<1>2. TypeOK'
  BY <1>1 DEF TypeOK, ConstantsOK
<1>3. Stored'
  BY <1>1 DEF Stored, TypeOK
<1>4. Course'
  BY <1>1 DEF Course, TypeOK
<1>5. NothingLost' /\ HitHonest'
  BY <1>1 DEF NothingLost, HitHonest, Given, TypeOK
<1> QED BY <1>2, <1>3, <1>4, <1>5

LEMMA StaticDoneInv ==
  ASSUME Inv, NEW r \in Requests, StaticDone(r)
  PROVE  Inv'
<1> USE DEF Inv
<1>1. PICK page \in Pages, ok \in BOOLEAN :
        LET outcome == Scraped(page, r, "static")
        IN IF query[r].render = "auto" /\ outcome.words < MinWords /\ ok
             THEN /\ static' = [static EXCEPT ![r] = outcome]
                  /\ Goto(r, "second")
                  /\ UNCHANGED <<store, query, reply, clock>>
             ELSE Deliver(r, outcome)
  BY DEF StaticDone
<1> DEFINE outcome == Scraped(page, r, "static")
<1>2. outcome \in Result /\ outcome.for = query[r] /\ outcome.render = "static"
  BY ScrapedType
<1> HIDE DEF outcome
<1>3. static[r] = NoEntry /\ stage[r] = "static"
  BY DEF StaticDone, Course
<1>4. CASE Deliver(r, outcome)
  BY <1>2, <1>3, <1>4, DeliverInv DEF Allowed
<1>5. CASE /\ static' = [static EXCEPT ![r] = outcome]
           /\ stage' = [stage EXCEPT ![r] = "second"]
           /\ query[r].render = "auto"
           /\ UNCHANGED <<store, query, reply, clock>>
  <2>1. outcome # NoEntry
    BY <1>2 DEF TypeOK, ConstantsOK
  <2>2. TypeOK'
    BY <1>2, <1>5, <2>1 DEF TypeOK, ConstantsOK
  <2>3. Stored'
    BY <1>5 DEF Stored
  <2>4. Course'
    BY <1>2, <1>5 DEF Course, TypeOK
  <2>5. NothingLost' /\ HitHonest'
    BY <1>5 DEF NothingLost, HitHonest, Given, TypeOK
  <2> QED BY <2>2, <2>3, <2>4, <2>5
<1> QED BY <1>1, <1>4, <1>5 DEF Goto, outcome

LEMMA StepInv == Inv /\ [Next]_vars => Inv'
<1> SUFFICES ASSUME Inv, [Next]_vars PROVE Inv'
  OBVIOUS
<1>1. ASSUME NEW r \in Requests, StaticRejected(r) \/ BrowserFails(r) PROVE Inv'
  <2>1. static[r] = NoEntry
    BY <1>1 DEF StaticRejected, BrowserFails, Inv, Course
  <2> QED BY <1>1, <2>1, FailInv DEF StaticRejected, BrowserFails, Failure
<1>2. ASSUME NEW r \in Requests, StaticFails(r) PROVE Inv'
  <2>1. static[r] = NoEntry
    BY <1>2 DEF StaticFails, Inv, Course
  <2>2. CASE Fail(r, "failed")
    BY <2>1, <2>2, FailInv DEF Failure
  <2>3. CASE /\ stage' = [stage EXCEPT ![r] = "browser"] /\ query[r].render # "static"
             /\ UNCHANGED <<store, query, static, reply, clock>>
    BY <2>1, <2>3 DEF Inv, TypeOK, ConstantsOK, Stored, Course, NothingLost, HitHonest, Given
  <2> QED BY <1>2, <2>2, <2>3 DEF StaticFails, Goto
<1>3. ASSUME NEW r \in Requests, BrowserDone(r) PROVE Inv'
  <2>1. PICK page \in Pages : Deliver(r, Scraped(page, r, "browser"))
    BY <1>3 DEF BrowserDone
  <2>2. static[r] = NoEntry /\ query[r].render # "static"
    BY <1>3 DEF BrowserDone, Inv, Course
  <2>3. /\ Scraped(page, r, "browser") \in Result
        /\ Scraped(page, r, "browser").for = query[r]
    BY ScrapedType DEF Inv
  <2> QED BY <2>1, <2>2, <2>3, DeliverInv DEF Allowed
<1>4. ASSUME NEW r \in Requests, SecondDone(r) PROVE Inv'
  <2>1. PICK page \in Pages :
          Deliver(r, IF Scraped(page, r, "browser").words > static[r].words
                       THEN Scraped(page, r, "browser") ELSE static[r])
    BY <1>4 DEF SecondDone
  <2> DEFINE second == Scraped(page, r, "browser")
  <2>2. second \in Result /\ second.for = query[r]
    BY ScrapedType DEF Inv
  <2> HIDE DEF second
  <2>3. /\ static[r] \in Result /\ static[r].for = query[r]
        /\ query[r].render # "static"
    BY <1>4 DEF SecondDone, Inv, TypeOK, Course
  <2>4. second.words \in Nat /\ static[r].words \in Nat
    BY <2>2, <2>3 DEF Result
  <2>5. CASE second.words > static[r].words
    <3>1. Deliver(r, second)
      BY <2>1, <2>5 DEF second
    <3>2. second.words >= static[r].words
      BY <2>4, <2>5
    <3> QED BY <2>2, <2>3, <3>1, <3>2, DeliverInv DEF Allowed
  <2>6. CASE ~(second.words > static[r].words)
    <3>1. Deliver(r, static[r])
      BY <2>1, <2>6 DEF second
    <3>2. static[r].words >= static[r].words
      BY <2>4
    <3> QED BY <2>3, <3>1, <3>2, DeliverInv DEF Allowed
  <2> QED BY <2>5, <2>6
<1>5. ASSUME NEW r \in Requests, SecondFails(r) PROVE Inv'
  <2>1. /\ static[r] \in Result /\ static[r].for = query[r]
        /\ query[r].render # "static"
    BY <1>5 DEF SecondFails, Inv, TypeOK, Course
  <2>2. static[r].words >= static[r].words
    BY <2>1 DEF Result
  <2> QED BY <1>5, <2>1, <2>2, DeliverInv DEF SecondFails, Allowed
<1>6. CASE Tick
  <2>1. TypeOK'
    BY <1>6 DEF Tick, Inv, TypeOK, ConstantsOK
  <2>2. Stored'
    BY <1>6 DEF Tick, Inv, Stored, TypeOK, ConstantsOK
  <2>3. Course' /\ NothingLost' /\ HitHonest'
    BY <1>6 DEF Tick, Inv, Course, NothingLost, HitHonest, Given
  <2> QED BY <2>1, <2>2, <2>3 DEF Inv
<1>7. CASE UNCHANGED vars
  BY <1>7 DEF vars, Inv, TypeOK, ConstantsOK, Stored, Course, NothingLost, HitHonest, Given
<1> QED
  BY <1>1, <1>2, <1>3, <1>4, <1>5, <1>6, <1>7, HitInv, MissInv, StaticDoneInv
     DEF Next, RequestStep

-----------------------------------------------------------------------------
(* The clients of the API: while a call posts, it has made at most one job    *)
(* per retry, and one that polls has polls left.                              *)
CallsInv ==
  /\ C!TypeOK /\ C!DuplicatesBounded
  /\ {tries, polled, id} \subseteq [Callers -> Nat]
  /\ \A c \in Callers :
       /\ phase[c] = "post" => Len(jobs[c]) <= tries[c]
       /\ phase[c] \in {"post", "get"} /\ kind[c].polls # 0 => polled[c] < kind[c].polls

LEMMA KindType ==
  ASSUME C!ConstantsOK, kind \in [Callers -> Clients], NEW c \in Callers
  PROVE  kind[c].retries \in Nat /\ kind[c].polls \in Nat
BY DEF C!ConstantsOK, C!Kind

LEMMA CallsInit == ASSUME C!ConstantsOK, C!Init PROVE CallsInv
<1>1. \A c \in Callers : kind[c].retries \in Nat /\ kind[c].polls \in Nat
  BY KindType DEF C!Init
<1> QED BY <1>1 DEF C!Init, CallsInv, C!TypeOK, C!DuplicatesBounded, C!ConstantsOK

(* A step is judged by what it makes of one call.                             *)
LEMMA OneCall ==
  ASSUME C!ConstantsOK, CallsInv, NEW c \in Callers,
         NEW j \in Seq({"running", "lost"} \cup C!Terminal), jobs' = [jobs EXCEPT ![c] = j],
         NEW p \in {"post", "get"} \cup C!Ended, phase' = [phase EXCEPT ![c] = p],
         NEW t \in 0..kind[c].retries, tries' = [tries EXCEPT ![c] = t],
         NEW n \in 0..kind[c].polls, polled' = [polled EXCEPT ![c] = n],
         NEW i \in 0..Len(j), id' = [id EXCEPT ![c] = i],
         UNCHANGED <<kind, restarts>>,
         Len(j) <= 1 + kind[c].retries,
         p = "post" => Len(j) <= t,
         p \in {"post", "get"} /\ kind[c].polls # 0 => n < kind[c].polls
  PROVE  CallsInv'
<1>1. kind' = kind /\ restarts' = restarts
  OBVIOUS
<1>2. /\ jobs'[c] = j /\ phase'[c] = p /\ tries'[c] = t /\ polled'[c] = n /\ id'[c] = i
      /\ \A d \in Callers \ {c} :
           /\ jobs'[d] = jobs[d] /\ phase'[d] = phase[d] /\ tries'[d] = tries[d]
           /\ polled'[d] = polled[d] /\ id'[d] = id[d]
  BY DEF CallsInv, C!TypeOK
<1>3. C!TypeOK' /\ {tries', polled', id'} \subseteq [Callers -> Nat]
  <2>1. t \in Nat /\ n \in Nat /\ i \in Nat
    OBVIOUS
  <2>2. {tries', polled', id'} \subseteq [Callers -> Nat]
    BY <2>1 DEF CallsInv
  <2>3. C!TypeOK'
    BY <1>1, <1>2 DEF CallsInv, C!TypeOK
  <2> QED BY <2>2, <2>3
<1>4. C!DuplicatesBounded'
  BY <1>1, <1>2 DEF CallsInv, C!DuplicatesBounded
<1> QED BY <1>1, <1>2, <1>3, <1>4 DEF CallsInv

LEMMA PostInv ==
  ASSUME C!ConstantsOK, CallsInv, NEW c \in Callers, C!Post(c)
  PROVE  CallsInv'
<1>1. PICK answer \in C!Answers, made \in BOOLEAN :
        /\ jobs' = IF made THEN [jobs EXCEPT ![c] = Append(@, "running")] ELSE jobs
        /\ IF C!Retried(c, answer)
             THEN C!Again(c)
             ELSE /\ tries' = [tries EXCEPT ![c] = 0]
                  /\ id' = [id EXCEPT ![c] = IF answer = "ok" THEN Len(jobs'[c]) ELSE 0]
                  /\ C!Goto(c, CASE C!Raises(c, "post", answer) -> "raised"
                                 [] kind[c].waits -> "get"
                                 [] OTHER -> "returned")
                  /\ UNCHANGED polled
  BY DEF C!Post
<1> DEFINE j == IF made THEN Append(jobs[c], "running") ELSE jobs[c]
<1>2. /\ phase[c] = "post" /\ UNCHANGED <<kind, restarts>>
      /\ kind[c].retries \in Nat /\ kind[c].polls \in Nat
      /\ jobs[c] \in Seq({"running", "lost"} \cup C!Terminal)
      /\ Len(jobs[c]) <= tries[c] /\ tries[c] \in 0..kind[c].retries
      /\ polled[c] \in 0..kind[c].polls /\ id[c] \in 0..Len(jobs[c])
      /\ kind[c].polls # 0 => polled[c] < kind[c].polls
  BY KindType DEF C!Post, CallsInv, C!TypeOK
<1>3. /\ j \in Seq({"running", "lost"} \cup C!Terminal)
      /\ Len(jobs[c]) <= Len(j) /\ Len(j) <= tries[c] + 1
      /\ Len(j) <= 1 + kind[c].retries
  BY <1>2
<1>4. jobs' = [jobs EXCEPT ![c] = j] /\ jobs'[c] = j
  BY <1>1 DEF CallsInv, C!TypeOK
<1>5. polled' = [polled EXCEPT ![c] = polled[c]]
  BY <1>1 DEF C!Again, CallsInv, C!TypeOK
<1> HIDE DEF j
<1>6. CASE C!Retried(c, answer)
  <2>1. /\ tries' = [tries EXCEPT ![c] = tries[c] + 1]
        /\ phase' = [phase EXCEPT ![c] = "post"]
        /\ id' = [id EXCEPT ![c] = id[c]]
    BY <1>1, <1>2, <1>6 DEF C!Again, CallsInv, C!TypeOK
  <2>2. tries[c] + 1 \in 0..kind[c].retries
    BY <1>2, <1>6 DEF C!Retried
  <2>3. id[c] \in 0..Len(j)
    BY <1>2, <1>3
  <2> QED BY <1>2, <1>3, <1>4, <1>5, <2>1, <2>2, <2>3, OneCall
<1>7. CASE ~C!Retried(c, answer)
  <2> DEFINE p == CASE C!Raises(c, "post", answer) -> "raised"
                    [] kind[c].waits -> "get"
                    [] OTHER -> "returned"
             i == IF answer = "ok" THEN Len(j) ELSE 0
  <2>1. p \in {"get"} \cup C!Ended /\ p # "post"
    BY DEF C!Ended
  <2>2. /\ tries' = [tries EXCEPT ![c] = 0]
        /\ phase' = [phase EXCEPT ![c] = p]
        /\ id' = [id EXCEPT ![c] = i]
    BY <1>1, <1>4, <1>7 DEF C!Goto
  <2>3. i \in 0..Len(j) /\ 0 \in 0..kind[c].retries
    BY <1>2, <1>3
  <2> HIDE DEF p, i
  <2>4. p \in {"post", "get"} \cup C!Ended /\ (p = "post" => Len(j) <= 0)
    BY <2>1
  <2>5. kind' = kind /\ restarts' = restarts /\ polled[c] \in 0..kind[c].polls
    BY <1>2
  <2> QED BY <1>2, <1>3, <1>4, <1>5, <2>2, <2>3, <2>4, <2>5, OneCall
<1> QED BY <1>6, <1>7

LEMMA GetInv ==
  ASSUME C!ConstantsOK, CallsInv, NEW c \in Callers, C!Get(c)
  PROVE  CallsInv'
<1>1. PICK answer \in C!Answers :
        IF C!Retried(c, answer)
          THEN C!Again(c)
          ELSE /\ tries' = [tries EXCEPT ![c] = 0]
               /\ CASE C!Raises(c, "get", answer) -> C!Goto(c, "raised") /\ UNCHANGED polled
                    [] answer = "ok" /\ C!Final(c) -> C!Goto(c, "returned") /\ UNCHANGED polled
                    [] OTHER -> C!Poll(c)
               /\ UNCHANGED id
  BY DEF C!Get
<1>2. /\ phase[c] = "get" /\ UNCHANGED <<kind, jobs, restarts>>
      /\ kind[c].retries \in Nat /\ kind[c].polls \in Nat
      /\ jobs[c] \in Seq({"running", "lost"} \cup C!Terminal)
      /\ Len(jobs[c]) <= 1 + kind[c].retries /\ tries[c] \in 0..kind[c].retries
      /\ polled[c] \in 0..kind[c].polls /\ id[c] \in 0..Len(jobs[c])
      /\ kind[c].polls # 0 => polled[c] < kind[c].polls
  BY KindType DEF C!Get, CallsInv, C!TypeOK, C!DuplicatesBounded
<1>3. /\ jobs' = [jobs EXCEPT ![c] = jobs[c]] /\ id' = [id EXCEPT ![c] = id[c]]
      /\ phase = [phase EXCEPT ![c] = "get"] /\ polled = [polled EXCEPT ![c] = polled[c]]
  BY <1>1, <1>2 DEF C!Again, CallsInv, C!TypeOK
<1>4. CASE C!Retried(c, answer)
  <2>1. /\ tries' = [tries EXCEPT ![c] = tries[c] + 1]
        /\ phase' = [phase EXCEPT ![c] = "get"]
        /\ polled' = [polled EXCEPT ![c] = polled[c]]
    BY <1>1, <1>3, <1>4 DEF C!Again
  <2>2. tries[c] + 1 \in 0..kind[c].retries
    BY <1>2, <1>4 DEF C!Retried
  <2> QED BY <1>2, <1>3, <2>1, <2>2, OneCall
<1>5. CASE ~C!Retried(c, answer)
  <2>1. tries' = [tries EXCEPT ![c] = 0] /\ 0 \in 0..kind[c].retries
    BY <1>1, <1>2, <1>5
  <2>2. ASSUME NEW p \in {"get"} \cup C!Ended, phase' = [phase EXCEPT ![c] = p],
               NEW n \in 0..kind[c].polls, polled' = [polled EXCEPT ![c] = n],
               p = "get" /\ kind[c].polls # 0 => n < kind[c].polls
        PROVE  CallsInv'
    <3>1. p \in {"post", "get"} \cup C!Ended /\ p # "post"
      BY DEF C!Ended
    <3> QED BY <1>2, <1>3, <2>1, <2>2, <3>1, OneCall
  <2>3. CASE (C!Goto(c, "raised") \/ C!Goto(c, "returned")) /\ UNCHANGED polled
    <3>1. PICK p \in {"raised", "returned"} : phase' = [phase EXCEPT ![c] = p]
      BY <2>3 DEF C!Goto
    <3>2. polled' = [polled EXCEPT ![c] = polled[c]]
      BY <1>3, <2>3
    <3>3. p \in {"get"} \cup C!Ended /\ p # "get"
      BY DEF C!Ended
    <3> QED BY <1>2, <2>2, <3>1, <3>2, <3>3
  <2>4. CASE C!Poll(c)
    <3>1. CASE kind[c].polls = 0
      BY <1>2, <1>3, <2>2, <2>4, <3>1 DEF C!Poll
    <3>2. CASE kind[c].polls # 0
      <4>1. polled' = [polled EXCEPT ![c] = polled[c] + 1] /\ polled'[c] = polled[c] + 1
        BY <2>4, <3>2 DEF C!Poll, CallsInv, C!TypeOK
      <4>2. polled[c] + 1 \in 0..kind[c].polls
        BY <1>2, <3>2
      <4>3. CASE polled[c] + 1 = kind[c].polls
        BY <2>2, <2>4, <3>2, <4>1, <4>2, <4>3 DEF C!Poll, C!Goto, C!Ended
      <4>4. CASE polled[c] + 1 # kind[c].polls
        <5>1. phase' = [phase EXCEPT ![c] = "get"]
          BY <1>3, <2>4, <3>2, <4>1, <4>4 DEF C!Poll
        <5>2. polled[c] + 1 < kind[c].polls
          BY <1>2, <4>2, <4>4
        <5> QED BY <2>2, <4>1, <4>2, <5>1, <5>2
      <4> QED BY <4>3, <4>4
    <3> QED BY <3>1, <3>2
  <2> QED BY <1>1, <1>5, <2>3, <2>4
<1> QED BY <1>4, <1>5

LEMMA CallsStep ==
  ASSUME C!ConstantsOK, CallsInv, [C!Next]_(C!vars)
  PROVE  CallsInv'
<1>1. ASSUME NEW c \in Callers, C!JobEnds(c) PROVE CallsInv'
  <2>1. PICK i \in DOMAIN jobs[c], status \in C!Terminal :
          jobs' = [jobs EXCEPT ![c] = [jobs[c] EXCEPT ![i] = status]]
    BY <1>1 DEF C!JobEnds
  <2> DEFINE j == [jobs[c] EXCEPT ![i] = status]
  <2>2. jobs[c] \in Seq({"running", "lost"} \cup C!Terminal)
    BY DEF CallsInv, C!TypeOK
  <2>3. j \in Seq({"running", "lost"} \cup C!Terminal) /\ Len(j) = Len(jobs[c])
    BY <2>2
  <2> HIDE DEF j
  <2>4. /\ jobs'[c] = j /\ \A d \in Callers \ {c} : jobs'[d] = jobs[d]
        /\ jobs' \in [Callers -> Seq({"running", "lost"} \cup C!Terminal)]
    BY <2>1, <2>3 DEF CallsInv, C!TypeOK, j
  <2>5. \A d \in Callers : Len(jobs'[d]) = Len(jobs[d])
    BY <2>3, <2>4
  <2>6. UNCHANGED <<kind, phase, tries, polled, id, restarts>>
    BY <1>1 DEF C!JobEnds
  <2> QED BY <2>4, <2>5, <2>6 DEF CallsInv, C!TypeOK, C!DuplicatesBounded
<1>2. CASE C!ServerRestarts
  <2>1. \A d \in Callers : jobs[d] \in Seq({"running", "lost"} \cup C!Terminal)
    BY DEF CallsInv, C!TypeOK
  <2>2. \A d \in Callers : /\ [i \in DOMAIN jobs[d] |-> "lost"]
                                \in Seq({"running", "lost"} \cup C!Terminal)
                           /\ Len([i \in DOMAIN jobs[d] |-> "lost"]) = Len(jobs[d])
    BY <2>1
  <2>3. /\ jobs' = [d \in Callers |-> [i \in DOMAIN jobs[d] |-> "lost"]]
        /\ restarts < MaxRestarts /\ restarts' = restarts + 1
        /\ UNCHANGED <<kind, phase, tries, polled, id>>
    BY <1>2 DEF C!ServerRestarts
  <2>4. /\ jobs' \in [Callers -> Seq({"running", "lost"} \cup C!Terminal)]
        /\ \A d \in Callers : Len(jobs'[d]) = Len(jobs[d])
    BY <2>2, <2>3
  <2>5. restarts' \in 0..MaxRestarts
    BY <2>3 DEF CallsInv, C!TypeOK, C!ConstantsOK
  <2> QED BY <2>3, <2>4, <2>5 DEF CallsInv, C!TypeOK, C!DuplicatesBounded
<1>3. CASE UNCHANGED C!vars
  BY <1>3 DEF C!vars, CallsInv, C!TypeOK, C!DuplicatesBounded
<1> QED BY <1>1, <1>2, <1>3, PostInv, GetInv DEF C!Next, C!Call

-----------------------------------------------------------------------------
(* The map of a site: what a call has walked it has seen, no call is made     *)
(* deeper than one below the limit, and a candidate was offered.              *)
Wanted == {Bare[u] : u \in {Seed} \cup M!ToSet(graph) \cup M!ToSet(found)}
Fit(u) == Site[u] = Site[Seed]

(* The loop at the end: what was found is still to be looked at, in the       *)
(* result, refused, or does not belong there.                                 *)
Filtering ==
  /\ rest # <<>> /\ Len(result) < MaxUrls
  /\ M!IsInjective(result) /\ \A u \in M!ToSet(result) : u \in Wanted /\ Fit(u)
  /\ \A u \in M!ToSet(rest) : Bare[u] \in Wanted
  /\ \A v \in Wanted : Fit(v) =>
       v \in M!ToSet(result) \cup refused \/ \E u \in M!ToSet(rest) : Bare[u] = v
  /\ Bare[Seed] \notin refused =>
       IF result = <<>> THEN Head(rest) = Seed ELSE result[1] = Bare[Seed]

Walks(fetches, urls) ==
  \A i \in DOMAIN fetches : fetches[i].by = "walk" => fetches[i].url \in urls

MapInv ==
  /\ M!TypeOK /\ M!WalkBounded /\ M!PagesKept
  /\ Walks(fetched, seen) /\ M!ToSet(cands) \subseteq M!Offered
  /\ step = "call" => todo # <<>>
  /\ step = "probe" => cands # <<>>
  /\ step \notin {"filter", "done", "rejected"} => result = <<>>
  /\ step = "filter" => Filtering

LEMMA MapInit == ASSUME M!ConstantsOK, M!Init PROVE MapInv
<1>1. /\ todo = <<>> /\ cands = <<>> /\ seen = {} /\ found = <<>> /\ fetched = <<>>
      /\ graph = <<>> /\ rest = <<>> /\ result = <<>> /\ refused = {}
      /\ step \in {"validate", "validate only"}
  BY DEF M!Init
<1>2. \A S : <<>> \in Seq(S)
  OBVIOUS
<1>3. M!TypeOK
  <2>1. {found, graph, rest, result} \subseteq Seq(Links)
    BY <1>1, <1>2
  <2> QED BY <1>1, <1>2, <2>1 DEF M!TypeOK
<1>4. M!ToSet(fetched) = {} /\ M!ToSet(cands) = {}
  <2>1. M!ToSet(<<>>) = {}
    BY DEF M!ToSet
  <2> QED BY <1>1, <2>1
<1>5. \A i \in DOMAIN fetched : FALSE
  BY <1>4 DEF M!ToSet
<1> QED BY <1>1, <1>3, <1>4, <1>5 DEF MapInv, Walks, M!WalkBounded, M!PagesKept

(* The elements of sequences.                                                 *)
LEMMA Elements ==
  ASSUME NEW S, NEW l \in Seq(S)
  PROVE  /\ M!ToSet(l) \subseteq S
         /\ l # <<>> => /\ Head(l) \in S /\ Tail(l) \in Seq(S)
                        /\ M!ToSet(l) = {Head(l)} \cup M!ToSet(Tail(l))
         /\ \A x \in S : /\ Append(l, x) \in Seq(S)
                         /\ M!ToSet(Append(l, x)) = M!ToSet(l) \cup {x}
                         /\ Append(l, x) # <<>>
                         /\ Append(l, x)[1] = IF l = <<>> THEN x ELSE l[1]
                         /\ Len(Append(l, x)) = Len(l) + 1
                         /\ M!IsInjective(l) /\ x \notin M!ToSet(l)
                              => M!IsInjective(Append(l, x))
<1>1. Len(l) \in Nat /\ DOMAIN l = 1..Len(l) /\ \A i \in DOMAIN l : l[i] \in S
  OBVIOUS
<1>2. M!ToSet(l) \subseteq S
  BY <1>1 DEF M!ToSet
<1>3. ASSUME l # <<>>
      PROVE  /\ Head(l) \in S /\ Tail(l) \in Seq(S)
             /\ M!ToSet(l) = {Head(l)} \cup M!ToSet(Tail(l))
  <2>1. Len(l) # 0
    BY <1>3
  <2>2. /\ Head(l) = l[1] /\ Tail(l) \in Seq(S)
        /\ DOMAIN Tail(l) = 1..(Len(l) - 1)
        /\ \A i \in 1..(Len(l) - 1) : Tail(l)[i] = l[i + 1]
    BY <1>3, <2>1
  <2>3. M!ToSet(l) \subseteq {Head(l)} \cup M!ToSet(Tail(l))
    <3> SUFFICES ASSUME NEW i \in DOMAIN l
                 PROVE  l[i] \in {Head(l)} \cup M!ToSet(Tail(l))
      BY DEF M!ToSet
    <3>1. CASE i = 1
      BY <2>2, <3>1
    <3>2. CASE i # 1
      <4>1. i - 1 \in 1..(Len(l) - 1) /\ (i - 1) + 1 = i
        BY <1>1, <3>2
      <4> QED BY <2>2, <4>1 DEF M!ToSet
    <3> QED BY <3>1, <3>2
  <2>4. {Head(l)} \cup M!ToSet(Tail(l)) \subseteq M!ToSet(l)
    <3>1. 1 \in DOMAIN l /\ \A i \in 1..(Len(l) - 1) : i + 1 \in DOMAIN l
      BY <1>1, <2>1
    <3> QED BY <2>2, <3>1 DEF M!ToSet
  <2>5. Head(l) \in S
    BY <1>1, <2>1, <2>2
  <2> QED BY <2>2, <2>3, <2>4, <2>5
<1>4. ASSUME NEW x \in S
      PROVE  /\ Append(l, x) \in Seq(S)
             /\ M!ToSet(Append(l, x)) = M!ToSet(l) \cup {x}
             /\ Append(l, x) # <<>>
             /\ Append(l, x)[1] = IF l = <<>> THEN x ELSE l[1]
             /\ Len(Append(l, x)) = Len(l) + 1
             /\ M!IsInjective(l) /\ x \notin M!ToSet(l)
                  => M!IsInjective(Append(l, x))
  <2> DEFINE a == Append(l, x)
  <2>1. /\ a \in Seq(S) /\ Len(a) = Len(l) + 1 /\ DOMAIN a = 1..(Len(l) + 1)
        /\ \A i \in 1..Len(l) : a[i] = l[i]
        /\ a[Len(l) + 1] = x
    OBVIOUS
  <2> HIDE DEF a
  <2>2. DOMAIN a = DOMAIN l \cup {Len(l) + 1} /\ Len(l) + 1 \notin DOMAIN l
    BY <1>1, <2>1
  <2>3. M!ToSet(a) = M!ToSet(l) \cup {x}
    BY <1>1, <2>1, <2>2 DEF M!ToSet
  <2>4. a # <<>> /\ a[1] = IF l = <<>> THEN x ELSE l[1]
    <3>1. Len(<<>>) = 0
      OBVIOUS
    <3>2. a # <<>>
      BY <1>1, <2>1, <3>1
    <3>3. l = <<>> => a[1] = x
      BY <2>1, <3>1
    <3>4. l # <<>> => 1 \in 1..Len(l)
      BY <1>1
    <3> QED BY <2>1, <3>2, <3>3, <3>4
  <2>5. M!IsInjective(l) /\ x \notin M!ToSet(l) => M!IsInjective(a)
    BY <1>1, <2>1, <2>2 DEF M!IsInjective, M!ToSet
  <2> QED BY <2>1, <2>3, <2>4, <2>5 DEF a
<1> QED BY <1>2, <1>3, <1>4

LEMMA Concatenation ==
  ASSUME NEW S, NEW k \in Seq(S), NEW l \in Seq(S)
  PROVE  k \o l \in Seq(S) /\ M!ToSet(k \o l) = M!ToSet(k) \cup M!ToSet(l)
<1> DEFINE b == k \o l
<1>1. /\ b \in Seq(S) /\ DOMAIN b = 1..(Len(k) + Len(l))
      /\ Len(k) \in Nat /\ Len(l) \in Nat
      /\ DOMAIN k = 1..Len(k) /\ DOMAIN l = 1..Len(l)
      /\ \A i \in 1..Len(k) : b[i] = k[i]
      /\ \A i \in 1..Len(l) : b[Len(k) + i] = l[i]
  OBVIOUS
<1> HIDE DEF b
<1>2. M!ToSet(b) \subseteq M!ToSet(k) \cup M!ToSet(l)
  <2> SUFFICES ASSUME NEW i \in DOMAIN b PROVE b[i] \in M!ToSet(k) \cup M!ToSet(l)
    BY DEF M!ToSet
  <2>1. CASE i <= Len(k)
    <3>1. i \in 1..Len(k)
      BY <1>1, <2>1
    <3> QED BY <1>1, <3>1 DEF M!ToSet
  <2>2. CASE ~(i <= Len(k))
    <3>1. i - Len(k) \in 1..Len(l) /\ Len(k) + (i - Len(k)) = i
      BY <1>1, <2>2
    <3> QED BY <1>1, <3>1 DEF M!ToSet
  <2> QED BY <2>1, <2>2
<1>3. M!ToSet(k) \cup M!ToSet(l) \subseteq M!ToSet(b)
  <2>1. /\ \A i \in 1..Len(k) : i \in DOMAIN b
        /\ \A i \in 1..Len(l) : Len(k) + i \in DOMAIN b
    BY <1>1
  <2> QED BY <1>1, <2>1 DEF M!ToSet
<1> QED BY <1>1, <1>2, <1>3 DEF b

(* A step of the walk that fetches no sitemap.                                *)
LEMMA AwaitInv ==
  ASSUME MapInv, NEW calls \in Seq(M!Call), NEW others \in Seq(Links),
         M!Await(calls, others), UNCHANGED <<seen, found, graph, rest, result, refused>>,
         M!ToSet(others) \subseteq M!Offered,
         fetched' \in Seq(M!Fetch), M!WalkBounded', Walks(fetched', seen),
         result = <<>>
  PROVE  MapInv'
<1>1. /\ todo' = calls /\ cands' = others /\ step' \in {"call", "probe", "seed"}
      /\ step' = "call" => calls # <<>>
      /\ step' = "probe" => others # <<>>
  BY DEF M!Await
<1>2. M!ToSet(cands)' \subseteq M!Offered'
  <2>1. M!ToSet(cands)' = M!ToSet(others)
    BY <1>1 DEF M!ToSet
  <2> QED BY <2>1 DEF M!Offered
<1>3. Walks(fetched, seen)'
  BY DEF Walks
<1> QED BY <1>1, <1>2, <1>3 DEF MapInv, M!TypeOK, M!PagesKept

(* A fetch is added to those that were made.                                  *)
LEMMA FetchAdds ==
  ASSUME MapInv, NEW reason \in {"probe", "walk"}, NEW call \in M!Call,
         call.depth <= MaxSitemapDepth, MaxSitemapDepth \in Nat, M!Fetches(reason, call)
  PROVE  LET last == Len(fetched) + 1
         IN  /\ fetched' \in Seq(M!Fetch) /\ last \notin DOMAIN fetched
             /\ DOMAIN fetched' = DOMAIN fetched \cup {last}
             /\ \A i \in DOMAIN fetched : fetched'[i] = fetched[i]
             /\ fetched'[last].by = reason /\ fetched'[last].url = call.url
             /\ fetched'[last].depth = call.depth /\ fetched'[last].had = Len(found)
<1> DEFINE entry == [by |-> reason, url |-> call.url, depth |-> call.depth, had |-> Len(found)]
<1>1. fetched \in Seq(M!Fetch) /\ found \in Seq(Links) /\ Len(found) \in Nat
  <2>1. fetched \in Seq(M!Fetch) /\ found \in Seq(Links)
    BY DEF MapInv, M!TypeOK
  <2> QED BY <2>1
<1>2. entry \in M!Fetch
  BY <1>1 DEF M!Call, M!Fetch
<1>3. /\ entry.by = reason /\ entry.url = call.url
      /\ entry.depth = call.depth /\ entry.had = Len(found)
  OBVIOUS
<1>4. fetched' = Append(fetched, entry)
  BY DEF M!Fetches
<1> HIDE DEF entry
<1> QED BY <1>1, <1>2, <1>3, <1>4

LEMMA CollectInv ==
  ASSUME M!ConstantsOK, MapInv, M!Collect
  PROVE  MapInv'
<1> DEFINE call == Head(todo)
<1>1. PICK doc \in Sitemap[call.url] \cup {[children |-> <<>>, pages |-> <<>>]} :
        found' = found \o doc.pages /\ M!Await(M!Below(call, doc.children) \o Tail(todo), cands)
  BY DEF M!Collect
<1>2. /\ todo \in Seq(M!Call) /\ todo # <<>>
      /\ seen' = seen \cup {call.url}
      /\ M!Fetches("walk", call)
      /\ UNCHANGED <<graph, rest, result, refused>> /\ result = <<>>
      /\ call.depth <= MaxSitemapDepth /\ call.url \notin seen /\ ~(Len(found) >= MaxUrls)
  <2>1. /\ step = "call" /\ ~M!Skipped(call)
        /\ seen' = seen \cup {call.url}
        /\ M!Fetches("walk", call)
        /\ UNCHANGED M!filter
    BY DEF M!Collect
  <2>2. todo \in Seq(M!Call) /\ todo # <<>>
    BY <2>1 DEF MapInv, M!TypeOK
  <2>3. call.depth \in 0..(MaxSitemapDepth + 1)
    <3>1. call \in M!Call
      BY <2>2, Elements
    <3> QED BY <3>1 DEF M!Call
  <2>4. call.depth <= MaxSitemapDepth /\ call.url \notin seen /\ ~(Len(found) >= MaxUrls)
    BY <2>1, <2>3 DEF M!Skipped, M!ConstantsOK
  <2>5. UNCHANGED <<graph, rest, result, refused>> /\ result = <<>>
    BY <2>1 DEF M!filter, MapInv
  <2> QED BY <2>1, <2>2, <2>4, <2>5
<1>3. call \in M!Call /\ Tail(todo) \in Seq(M!Call)
  BY <1>2, Elements
<1>4. call.url \in Links /\ call.depth \in Nat /\ call.depth + 1 \in 0..(MaxSitemapDepth + 1)
  BY <1>2, <1>3 DEF M!Call, M!ConstantsOK
<1>5. doc.children \in Seq(Links) /\ doc.pages \in Seq(Links)
  <2>1. [children |-> <<>>, pages |-> <<>>] \in M!Document
    BY DEF M!Document
  <2>2. doc \in M!Document
    BY <1>4, <2>1 DEF M!ConstantsOK
  <2> QED BY <2>2 DEF M!Document
<1>6. M!Below(call, doc.children) \in Seq(M!Call)
  <2> DEFINE n == IF Len(doc.children) < MaxChildren THEN Len(doc.children) ELSE MaxChildren
  <2>1. n \in Nat /\ \A i \in 1..n : doc.children[i] \in Links
    BY <1>5 DEF M!ConstantsOK
  <2>2. \A i \in 1..n : [url |-> doc.children[i], depth |-> call.depth + 1] \in M!Call
    BY <1>4, <2>1 DEF M!Call
  <2> HIDE DEF n
  <2>3. [i \in 1..n |-> [url |-> doc.children[i], depth |-> call.depth + 1]] \in Seq(M!Call)
    BY <2>1, <2>2
  <2> QED BY <2>3 DEF M!Below, n
<1> DEFINE calls == M!Below(call, doc.children) \o Tail(todo)
           last == Len(fetched) + 1
<1>7. calls \in Seq(M!Call)
  BY <1>3, <1>6, Concatenation
<1>8. found \in Seq(Links) /\ found' \in Seq(Links) /\ Len(found) \in Nat
  <2>1. found \in Seq(Links)
    BY DEF MapInv, M!TypeOK
  <2> QED BY <1>1, <1>5, <2>1, Concatenation
<1>9. /\ todo' = calls /\ cands' = cands /\ step' \in {"call", "probe", "seed"}
      /\ step' = "call" => calls # <<>>
      /\ step' = "probe" => cands # <<>>
  BY <1>1 DEF M!Await
<1>10. /\ fetched' \in Seq(M!Fetch) /\ last \notin DOMAIN fetched
       /\ DOMAIN fetched' = DOMAIN fetched \cup {last}
       /\ \A i \in DOMAIN fetched : fetched'[i] = fetched[i]
       /\ fetched'[last].by = "walk" /\ fetched'[last].url = call.url
       /\ fetched'[last].depth = call.depth /\ fetched'[last].had = Len(found)
  BY <1>2, <1>3, FetchAdds DEF M!ConstantsOK
<1>11. fetched'[last].had < MaxUrls /\ fetched'[last].depth <= MaxSitemapDepth
  BY <1>2, <1>8, <1>10 DEF M!ConstantsOK
<1> HIDE DEF call, calls, last
<1>12. M!TypeOK'
  BY <1>2, <1>4, <1>7, <1>8, <1>9, <1>10 DEF MapInv, M!TypeOK
<1>13. M!WalkBounded'
  <2>1. \A i \in DOMAIN fetched : fetched[i].by = "walk" => fetched[i].url # call.url
    BY <1>2 DEF MapInv, Walks
  <2>2. ASSUME NEW i \in DOMAIN fetched, fetched[i].by = "probe", fetched[i].url \in M!Offered
        PROVE  fetched'[i].by = "probe" /\ fetched'[i].url \in M!Offered'
    BY <1>10, <2>2 DEF M!Offered
  <2> QED BY <1>10, <1>11, <2>1, <2>2 DEF MapInv, M!WalkBounded
<1>14. Walks(fetched, seen)' /\ (M!ToSet(cands) \subseteq M!Offered)'
  <2>1. M!ToSet(cands)' = M!ToSet(cands) /\ M!Offered' = M!Offered
    BY <1>9 DEF M!Offered
  <2> QED BY <1>2, <1>10, <2>1 DEF MapInv, Walks
<1> QED BY <1>2, <1>9, <1>12, <1>13, <1>14 DEF MapInv, M!PagesKept

(* Nothing is fetched.                                                        *)
LEMMA WalkStays ==
  ASSUME MapInv, UNCHANGED <<cands, seen, fetched>>
  PROVE  M!WalkBounded' /\ Walks(fetched, seen)' /\ (M!ToSet(cands) \subseteq M!Offered)'
<1>1. M!Offered' = M!Offered /\ M!ToSet(cands)' = M!ToSet(cands)
  BY DEF M!Offered
<1> QED BY <1>1 DEF MapInv, Walks, M!WalkBounded

(* The loop at the end begins.                                                *)
LEMMA LinkGraphInv ==
  ASSUME M!ConstantsOK, MapInv, M!LinkGraph
  PROVE  MapInv'
<1> DEFINE one == <<Seed>>
<1>1. PICK list \in LinkLists \cup {<<>>} : graph' = list /\ rest' = one \o list \o found
  BY DEF M!LinkGraph
<1>2. /\ step' = "filter" /\ UNCHANGED <<todo, cands, seen, found, fetched, result, refused>>
      /\ result = <<>>
  BY DEF M!LinkGraph, M!site, MapInv
<1>3. one \in Seq(Links) /\ one # <<>> /\ Head(one) = Seed /\ M!ToSet(one) = {Seed}
  <2>1. one \in Seq(Links) /\ Len(one) = 1 /\ one[1] = Seed /\ Head(one) = Seed /\ one # <<>>
    BY DEF M!ConstantsOK
  <2> HIDE DEF one
  <2>2. DOMAIN one = {1}
    BY <2>1
  <2>3. M!ToSet(one) = {Seed}
    BY <2>1, <2>2 DEF M!ToSet
  <2> QED BY <2>1, <2>3
<1> HIDE DEF one
<1>4. list \in Seq(Links) /\ found \in Seq(Links)
  <2>1. <<>> \in Seq(Links)
    OBVIOUS
  <2> QED BY <2>1 DEF M!ConstantsOK, MapInv, M!TypeOK
<1> DEFINE two == one \o list
<1>5. two \in Seq(Links) /\ M!ToSet(two) = {Seed} \cup M!ToSet(list)
  BY <1>3, <1>4, Concatenation
<1>6. /\ rest' \in Seq(Links) /\ rest' # <<>> /\ Head(rest') = Seed
      /\ M!ToSet(rest') = {Seed} \cup M!ToSet(list) \cup M!ToSet(found)
  <2>1. Len(one) \in Nat \ {0} /\ Head(one) = one[1]
    BY <1>3
  <2>2. /\ Len(two) = Len(one) + Len(list) /\ two[1] = one[1]
    BY <1>3, <1>4, <2>1
  <2> HIDE DEF two
  <2>3. rest' = two \o found
    BY <1>1 DEF two
  <2>4. /\ rest' \in Seq(Links) /\ M!ToSet(rest') = M!ToSet(two) \cup M!ToSet(found)
        /\ Len(rest') = Len(two) + Len(found) /\ rest'[1] = two[1]
    <3>1. /\ two \o found \in Seq(Links)
          /\ M!ToSet(two \o found) = M!ToSet(two) \cup M!ToSet(found)
      BY <1>4, <1>5, Concatenation
    <3>2. /\ Len(two \o found) = Len(two) + Len(found) /\ (two \o found)[1] = two[1]
      BY <1>4, <1>5, <2>1, <2>2
    <3> QED BY <2>3, <3>1, <3>2
  <2>5. rest' # <<>> /\ Head(rest') = rest'[1]
    BY <1>4, <2>1, <2>2, <2>4
  <2> QED BY <1>3, <1>5, <2>1, <2>2, <2>4, <2>5
<1>7. Wanted' = {Bare[u] : u \in M!ToSet(rest')}
  <2>1. M!ToSet(graph') = M!ToSet(list) /\ M!ToSet(found') = M!ToSet(found)
    BY <1>1, <1>2
  <2>2. Wanted' = {Bare[u] : u \in {Seed} \cup M!ToSet(graph') \cup M!ToSet(found')}
    BY DEF Wanted, M!ToSet
  <2> QED BY <1>6, <2>1, <2>2
<1>8. M!ToSet(<<>>) = {} /\ M!IsInjective(<<>>) /\ Len(<<>>) = 0
  BY DEF M!ToSet, M!IsInjective
<1>9. Filtering'
  BY <1>2, <1>6, <1>7, <1>8 DEF Filtering, Fit, M!ConstantsOK, M!ToSet, M!IsInjective
<1>10. M!TypeOK'
  BY <1>1, <1>2, <1>4, <1>6 DEF MapInv, M!TypeOK
<1>11. M!WalkBounded' /\ Walks(fetched, seen)' /\ (M!ToSet(cands) \subseteq M!Offered)'
  BY <1>2, WalkStays
<1> QED BY <1>2, <1>9, <1>10, <1>11 DEF MapInv, M!PagesKept

(* A round of it: the URL looked at goes into the result, or need not.        *)
LEMMA FilterInv ==
  ASSUME M!ConstantsOK, MapInv, M!Filter
  PROVE  MapInv'
<1> DEFINE h == Head(rest)
           u == Bare[h]
<1>1. /\ Filtering /\ rest \in Seq(Links) /\ result \in Seq(Links)
      /\ rest' = Tail(rest) /\ UNCHANGED <<todo, cands, seen, found, fetched, graph>>
      /\ \/ M!Keep(u) /\ result' = Append(result, u) /\ refused' = refused
         \/ M!Keep(u) /\ refused' = refused \cup {u} /\ result' = result
         \/ ~M!Keep(u) /\ refused' = refused /\ result' = result
      /\ step' = IF rest' = <<>> \/ Len(result') >= MaxUrls THEN "done" ELSE "filter"
      /\ MaxUrls \in Nat \ {0}
  BY DEF M!Filter, M!site, MapInv, M!TypeOK, M!ConstantsOK
<1>2. /\ h \in Links /\ rest' \in Seq(Links)
      /\ M!ToSet(rest) = {h} \cup M!ToSet(rest')
  BY <1>1, Elements DEF Filtering
<1>3. u \in Links /\ u \in Wanted
  BY <1>1, <1>2 DEF Filtering, M!ConstantsOK
<1>4. Wanted' = Wanted
  BY <1>1 DEF Wanted, M!ToSet
<1>5. \A v : Fit(v)' = Fit(v)
  BY DEF Fit
<1>6. result = <<>> /\ Bare[Seed] \notin refused => M!Keep(u) /\ u = Bare[Seed]
  <2>1. ASSUME result = <<>>, Bare[Seed] \notin refused PROVE u = Bare[Seed]
    BY <1>1, <2>1 DEF Filtering
  <2>2. M!ToSet(<<>>) = {}
    BY DEF M!ToSet
  <2> QED BY <2>1, <2>2 DEF M!Keep, M!ConstantsOK
<1> HIDE DEF h, u
<1>7. /\ result' \in Seq(Links)
      /\ M!ToSet(result') = IF result' = result THEN M!ToSet(result)
                                               ELSE M!ToSet(result) \cup {u}
      /\ result' # result => M!Keep(u)
      /\ Bare[Seed] \notin refused' => result' # <<>> /\ result'[1] = Bare[Seed]
      /\ M!IsInjective(result')
      /\ Len(result') <= MaxUrls
  <2>1. Len(result) \in Nat /\ Len(result) < MaxUrls
    BY <1>1 DEF Filtering
  <2>2. CASE M!Keep(u) /\ result' = Append(result, u) /\ refused' = refused
    <3>1. u \notin M!ToSet(result)
      BY <2>2 DEF M!Keep
    <3>2. /\ result' \in Seq(Links) /\ M!ToSet(result') = M!ToSet(result) \cup {u}
          /\ result' # <<>> /\ result'[1] = (IF result = <<>> THEN u ELSE result[1])
          /\ Len(result') = Len(result) + 1
          /\ M!IsInjective(result) => M!IsInjective(result')
      BY <1>1, <1>3, <2>2, <3>1, Elements
    <3>3. result' # result
      BY <2>1, <3>2
    <3> QED BY <1>1, <1>6, <2>1, <2>2, <3>2, <3>3 DEF Filtering
  <2>3. CASE result' = result /\ refused' = refused /\ ~M!Keep(u)
    BY <1>1, <1>6, <2>1, <2>3 DEF Filtering
  <2>4. CASE result' = result /\ refused' = refused \cup {u}
    BY <1>1, <1>6, <2>1, <2>4 DEF Filtering
  <2> QED BY <1>1, <2>2, <2>3, <2>4
<1>8. \A v \in M!ToSet(result') : v \in Wanted /\ Fit(v)
  BY <1>1, <1>3, <1>7 DEF Filtering, M!Keep, Fit
<1>9. \A v \in Wanted : Fit(v) =>
        v \in M!ToSet(result') \cup refused' \/ \E x \in M!ToSet(rest') : Bare[x] = v
  <2> SUFFICES ASSUME NEW v \in Wanted, Fit(v), v \notin M!ToSet(result') \cup refused'
               PROVE  \E x \in M!ToSet(rest') : Bare[x] = v
    OBVIOUS
  <2>1. v \notin M!ToSet(result) \cup refused
    BY <1>1, <1>7
  <2>2. PICK x \in M!ToSet(rest) : Bare[x] = v
    BY <1>1, <2>1 DEF Filtering
  <2>3. x # h
    <3>1. CASE result' # result
      BY <1>7, <2>2, <3>1 DEF u
    <3>2. CASE refused' = refused \cup {u}
      BY <2>2, <3>2 DEF u
    <3>3. CASE ~M!Keep(u)
      BY <2>1, <2>2, <3>3 DEF M!Keep, Fit, u
    <3>4. M!Keep(u) /\ result' = Append(result, u) => result' # result
      BY <1>1, <1>3, Elements DEF M!Keep
    <3> QED BY <1>1, <3>1, <3>2, <3>3, <3>4
  <2> QED BY <1>2, <2>2, <2>3
<1>10. \A x \in M!ToSet(rest') : Bare[x] \in Wanted
  BY <1>1, <1>2 DEF Filtering
<1>11. M!TypeOK'
  <2>1. refused' \subseteq Links
    BY <1>1, <1>3 DEF MapInv, M!TypeOK
  <2> QED BY <1>1, <1>2, <1>7, <2>1 DEF MapInv, M!TypeOK
<1>12. M!WalkBounded' /\ Walks(fetched, seen)' /\ (M!ToSet(cands) \subseteq M!Offered)'
  BY <1>1, WalkStays
<1>13. CASE step' = "filter"
  <2>1. rest' # <<>> /\ Len(result') < MaxUrls
    BY <1>1, <1>7, <1>13
  <2>2. Filtering'
    <3>1. \A v \in M!ToSet(result') : v \in Wanted' /\ Fit(v)
      BY <1>4, <1>8
    <3>2. \A v \in Wanted' : Fit(v) =>
            v \in M!ToSet(result') \cup refused' \/ \E x \in M!ToSet(rest') : Bare[x] = v
      BY <1>4, <1>9
    <3>3. \A x \in M!ToSet(rest') : Bare[x] \in Wanted'
      BY <1>4, <1>10
    <3> QED BY <1>7, <2>1, <3>1, <3>2, <3>3 DEF Filtering, Fit, M!ToSet, M!IsInjective
  <2> QED BY <1>11, <1>12, <1>13, <2>2 DEF MapInv, M!PagesKept
<1>14. CASE step' = "done"
  <2>1. Len(result') = MaxUrls \/ M!ToSet(rest') = {}
    <3>1. CASE rest' = <<>>
      BY <3>1 DEF M!ToSet
    <3>2. CASE rest' # <<>>
      <4>1. Len(result') >= MaxUrls /\ Len(result') \in Nat
        BY <1>1, <1>7, <1>14, <3>2
      <4> QED BY <1>1, <1>7, <4>1
    <3> QED BY <3>1, <3>2
  <2>2. M!PagesKept'
    <3>1. \A v \in M!ToSet(result') : v \in Wanted' /\ Site[v] = Site[Seed]
      BY <1>4, <1>8 DEF Fit
    <3>2. \/ Len(result') = MaxUrls
          \/ \A v \in Wanted' : M!SameOrigin(v) /\ v \notin refused' => v \in M!ToSet(result')
      BY <1>4, <1>9, <2>1 DEF Fit, M!SameOrigin
    <3> QED BY <1>7, <3>1, <3>2
         DEF M!PagesKept, Wanted, M!ToSet, M!IsInjective, M!SameOrigin
  <2> QED BY <1>11, <1>12, <1>14, <2>2 DEF MapInv
<1> QED BY <1>1, <1>13, <1>14

LEMMA MapStep ==
  ASSUME M!ConstantsOK, MapInv, [M!Next]_(M!vars)
  PROVE  MapInv'
<1> USE DEF M!site, M!filter
<1>0. <<>> \in Seq(M!Call) /\ <<>> \in Seq(Links)
  OBVIOUS
<1>1. CASE M!Validate \/ M!Reject
  <2>1. M!WalkBounded' /\ Walks(fetched, seen)' /\ (M!ToSet(cands) \subseteq M!Offered)'
    BY <1>1, WalkStays DEF M!Validate, M!Reject
  <2> QED BY <1>1, <2>1 DEF M!Validate, M!Reject, MapInv, M!TypeOK, M!PagesKept
<1>2. CASE M!Robots
  <2>1. PICK list \in Listed \cup {<<>>} : M!Await(<<>>, Candidates \o list)
    BY <1>2 DEF M!Robots
  <2>2. Candidates \o list \in Seq(Links)
    BY <1>0, Concatenation DEF M!ConstantsOK
  <2>3. result = <<>> /\ UNCHANGED <<seen, found, fetched, graph, rest, result, refused>>
    BY <1>2 DEF M!Robots, MapInv
  <2>4. M!ToSet(Candidates \o list) \subseteq M!Offered
    <3>1. M!ToSet(Candidates \o list) = M!ToSet(Candidates) \cup M!ToSet(list)
      <4>1. Candidates \in Seq(Links) /\ list \in Seq(Links)
        BY <1>0 DEF M!ConstantsOK
      <4> QED BY <4>1, Concatenation
    <3>2. M!ToSet(<<>>) = {}
      BY DEF M!ToSet
    <3> QED BY <3>1, <3>2 DEF M!Offered
  <2>5. fetched' \in Seq(M!Fetch) /\ M!WalkBounded' /\ Walks(fetched', seen)
    BY <2>3 DEF MapInv, M!TypeOK, M!WalkBounded, M!Offered
  <2> QED BY <1>0, <2>1, <2>2, <2>3, <2>4, <2>5, AwaitInv
<1>3. CASE M!Probe
  <2> DEFINE call == [url |-> Head(cands), depth |-> 0]
             last == Len(fetched) + 1
  <2>1. cands \in Seq(Links) /\ cands # <<>>
    BY <1>3 DEF M!Probe, MapInv, M!TypeOK
  <2>2. /\ Head(cands) \in Links /\ Tail(cands) \in Seq(Links)
        /\ M!ToSet(cands) = {Head(cands)} \cup M!ToSet(Tail(cands))
    BY <2>1, Elements
  <2>3. /\ call \in M!Call /\ call.url = Head(cands)
        /\ call.depth <= MaxSitemapDepth /\ MaxSitemapDepth \in Nat
    BY <2>2 DEF M!Call, M!ConstantsOK
  <2>4. result = <<>> /\ UNCHANGED <<seen, found, graph, rest, result, refused>>
    BY <1>3 DEF M!Probe, MapInv
  <2>5. /\ M!Fetches("probe", call)
        /\ M!Await(<<>>, Tail(cands)) \/ M!Await(<<call>>, Tail(cands))
    BY <1>3 DEF M!Probe
  <2> HIDE DEF call
  <2>6. <<call>> \in Seq(M!Call)
    BY <2>3
  <2>7. M!ToSet(Tail(cands)) \subseteq M!Offered /\ call.url \in M!Offered
    BY <2>2, <2>3 DEF MapInv
  <2>8. /\ fetched' \in Seq(M!Fetch) /\ last \notin DOMAIN fetched
        /\ DOMAIN fetched' = DOMAIN fetched \cup {last}
        /\ \A i \in DOMAIN fetched : fetched'[i] = fetched[i]
        /\ fetched'[last].by = "probe" /\ fetched'[last].url = call.url
    BY <2>3, <2>5, FetchAdds
  <2> HIDE DEF last
  <2>9. M!WalkBounded' /\ Walks(fetched', seen)
    <3>1. M!Offered' = M!Offered
      BY DEF M!Offered
    <3> QED BY <2>7, <2>8, <3>1 DEF MapInv, M!WalkBounded, Walks
  <2> QED BY <1>0, <2>2, <2>4, <2>5, <2>6, <2>7, <2>8, <2>9, AwaitInv
<1>4. CASE M!Skip
  <2>1. todo \in Seq(M!Call) /\ todo # <<>> /\ cands \in Seq(Links)
    BY <1>4 DEF M!Skip, MapInv, M!TypeOK
  <2>2. Tail(todo) \in Seq(M!Call)
    BY <2>1, Elements
  <2>3. /\ M!Await(Tail(todo), cands)
        /\ result = <<>> /\ UNCHANGED <<seen, found, fetched, graph, rest, result, refused>>
    BY <1>4 DEF M!Skip, MapInv
  <2>4. /\ fetched' \in Seq(M!Fetch) /\ M!WalkBounded' /\ Walks(fetched', seen)
        /\ M!ToSet(cands) \subseteq M!Offered
    BY <2>3 DEF MapInv, M!TypeOK, M!WalkBounded, M!Offered
  <2> QED BY <2>1, <2>2, <2>3, <2>4, AwaitInv
<1>5. CASE UNCHANGED M!vars
  <2>1. UNCHANGED <<todo, cands, seen, found, fetched, graph, rest, result, refused, step>>
    BY <1>5 DEF M!vars
  <2>2. /\ M!TypeOK' /\ M!WalkBounded' /\ Walks(fetched, seen)'
        /\ (M!ToSet(cands) \subseteq M!Offered)'
    BY <2>1, WalkStays DEF MapInv, M!TypeOK
  <2>3. /\ Wanted' = Wanted /\ M!ToSet(result)' = M!ToSet(result)
        /\ M!ToSet(rest)' = M!ToSet(rest) /\ M!IsInjective(result)' = M!IsInjective(result)
    BY <2>1 DEF Wanted
  <2>4. M!PagesKept'
    BY <2>1 DEF MapInv, M!PagesKept, M!SameOrigin
  <2>5. Filtering' = Filtering
    BY <2>1, <2>3 DEF Filtering, Fit
  <2> QED BY <2>1, <2>2, <2>4, <2>5 DEF MapInv
<1> QED
  BY <1>1, <1>2, <1>3, <1>4, <1>5, CollectInv, LinkGraphInv, FilterInv DEF M!Next
-----------------------------------------------------------------------------
(* RobotsRules: a robots.txt, read line by line, is understood as a whole.    *)

LEMMA LeastNat ==
  ASSUME NEW S \in SUBSET Nat, S # {}
  PROVE  \E m \in S : \A n \in S : m <= n
<1>1. PICK m \in S : \A n \in S : <<n, m>> \notin OpToRel(<, Nat)
  BY WFMin, NatLessThanWellFounded, Zenon
<1>2. \A n \in S : ~(n < m)
  BY <1>1, Zenon DEF OpToRel
<1> QED BY <1>2

(* Of finitely many numbers one is largest.                                   *)
LEMMA Largest ==
  ASSUME NEW N \in Nat, NEW I \in SUBSET (1..N), I # {}, NEW size \in [I -> Nat]
  PROVE  \E i \in I : \A j \in I : size[j] <= size[i]
<1> DEFINE upto(n) == I \cap (1..n)
           bad == {n \in 0..N : upto(n) # {} /\ \A i \in upto(n) : \E j \in upto(n) : size[j] > size[i]}
<1>1. SUFFICES bad = {}
  <2>1. I = upto(N)
    <3>1. I \subseteq upto(N) /\ upto(N) \subseteq I
      OBVIOUS
    <3> HIDE DEF bad, upto
    <3> QED BY <3>1, Zenon
  <2>2. N \notin bad
    BY <1>1
  <2>3. ~\A i \in I : \E j \in I : size[j] > size[i]
    BY <2>1, <2>2
  <2> QED BY <2>3
<1>2. SUFFICES ASSUME bad # {} PROVE FALSE
  OBVIOUS
<1>3. PICK n \in bad : \A m \in bad : n <= m
  <2>1. bad \in SUBSET Nat
    OBVIOUS
  <2> QED BY <1>2, <2>1, LeastNat
<1>4. n \in 1..N /\ n - 1 \in 0..N /\ n - 1 \notin bad
  BY <1>3
<1>5. upto(n) = upto(n - 1) \cup (I \cap {n})
  BY <1>4
<1>6. CASE upto(n - 1) = {}
  BY <1>3, <1>4, <1>5, <1>6
<1>7. CASE upto(n - 1) # {}
  <2>1. PICK i \in upto(n - 1) : \A j \in upto(n - 1) : size[j] <= size[i]
    BY <1>4, <1>7
  <2> QED BY <1>3, <1>4, <1>5, <2>1
<1> QED BY <1>6, <1>7

(* The names a rule that came next would belong to.                           *)
Open ==
  {j \in DOMAIN file : ~R!IsRule(j) /\
     ~\E k, l \in j..Len(file) : k < l /\ R!IsRule(k) /\ ~R!IsRule(l)}

RulesUnder(names) == {i \in DOMAIN file : R!IsRule(i) /\ R!NamesOf(i) = names}
ValuesAt(lines) == {file[i].value : i \in lines}
In(lines) == {lines[i] : i \in DOMAIN lines}

(* by says, of a group that was read, which lines of the file name it.       *)
Groups(by) ==
  /\ by \in [DOMAIN R!Flushed -> SUBSET (DOMAIN file)]
  /\ \A g \in DOMAIN by :
       /\ RulesUnder(by[g]) # {} /\ by[g] # {}
       /\ R!Flushed[g].names = ValuesAt(by[g])
       /\ In(R!Flushed[g].lines) = {file[i] : i \in RulesUnder(by[g])}
  /\ \A g, h \in DOMAIN by : g < h =>
       \A i \in RulesUnder(by[g]), j \in RulesUnder(by[h]) : i < j
  /\ \A i \in DOMAIN file : R!IsRule(i) /\ R!NamesOf(i) # {} =>
       \E g \in DOMAIN by : R!NamesOf(i) = by[g]

Understood ==
  /\ agents = ValuesAt(Open)
  /\ group = <<>> => \A j \in Open : \A k \in j..Len(file) : ~R!IsRule(k)
  /\ group # <<>> => Len(file) # 0 /\ R!IsRule(Len(file))
  /\ \E by : Groups(by) /\ (group # <<>> => by[Len(R!Flushed)] = Open)

Valued == \A i \in DOMAIN file : file[i].value # ""

RulesTyped ==
  /\ file \in Seq(R!Lines) /\ group \in Seq(R!Lines)
  /\ agents \subseteq Agents
  /\ rules \in Seq([names : SUBSET Agents, lines : Seq(R!Lines)])
  /\ \A i \in DOMAIN rules : rules[i].names # {} /\ rules[i].lines # <<>>
  /\ group # <<>> => agents # {}

RulesInv == RulesTyped /\ (Valued => Understood)

LEMMA RulesInit == ASSUME R!Init PROVE RulesInv
<1>1. file = <<>> /\ rules = <<>> /\ agents = {} /\ group = <<>>
  BY DEF R!Init
<1>2. \A S : <<>> \in Seq(S)
  OBVIOUS
<1>3. DOMAIN file = {} /\ DOMAIN rules = {} /\ Open = {} /\ R!Flushed = <<>>
  BY <1>1 DEF Open, R!Flushed
<1>4. RulesTyped
  BY <1>1, <1>2, <1>3 DEF RulesTyped
<1>5. Groups([g \in {} |-> {}])
  BY <1>1, <1>3 DEF Groups
<1> QED BY <1>1, <1>3, <1>4, <1>5 DEF RulesInv, Understood, ValuesAt

(* A line more does not change what earlier lines mean.                       *)
LEMMA OneLine ==
  ASSUME RulesTyped, NEW line \in R!Lines, file' = Append(file, line),
         NEW n, n = Len(file')
  PROVE  /\ n \in Nat \ {0} /\ Len(file) = n - 1
         /\ DOMAIN file = 1..(n - 1) /\ DOMAIN file' = 1..n
         /\ file'[n] = line
         /\ \A i \in DOMAIN file : file'[i] = file[i]
         /\ R!IsRule(n)' <=> line.field # "agent"
         /\ \A i \in DOMAIN file :
              (R!IsRule(i)' <=> R!IsRule(i)) /\ R!NamesOf(i)' = R!NamesOf(i)
<1>1. /\ n \in Nat \ {0} /\ Len(file) = n - 1
      /\ DOMAIN file = 1..(n - 1) /\ DOMAIN file' = 1..n
      /\ file'[n] = line
      /\ \A i \in DOMAIN file : file'[i] = file[i]
  BY DEF RulesTyped
<1>2. R!IsRule(n)' <=> line.field # "agent"
  BY <1>1 DEF R!IsRule
<1>3. \A i \in 1..(n - 1) : R!IsRule(i)' <=> R!IsRule(i)
  BY <1>1 DEF R!IsRule
<1>4. \A i \in 1..(n - 1) : R!NamesOf(i)' = R!NamesOf(i)
  <2> TAKE i \in 1..(n - 1)
  <2>1. \A j \in 1..(i - 1) : j..i \subseteq 1..(n - 1) /\ j \in 1..(n - 1)
    BY <1>1
  <2> QED BY <1>1, <1>3, <2>1 DEF R!NamesOf
<1> QED BY <1>1, <1>2, <1>3, <1>4

LEMMA OpenAfter ==
  ASSUME RulesTyped, Understood, NEW line \in R!Lines, file' = Append(file, line),
         NEW n, n = Len(file')
  PROVE  /\ line.field # "agent" => Open' = Open /\ R!NamesOf(n)' = Open
         /\ line.field = "agent" => Open' = {n} \cup (IF group = <<>> THEN Open ELSE {})
<1>1. /\ n \in Nat \ {0} /\ Len(file) = n - 1
      /\ DOMAIN file = 1..(n - 1) /\ DOMAIN file' = 1..n
      /\ R!IsRule(n)' <=> line.field # "agent"
      /\ \A i \in DOMAIN file : R!IsRule(i)' <=> R!IsRule(i)
  BY OneLine
<1> DEFINE parted(j) == \E k, l \in j..(n - 1) : k < l /\ R!IsRule(k) /\ ~R!IsRule(l)
           partedNow(j) == \E k, l \in j..n : k < l /\ R!IsRule(k)' /\ ~R!IsRule(l)'
<1>2. Open = {j \in 1..(n - 1) : ~R!IsRule(j) /\ ~parted(j)}
  BY <1>1 DEF Open
<1>3. Open' = {j \in 1..n : ~R!IsRule(j)' /\ ~partedNow(j)}
  BY <1>1 DEF Open
<1>4. CASE line.field # "agent"
  <2>1. \A j \in 1..(n - 1) : partedNow(j) <=> parted(j)
    <3> TAKE j \in 1..(n - 1)
    <3>1. ASSUME NEW k \in j..n, NEW l \in j..n, k < l, ~R!IsRule(l)'
          PROVE  k \in j..(n - 1) /\ l \in j..(n - 1)
      BY <1>1, <1>4, <3>1
    <3>2. \A k \in j..(n - 1) : k \in j..n /\ k \in DOMAIN file
      BY <1>1
    <3> QED BY <1>1, <3>1, <3>2
  <2>2. Open' = Open
    <3> HIDE DEF parted, partedNow
    <3>1. \A j : j \in Open' <=> j \in Open
      BY <1>1, <1>2, <1>3, <1>4, <2>1
    <3> QED BY <3>1
  <2>3. R!NamesOf(n)' = {j \in 1..(n - 1) : ~R!IsRule(j)' /\ ~partedNow(j)}
    BY DEF R!NamesOf
  <2>4. R!NamesOf(n)' = Open
    <3> HIDE DEF parted, partedNow
    <3> QED BY <1>1, <1>2, <2>1, <2>3
  <2> QED BY <1>4, <2>2, <2>4
<1>5. CASE line.field = "agent"
  <2>1. n \in Open'
    BY <1>1, <1>3, <1>5
  <2>2. CASE group = <<>>
    <3>1. ASSUME NEW j \in Open PROVE j \in Open'
      <4>1. \A k \in j..(n - 1) : ~R!IsRule(k)'
        BY <1>1, <1>2, <2>2 DEF Understood
      <4> QED BY <1>1, <1>2, <1>3, <4>1
    <3>2. ASSUME NEW j \in Open', j # n PROVE j \in Open
      <4>1. j \in 1..(n - 1) /\ ~R!IsRule(j)
        BY <1>1, <1>3, <3>2
      <4>2. ~parted(j)
        <5>1. \A k \in j..(n - 1) : k \in j..n /\ k \in DOMAIN file
          BY <1>1, <4>1
        <5> QED BY <1>1, <1>3, <3>2, <5>1
      <4> HIDE DEF parted
      <4> QED BY <1>2, <4>1, <4>2
    <3> QED BY <1>5, <2>1, <2>2, <3>1, <3>2
  <2>3. CASE group # <<>>
    <3>1. n - 1 \in 1..n /\ R!IsRule(n - 1)'
      BY <1>1, <2>3 DEF Understood
    <3>2. ASSUME NEW j \in Open' PROVE j = n
      BY <1>1, <1>3, <1>5, <3>1
    <3> QED BY <1>5, <2>1, <2>3, <3>2
  <2> QED BY <2>2, <2>3
<1> QED BY <1>4, <1>5

(* A group keeps its lines when others are read.                              *)
LEMMA AgentRead ==
  ASSUME RulesTyped, Understood, NEW line \in R!Lines, R!Read(line), line.field = "agent",
         Valued', NEW n, n = Len(file')
  PROVE  Understood'
<1>1. /\ file' = Append(file, line) /\ rules' = R!Flushed /\ group' = <<>>
      /\ agents' = (IF group = <<>> THEN agents ELSE {}) \cup {line.value}
  <2>1. file' = Append(file, line)
    BY DEF R!Read
  <2>2. file'[n] = line /\ n \in DOMAIN file'
    BY <2>1, OneLine
  <2>3. {line.value} \ {""} = {line.value}
    BY <2>2, Zenon DEF Valued
  <2> QED BY <2>1, <2>3, Zenon DEF R!Read
<1>10. file'[n] = line /\ \A i \in DOMAIN file : file'[i] = file[i]
  BY <1>1, OneLine
<1>2. /\ n \in Nat \ {0} /\ Len(file) = n - 1
      /\ DOMAIN file = 1..(n - 1) /\ DOMAIN file' = 1..n
      /\ ~R!IsRule(n)'
      /\ \A i \in DOMAIN file :
           (R!IsRule(i)' <=> R!IsRule(i)) /\ R!NamesOf(i)' = R!NamesOf(i)
  BY <1>1, OneLine
<1>3. Open' = {n} \cup (IF group = <<>> THEN Open ELSE {})
  BY <1>1, OpenAfter
<1>4. agents' = ValuesAt(Open)'
  <2>1. ValuesAt(Open)' = {file'[i].value : i \in Open'}
    BY DEF ValuesAt
  <2>2. \A i \in Open : i \in DOMAIN file /\ file'[i] = file[i]
    BY <1>10 DEF Open
  <2>3. agents = {file[i].value : i \in Open}
    BY DEF Understood, ValuesAt
  <2>4. CASE group = <<>>
    <3>1. ValuesAt(Open)' = {file'[n].value} \cup {file'[i].value : i \in Open}
      BY <1>3, <2>1, <2>4
    <3>2. {file'[i].value : i \in Open} = {file[i].value : i \in Open}
      BY <2>2
    <3> QED BY <1>1, <1>10, <2>3, <2>4, <3>1, <3>2
  <2>5. CASE group # <<>>
    BY <1>1, <1>3, <1>10, <2>1, <2>5
  <2> QED BY <2>4, <2>5
<1>5. \A j \in Open' : \A k \in j..n : ~R!IsRule(k)'
  <2> TAKE j \in Open'
  <2> TAKE k \in j..n
  <2>1. CASE k = n
    BY <1>2, <2>1
  <2>2. CASE k # n
    <3>1. group = <<>> /\ j \in Open
      BY <1>2, <1>3, <2>2
    <3>2. j \in 1..(n - 1)
      BY <1>2, <3>1 DEF Open
    <3>3. k \in j..(n - 1) /\ k \in 1..(n - 1)
      BY <1>2, <2>2, <3>2
    <3>4. ~R!IsRule(k)
      BY <1>2, <3>1, <3>3 DEF Understood
    <3> QED BY <1>2, <3>3, <3>4
  <2> QED BY <2>1, <2>2
<1>6. PICK by : Groups(by)
  BY DEF Understood
<1>7. R!Flushed' = R!Flushed
  BY <1>1 DEF R!Flushed
<1>8. \A names : RulesUnder(names)' = RulesUnder(names) /\ RulesUnder(names) \subseteq DOMAIN file
  <2> TAKE names
  <2>1. /\ RulesUnder(names) = {i \in 1..(n - 1) : R!IsRule(i) /\ R!NamesOf(i) = names}
        /\ RulesUnder(names)' = {i \in 1..n : R!IsRule(i)' /\ R!NamesOf(i)' = names}
    BY <1>2 DEF RulesUnder
  <2>2. \A i : i \in 1..n /\ R!IsRule(i)' <=> i \in 1..(n - 1) /\ R!IsRule(i)
    <3>1. \A i : i \in 1..n <=> i \in 1..(n - 1) \/ i = n
      BY <1>2
    <3>2. n \notin 1..(n - 1)
      BY <1>2
    <3> QED BY <1>2, <3>1, <3>2
  <2>3. \A i \in 1..(n - 1) : R!NamesOf(i)' = R!NamesOf(i)
    BY <1>2
  <2> QED BY <1>2, <2>1, <2>2, <2>3
<1>9. Groups(by)'
  <2>1. by \in [DOMAIN R!Flushed' -> SUBSET (DOMAIN file')]
    <3>1. DOMAIN file \subseteq DOMAIN file'
      BY <1>2
    <3>2. SUBSET (DOMAIN file) \subseteq SUBSET (DOMAIN file')
      BY <3>1
    <3>3. by \in [DOMAIN R!Flushed -> SUBSET (DOMAIN file)]
      BY <1>6 DEF Groups
    <3> QED BY <1>7, <3>2, <3>3
  <2>2. ASSUME NEW g \in DOMAIN by
        PROVE  /\ RulesUnder(by[g])' # {} /\ by[g] # {}
               /\ R!Flushed'[g].names = ValuesAt(by[g])'
               /\ In(R!Flushed[g].lines) = {file'[i] : i \in RulesUnder(by[g])'}
    <3>1. by[g] \subseteq DOMAIN file
      BY <1>6 DEF Groups
    <3>2. ValuesAt(by[g])' = ValuesAt(by[g])
      BY <1>10, <3>1 DEF ValuesAt
    <3>3. {file'[i] : i \in RulesUnder(by[g])'} = {file[i] : i \in RulesUnder(by[g])}
      BY <1>8, <1>10
    <3> QED BY <1>6, <1>7, <1>8, <3>2, <3>3 DEF Groups
  <2>3. \A g, h \in DOMAIN by : g < h =>
          \A i \in RulesUnder(by[g])', j \in RulesUnder(by[h])' : i < j
    BY <1>6, <1>8 DEF Groups
  <2>4. \A i \in DOMAIN file' : R!IsRule(i)' /\ R!NamesOf(i)' # {} =>
          \E g \in DOMAIN by : R!NamesOf(i)' = by[g]
    <3> SUFFICES ASSUME NEW i \in DOMAIN file', R!IsRule(i)', R!NamesOf(i)' # {}
                 PROVE  \E g \in DOMAIN by : R!NamesOf(i)' = by[g]
      OBVIOUS
    <3>1. i \in DOMAIN file
      <4>1. i # n
        BY <1>2
      <4> QED BY <1>2, <4>1
    <3>2. R!IsRule(i) /\ R!NamesOf(i)' = R!NamesOf(i)
      BY <1>2, <3>1
    <3> QED BY <1>6, <3>1, <3>2 DEF Groups
  <2>5. \A g \in DOMAIN by : In(R!Flushed[g].lines) = In(R!Flushed[g].lines)'
    BY <1>7 DEF In
  <2> QED BY <1>7, <2>1, <2>2, <2>3, <2>4, <2>5 DEF Groups
<1> QED BY <1>1, <1>4, <1>5, <1>9 DEF Understood

(* A rule joins the group being read, or begins the next.                     *)
LEMMA RuleRead ==
  ASSUME RulesTyped, Understood, NEW line \in R!Lines, R!Read(line), line.field # "agent",
         Valued', NEW n, n = Len(file')
  PROVE  Understood'
<1>1. /\ file' = Append(file, line) /\ rules' = rules /\ agents' = agents
      /\ group' = IF agents = {} THEN group ELSE Append(group, line)
  <2>1. file' = Append(file, line)
    BY DEF R!Read
  <2>2. file'[n] = line /\ n \in DOMAIN file'
    BY <2>1, OneLine
  <2>3. line.value # ""
    BY <2>2, Zenon DEF Valued
  <2> QED BY <2>1, <2>3, Zenon DEF R!Read
<1>2. /\ n \in Nat \ {0} /\ Len(file) = n - 1
      /\ DOMAIN file = 1..(n - 1) /\ DOMAIN file' = 1..n
      /\ R!IsRule(n)'
      /\ \A i \in DOMAIN file :
           (R!IsRule(i)' <=> R!IsRule(i)) /\ R!NamesOf(i)' = R!NamesOf(i)
  BY <1>1, OneLine
<1>3. file'[n] = line /\ \A i \in DOMAIN file : file'[i] = file[i]
  BY <1>1, OneLine
<1>4. Open' = Open /\ R!NamesOf(n)' = Open /\ Open \subseteq DOMAIN file
  BY <1>1, OpenAfter DEF Open
<1>5. \A S \in SUBSET DOMAIN file : ValuesAt(S)' = ValuesAt(S)
  BY <1>3 DEF ValuesAt
<1>6. agents' = ValuesAt(Open)'
  BY <1>1, <1>4, <1>5 DEF Understood
<1>7. agents = {} <=> Open = {}
  BY DEF Understood, ValuesAt
<1>8. PICK by : Groups(by) /\ (group # <<>> => by[Len(R!Flushed)] = Open)
  BY DEF Understood
<1>9. \A names : /\ RulesUnder(names) \subseteq DOMAIN file
                 /\ RulesUnder(names)' =
                      RulesUnder(names) \cup (IF names = Open THEN {n} ELSE {})
  <2> TAKE names
  <2>1. /\ RulesUnder(names) = {i \in 1..(n - 1) : R!IsRule(i) /\ R!NamesOf(i) = names}
        /\ RulesUnder(names)' = {i \in 1..n : R!IsRule(i)' /\ R!NamesOf(i)' = names}
    BY <1>2 DEF RulesUnder
  <2>2. \A i : i \in 1..n <=> i \in 1..(n - 1) \/ i = n
    BY <1>2
  <2>3. n \notin 1..(n - 1)
    BY <1>2
  <2> QED BY <1>2, <1>4, <2>1, <2>2, <2>3
<1>10. \A i \in DOMAIN file' : R!IsRule(i)' /\ R!NamesOf(i)' # {} =>
         (R!NamesOf(i)' = Open /\ Open # {}) \/ \E g \in DOMAIN by : R!NamesOf(i)' = by[g]
  <2> TAKE i \in DOMAIN file'
  <2>1. CASE i = n
    BY <1>4, <2>1
  <2>2. CASE i # n
    <3>1. i \in DOMAIN file
      BY <1>2, <2>2
    <3>2. R!NamesOf(i)' = R!NamesOf(i) /\ (R!IsRule(i)' => R!IsRule(i))
      BY <1>2, <3>1
    <3> QED BY <1>8, <3>1, <3>2 DEF Groups
  <2> QED BY <2>1, <2>2
<1>11. CASE agents = {}
  <2>1. group = <<>> /\ group' = <<>> /\ Open = {}
    BY <1>1, <1>7, <1>11 DEF RulesTyped
  <2>2. R!Flushed' = R!Flushed
    BY <1>1, <2>1 DEF R!Flushed
  <2>3. \A g \in DOMAIN by : by[g] # {} /\ by[g] \subseteq DOMAIN file
    BY <1>8 DEF Groups
  <2>4. \A g \in DOMAIN by : RulesUnder(by[g])' = RulesUnder(by[g])
    BY <1>9, <2>1, <2>3
  <2>5. Groups(by)'
    <3>1. by \in [DOMAIN R!Flushed' -> SUBSET (DOMAIN file')]
      <4>1. DOMAIN file \subseteq DOMAIN file'
        BY <1>2
      <4>2. SUBSET (DOMAIN file) \subseteq SUBSET (DOMAIN file')
        BY <4>1
      <4>3. by \in [DOMAIN R!Flushed -> SUBSET (DOMAIN file)]
        BY <1>8 DEF Groups
      <4> QED BY <2>2, <4>2, <4>3
    <3>2. ASSUME NEW g \in DOMAIN by
          PROVE  /\ RulesUnder(by[g])' # {} /\ by[g] # {}
                 /\ R!Flushed'[g].names = ValuesAt(by[g])'
                 /\ In(R!Flushed[g].lines)' = {file'[i] : i \in RulesUnder(by[g])'}
      <4>1. {file'[i] : i \in RulesUnder(by[g])'} = {file[i] : i \in RulesUnder(by[g])}
        BY <1>3, <1>9, <2>4
      <4>2. In(R!Flushed[g].lines)' = In(R!Flushed[g].lines)
        BY <2>2 DEF In
      <4> QED BY <1>5, <1>8, <2>2, <2>3, <2>4, <4>1, <4>2 DEF Groups
    <3>3. \A g, h \in DOMAIN by : g < h =>
            \A i \in RulesUnder(by[g])', j \in RulesUnder(by[h])' : i < j
      BY <1>8, <2>4 DEF Groups
    <3>4. \A i \in DOMAIN file' : R!IsRule(i)' /\ R!NamesOf(i)' # {} =>
            \E g \in DOMAIN by : R!NamesOf(i)' = by[g]
      BY <1>10, <2>1
    <3> QED BY <3>1, <3>2, <3>3, <3>4 DEF Groups
  <2> QED BY <1>4, <1>6, <2>1, <2>5 DEF Understood
<1>12. CASE agents # {}
  <2>0. PICK m, next :
          m = Len(rules) + 1 /\ next = [g \in 1..m |-> IF g = m THEN Open ELSE by[g]]
    OBVIOUS
  <2>1. /\ m \in Nat \ {0} /\ DOMAIN rules = 1..(m - 1)
        /\ group' = Append(group, line) /\ group' # <<>> /\ group \in Seq(R!Lines)
    <3>1. group \in Seq(R!Lines) /\ group' = Append(group, line)
      BY <1>1, <1>12 DEF RulesTyped
    <3>2. group' # <<>>
      BY <3>1
    <3>3. m \in Nat \ {0} /\ DOMAIN rules = 1..(m - 1)
      BY <2>0 DEF RulesTyped
    <3> QED BY <3>1, <3>2, <3>3
  <2>2. /\ R!Flushed' = Append(rules, [names |-> agents, lines |-> group'])
        /\ Len(R!Flushed') = m
    BY <1>1, <2>0, <2>1 DEF R!Flushed, RulesTyped
  <2>3. /\ DOMAIN R!Flushed' = 1..m
        /\ R!Flushed'[m] = [names |-> agents, lines |-> group']
        /\ \A g \in 1..(m - 1) : R!Flushed'[g] = rules[g]
    BY <2>0, <2>2 DEF RulesTyped
  <2>4. /\ group = <<>> => DOMAIN by = 1..(m - 1)
        /\ group # <<>> => /\ DOMAIN by = 1..m /\ by[m] = Open
                           /\ R!Flushed[m] = [names |-> agents, lines |-> group]
        /\ \A g \in 1..(m - 1) : R!Flushed[g] = rules[g]
    <3>1. DOMAIN by = DOMAIN R!Flushed
      BY <1>8 DEF Groups
    <3>2. CASE group = <<>>
      BY <2>1, <3>1, <3>2 DEF R!Flushed
    <3>3. CASE group # <<>>
      <4>1. R!Flushed = Append(rules, [names |-> agents, lines |-> group])
        BY <3>3 DEF R!Flushed
      <4>2. rules \in Seq([names : SUBSET Agents, lines : Seq(R!Lines)])
        BY DEF RulesTyped
      <4>3. /\ Len(R!Flushed) = m /\ DOMAIN R!Flushed = 1..m
            /\ R!Flushed[m] = [names |-> agents, lines |-> group]
            /\ \A g \in 1..(m - 1) : R!Flushed[g] = rules[g]
        BY <2>0, <4>1, <4>2
      <4> QED BY <1>8, <3>1, <3>3, <4>3
    <3> QED BY <3>2, <3>3
  <2>5. Open # {}
    BY <1>7, <1>12
  <2>6. \A i \in RulesUnder(Open) : group # <<>>
    <3> SUFFICES ASSUME NEW i \in RulesUnder(Open), group = <<>> PROVE FALSE
      OBVIOUS
    <3>1. i \in 1..(n - 1) /\ R!IsRule(i) /\ R!NamesOf(i) = Open
      BY <1>2 DEF RulesUnder
    <3>2. PICK j \in Open : TRUE
      BY <2>5
    <3>3. j \in 1..(i - 1)
      BY <3>1, <3>2 DEF R!NamesOf
    <3>4. i \in j..(n - 1)
      BY <1>2, <3>1, <3>3
    <3> QED BY <1>2, <3>1, <3>2, <3>4 DEF Understood
  <2>7. In(group) = {file[i] : i \in RulesUnder(Open)}
    <3>1. CASE group = <<>>
      <4>1. DOMAIN group = {} /\ RulesUnder(Open) = {}
        BY <2>6, <3>1
      <4> QED BY <4>1 DEF In
    <3>2. CASE group # <<>>
      <4>1. m \in DOMAIN by
        BY <2>1, <2>4, <3>2
      <4>2. In(R!Flushed[m].lines) = {file[i] : i \in RulesUnder(by[m])}
        BY <1>8, <4>1 DEF Groups
      <4>3. R!Flushed[m].lines = group /\ by[m] = Open
        BY <2>4, <3>2
      <4> QED BY <4>2, <4>3
    <3> QED BY <3>1, <3>2
  <2>8. \A g \in 1..(m - 1) : g \in DOMAIN by /\ g < m
    BY <2>1, <2>4
  <2>9. \A g \in 1..(m - 1) : \A i \in RulesUnder(by[g]), j \in RulesUnder(Open) : i < j
    <3> TAKE g \in 1..(m - 1)
    <3> TAKE i \in RulesUnder(by[g]), j \in RulesUnder(Open)
    <3>1. m \in DOMAIN by /\ by[m] = Open
      BY <2>1, <2>4, <2>6
    <3> QED BY <1>8, <2>8, <3>1 DEF Groups
  <2>10. \A g \in 1..(m - 1) : by[g] # Open
    <3> SUFFICES ASSUME NEW g \in 1..(m - 1), by[g] = Open PROVE FALSE
      OBVIOUS
    <3>1. PICK i \in RulesUnder(by[g]) : TRUE
      BY <1>8, <2>8 DEF Groups
    <3>2. i < i /\ i \in 1..(n - 1)
      BY <1>2, <1>9, <2>9, <3>1
    <3> QED BY <1>2, <3>2
  <2>11. /\ \A g \in 1..(m - 1) : next[g] = by[g] /\ RulesUnder(next[g])' = RulesUnder(by[g])
         /\ m \in DOMAIN next /\ DOMAIN next = 1..m
         /\ next[m] = Open /\ RulesUnder(next[m])' = RulesUnder(Open) \cup {n}
    <3>1. \A g \in 1..(m - 1) : next[g] = by[g]
      BY <2>0, <2>1
    <3>2. m \in DOMAIN next /\ DOMAIN next = 1..m /\ next[m] = Open
      BY <2>0, <2>1
    <3>3. \A g \in 1..(m - 1) : RulesUnder(by[g])' = RulesUnder(by[g])
      BY <1>9, <2>10
    <3>4. RulesUnder(Open) \cup {n} = RulesUnder(next[m])'
      BY <1>4, <1>9, <3>2
    <3> QED BY <3>1, <3>2, <3>3, <3>4
  <2>12. \A g \in 1..m : next[g] \subseteq DOMAIN file /\ next[g] # {}
    <3>1. \A g \in 1..(m - 1) : by[g] \subseteq DOMAIN file /\ by[g] # {}
      BY <1>8, <2>8 DEF Groups
    <3>2. \A g \in 1..m : g \in 1..(m - 1) \/ g = m
      BY <2>1
    <3> QED BY <1>4, <2>5, <2>11, <3>1, <3>2
  <2>13. ASSUME NEW g \in 1..m
         PROVE  /\ RulesUnder(next[g])' # {}
                /\ R!Flushed'[g].names = ValuesAt(next[g])'
                /\ In(R!Flushed'[g].lines) = {file'[i] : i \in RulesUnder(next[g])'}
    <3>1. ValuesAt(next[g])' = ValuesAt(next[g])
      BY <1>5, <2>12
    <3>2. CASE g \in 1..(m - 1)
      <4>1. /\ RulesUnder(by[g]) # {} /\ rules[g].names = ValuesAt(by[g])
            /\ In(rules[g].lines) = {file[i] : i \in RulesUnder(by[g])}
        BY <1>8, <2>4, <2>8, <3>2 DEF Groups
      <4>2. {file'[i] : i \in RulesUnder(by[g])} = {file[i] : i \in RulesUnder(by[g])}
        BY <1>3, <1>9
      <4> QED BY <2>3, <2>11, <3>1, <3>2, <4>1, <4>2
    <3>3. CASE g = m
      <4>1. In(group') = In(group) \cup {line}
        <5>1. /\ DOMAIN group' = DOMAIN group \cup {Len(group) + 1}
              /\ group'[Len(group) + 1] = line
              /\ \A i \in DOMAIN group : group'[i] = group[i]
          BY <2>1
        <5> QED BY <5>1 DEF In
      <4>2. {file'[i] : i \in RulesUnder(Open)} = {file[i] : i \in RulesUnder(Open)}
        BY <1>3, <1>9
      <4>3. {file'[i] : i \in RulesUnder(next[g])'} =
              {file[i] : i \in RulesUnder(Open)} \cup {line}
        BY <1>3, <2>11, <3>3, <4>2
      <4>4. agents = ValuesAt(Open)
        BY DEF Understood
      <4>5. RulesUnder(next[g])' # {}
        BY <2>11, <3>3
      <4>6. R!Flushed'[g].names = ValuesAt(next[g])'
        BY <2>3, <2>11, <3>1, <3>3, <4>4
      <4>7. In(R!Flushed'[g].lines) = In(group')
        BY <2>3, <3>3
      <4> QED BY <2>7, <4>1, <4>3, <4>5, <4>6, <4>7
    <3> QED BY <2>1, <3>2, <3>3
  <2>14. ASSUME NEW g \in 1..m, NEW h \in 1..m, g < h,
                NEW i \in RulesUnder(next[g])', NEW j \in RulesUnder(next[h])'
         PROVE  i < j
    <3>1. g \in 1..(m - 1) /\ (h \in 1..(m - 1) \/ h = m)
      BY <2>1, <2>14
    <3>2. i \in RulesUnder(by[g]) /\ i \in 1..(n - 1)
      BY <1>2, <1>9, <2>11, <2>14, <3>1
    <3>3. CASE h \in 1..(m - 1)
      <4>1. j \in RulesUnder(by[h])
        BY <2>11, <2>14, <3>3
      <4> QED BY <1>8, <2>8, <2>14, <3>1, <3>2, <3>3, <4>1 DEF Groups
    <3>4. CASE j \in RulesUnder(Open)
      BY <2>9, <3>1, <3>2, <3>4
    <3>5. CASE j = n
      BY <1>2, <3>2, <3>5
    <3> QED BY <2>11, <2>14, <3>1, <3>3, <3>4, <3>5
  <2>15. \A i \in DOMAIN file' : R!IsRule(i)' /\ R!NamesOf(i)' # {} =>
           \E g \in DOMAIN next : R!NamesOf(i)' = next[g]
    <3> SUFFICES ASSUME NEW i \in DOMAIN file', R!IsRule(i)', R!NamesOf(i)' # {}
                 PROVE  \E g \in DOMAIN next : R!NamesOf(i)' = next[g]
      OBVIOUS
    <3>1. CASE R!NamesOf(i)' = Open
      BY <2>11, <3>1
    <3>2. ASSUME NEW g \in DOMAIN by, R!NamesOf(i)' = by[g], by[g] # Open
          PROVE  g \in DOMAIN next /\ R!NamesOf(i)' = next[g]
      <4>1. g \in 1..(m - 1)
        BY <2>1, <2>4, <3>2
      <4>2. g \in 1..m
        BY <2>1, <4>1
      <4> QED BY <2>11, <3>2, <4>1, <4>2
    <3> QED BY <1>10, <3>1, <3>2
  <2>16. Groups(next)'
    <3>1. SUBSET (DOMAIN file) \subseteq SUBSET (DOMAIN file')
      <4>1. DOMAIN file \subseteq DOMAIN file'
        BY <1>2
      <4> QED BY <4>1
    <3>2. next \in [DOMAIN R!Flushed' -> SUBSET (DOMAIN file')]
      <4>1. next \in [1..m -> SUBSET (DOMAIN file)]
        BY <2>0, <2>11, <2>12
      <4> QED BY <2>3, <3>1, <4>1
    <3>3. \A g \in DOMAIN next : In(R!Flushed[g].lines)' = In(R!Flushed'[g].lines)
      OBVIOUS
    <3> QED BY <2>11, <2>12, <2>13, <2>14, <2>15, <3>2, <3>3 DEF Groups
  <2> QED BY <1>2, <1>4, <1>6, <2>1, <2>2, <2>11, <2>16 DEF Understood
<1> QED BY <1>11, <1>12

LEMMA RulesStep ==
  ASSUME RulesInv, [R!Next]_(R!vars)
  PROVE  RulesInv'
<1>1. CASE UNCHANGED R!vars
  <2>1. UNCHANGED <<file, rules, agents, group>>
    BY <1>1 DEF R!vars
  <2>2. RulesTyped' /\ Valued' = Valued
    BY <2>1 DEF RulesInv, RulesTyped, Valued
  <2>3. /\ R!Flushed' = R!Flushed /\ \A i : R!IsRule(i)' = R!IsRule(i)
    BY <2>1 DEF R!Flushed, R!IsRule
  <2>4. Open' = Open /\ \A i : R!NamesOf(i)' = R!NamesOf(i)
    BY <2>1, <2>3 DEF Open, R!NamesOf
  <2>5. \A S : RulesUnder(S)' = RulesUnder(S) /\ ValuesAt(S)' = ValuesAt(S)
    BY <2>1, <2>3, <2>4 DEF RulesUnder, ValuesAt
  <2>6. ASSUME NEW by, Groups(by) PROVE Groups(by)'
    <3>1. \A g \in DOMAIN by : In(R!Flushed[g].lines)' = In(R!Flushed[g].lines)
      BY <2>3 DEF In
    <3>2. \A S : {file'[i] : i \in S} = {file[i] : i \in S}
      BY <2>1
    <3> QED BY <2>1, <2>3, <2>4, <2>5, <2>6, <3>1, <3>2 DEF Groups
  <2>7. Understood => Understood'
    BY <2>1, <2>3, <2>4, <2>5, <2>6 DEF Understood
  <2> QED BY <2>2, <2>7 DEF RulesInv
<1>2. ASSUME NEW line \in R!Lines, R!Read(line) PROVE RulesInv'
  <2>1. PICK n : n = Len(file')
    OBVIOUS
  <2>2. RulesTyped /\ file' = Append(file, line)
    BY <1>2 DEF RulesInv, R!Read
  <2>3. file' \in Seq(R!Lines)
    BY <2>2 DEF RulesTyped
  <2>6. Valued' => Valued /\ Understood
    <3>1. \A i \in DOMAIN file : i \in DOMAIN file' /\ file'[i] = file[i]
      <4>1. \A i \in DOMAIN file : file'[i] = file[i]
        BY <2>1, <2>2, OneLine
      <4>2. DOMAIN file \subseteq DOMAIN file'
        BY <2>2 DEF RulesTyped
      <4> QED BY <4>1, <4>2
    <3>2. Valued' => Valued
      BY <3>1, Zenon DEF Valued
    <3> QED BY <3>2 DEF RulesInv
  <2>4. CASE line.field = "agent"
    <3>1. /\ rules' = R!Flushed /\ group' = <<>>
          /\ agents' = (IF group = <<>> THEN agents ELSE {}) \cup ({line.value} \ {""})
      BY <1>2, <2>4 DEF R!Read
    <3>2. {line.value} \ {""} \subseteq Agents
      BY <2>4, Zenon DEF R!Lines
    <3>3. agents' \subseteq Agents
      BY <2>2, <3>1, <3>2, Zenon DEF RulesTyped
    <3>4. group' = <<>> /\ group' \in Seq(R!Lines)
      <4>1. group' = <<>>
        BY <3>1, Zenon
      <4> QED BY <4>1
    <3>5. /\ rules' \in Seq([names : SUBSET Agents, lines : Seq(R!Lines)])
          /\ \A i \in DOMAIN rules' : rules'[i].names # {} /\ rules'[i].lines # <<>>
      <4>0. rules' = R!Flushed
        BY <3>1, Zenon
      <4>1. CASE group = <<>>
        BY <2>2, <4>0, <4>1 DEF R!Flushed, RulesTyped
      <4>2. CASE group # <<>>
        <5>1. [names |-> agents, lines |-> group] \in [names : SUBSET Agents, lines : Seq(R!Lines)]
          BY <2>2 DEF RulesTyped
        <5>2. rules' = Append(rules, [names |-> agents, lines |-> group])
          BY <4>0, <4>2 DEF R!Flushed
        <5>3. /\ rules \in Seq([names : SUBSET Agents, lines : Seq(R!Lines)])
              /\ \A i \in DOMAIN rules : rules[i].names # {} /\ rules[i].lines # <<>>
              /\ agents # {}
          BY <2>2, <4>2 DEF RulesTyped
        <5> QED BY <4>2, <5>1, <5>2, <5>3
      <4> QED BY <4>1, <4>2
    <3>6. RulesTyped'
      BY <2>3, <3>3, <3>4, <3>5 DEF RulesTyped
    <3>7. Valued' => Understood'
      BY <1>2, <2>1, <2>2, <2>4, <2>6, AgentRead
    <3> QED BY <3>6, <3>7 DEF RulesInv
  <2>5. CASE line.field # "agent"
    <3>1. /\ rules' = rules /\ agents' = agents
          /\ (group' = group) \/ (agents # {} /\ group' = Append(group, line))
      BY <1>2, <2>5 DEF R!Read
    <3>2. RulesTyped'
      <4>1. group' \in Seq(R!Lines)
        <5>1. group \in Seq(R!Lines) /\ Append(group, line) \in Seq(R!Lines)
          BY <2>2 DEF RulesTyped
        <5> QED BY <3>1, <5>1
      <4> QED BY <2>2, <2>3, <3>1, <4>1 DEF RulesTyped
    <3>3. Valued' => Understood'
      BY <1>2, <2>1, <2>2, <2>5, <2>6, RuleRead
    <3> QED BY <3>2, <3>3 DEF RulesInv
  <2> QED BY <2>4, <2>5
<1> QED BY <1>1, <1>2 DEF R!Next

LEMMA Plainly ==
  ASSUME R!Plain
  PROVE  /\ Valued
         /\ \A i \in DOMAIN file : R!IsRule(i) /\ "*" \in ValuesAt(R!NamesOf(i)) =>
              ValuesAt(R!NamesOf(i)) = {"*"}
BY Zenon DEF R!Plain, Valued, ValuesAt

(* The name that decides which group binds the crawler.                       *)
Who == IF R!RulesFor(Ours) # {} THEN Ours ELSE "*"

LEMMA RulesOfName ==
  ASSUME NEW by, Groups(by), NEW name
  PROVE  /\ \A i \in R!RulesFor(name) : \E g \in DOMAIN by :
              name \in R!Flushed[g].names /\ i \in RulesUnder(by[g])
         /\ \A g \in DOMAIN by : name \in R!Flushed[g].names =>
              RulesUnder(by[g]) \subseteq R!RulesFor(name)
<1>1. ASSUME NEW i \in R!RulesFor(name)
      PROVE  \E g \in DOMAIN by : name \in R!Flushed[g].names /\ i \in RulesUnder(by[g])
  <2>1. i \in DOMAIN file /\ R!IsRule(i)
    BY DEF R!RulesFor
  <2>2. PICK j \in R!NamesOf(i) : file[j].value = name
    BY DEF R!RulesFor
  <2>3. PICK g \in DOMAIN by : R!NamesOf(i) = by[g]
    BY <2>1, <2>2 DEF Groups
  <2>4. name \in R!Flushed[g].names
    BY <2>2, <2>3 DEF Groups, ValuesAt
  <2> QED BY <2>1, <2>3, <2>4 DEF RulesUnder
<1>2. ASSUME NEW g \in DOMAIN by, name \in R!Flushed[g].names, NEW i \in RulesUnder(by[g])
      PROVE  i \in R!RulesFor(name)
  BY <1>2 DEF Groups, ValuesAt, RulesUnder, R!RulesFor
<1> QED BY <1>1, <1>2

(* The groups the code chooses from once it has looked for names are those of *)
(* that name.                                                                 *)
LEMMA ChosenAmong ==
  ASSUME R!Plain, NEW by, Groups(by)
  PROVE  LET named == {g \in R!Applicable : R!Flushed[g].names # {"*"}}
         IN  (IF named # {} THEN named ELSE R!Applicable)
               = {g \in DOMAIN by : Who \in R!Flushed[g].names}
<1> DEFINE named == {g \in R!Applicable : R!Flushed[g].names # {"*"}}
           all == {g \in DOMAIN by : Who \in R!Flushed[g].names}
<1>1. \A g \in DOMAIN by : "*" \in R!Flushed[g].names => R!Flushed[g].names = {"*"}
  <2> TAKE g \in DOMAIN by
  <2>1. PICK i \in RulesUnder(by[g]) : TRUE
    BY DEF Groups
  <2>2. i \in DOMAIN file /\ R!IsRule(i) /\ R!NamesOf(i) = by[g]
    BY <2>1 DEF RulesUnder
  <2>3. R!Flushed[g].names = ValuesAt(by[g])
    BY DEF Groups
  <2> QED BY <2>2, <2>3, Plainly
<1>2. R!Applicable =
        {g \in DOMAIN by : "*" \in R!Flushed[g].names \/ Ours \in R!Flushed[g].names}
  BY DEF R!Applicable, Groups
<1>3. \A g \in DOMAIN by : Ours \in R!Flushed[g].names => Who = Ours
  BY RulesOfName DEF Who, Groups
<1>4. Who = Ours \/ Who = "*"
  BY DEF Who
<1>5. Who = Ours => Ours = "*" \/ \E g \in DOMAIN by : Ours \in R!Flushed[g].names
  BY RulesOfName DEF Who
<1>6. CASE named # {}
  <2>1. PICK g \in DOMAIN by : /\ R!Flushed[g].names # {"*"}
                               /\ "*" \in R!Flushed[g].names \/ Ours \in R!Flushed[g].names
    BY <1>2, <1>6
  <2>2. Ours # "*" /\ Who = Ours
    BY <1>1, <1>3, <2>1
  <2>3. \A h \in DOMAIN by : h \in named <=> h \in all
    BY <1>1, <1>2, <2>2
  <2>4. named = all
    <3>1. named \subseteq DOMAIN by /\ all \subseteq DOMAIN by
      BY <1>2
    <3> QED BY <2>3, <3>1
  <2> QED BY <1>6, <2>4
<1>7. CASE named = {}
  <2>1. \A g \in DOMAIN by : Ours \in R!Flushed[g].names => Ours = "*"
    BY <1>2, <1>7
  <2>2. \A h \in DOMAIN by : h \in R!Applicable <=> h \in all
    BY <1>2, <1>4, <1>5, <2>1
  <2>3. R!Applicable = all
    <3>1. R!Applicable \subseteq DOMAIN by /\ all \subseteq DOMAIN by
      BY <1>2
    <3> QED BY <2>2, <3>1
  <2> QED BY <1>7, <2>3
<1> QED BY <1>6, <1>7

LEMMA FirstOf ==
  ASSUME NEW S \in SUBSET Nat, S # {}
  PROVE  R!First(S) \in S /\ \A i \in S : R!First(S) <= i
<1>1. \E m \in S : \A i \in S : m <= i
  BY LeastNat
<1> QED BY <1>1 DEF R!First

(* The code chooses the group that binds the crawler, if there is one.        *)
LEMMA TheGroup ==
  ASSUME RulesTyped, R!Plain, NEW by, Groups(by)
  PROVE  /\ R!Applicable = {} <=> R!Binding = {}
         /\ R!Applicable # {} => /\ R!Selected \in Seq(R!Lines)
                                 /\ In(R!Selected) = {file[i] : i \in R!Binding}
<1> DEFINE named == {g \in R!Applicable : R!Flushed[g].names # {"*"}}
           all == {g \in DOMAIN by : Who \in R!Flushed[g].names}
           mine == R!RulesFor(Who)
<1>1. (IF named # {} THEN named ELSE R!Applicable) = all
  BY ChosenAmong
<1>2. R!Selected = R!Flushed[R!First(all)].lines
  BY <1>1 DEF R!Selected
<1>3. R!Applicable = {} <=> all = {}
  <2>1. named \subseteq R!Applicable
    OBVIOUS
  <2> HIDE DEF named, all
  <2> QED BY <1>1, <2>1
<1>4. R!Binding = {i \in mine : \A j \in mine : i <= j \/ R!NamesOf(i) = R!NamesOf(j)}
  BY DEF R!Binding, Who
<1>5. /\ \A i \in mine : \E g \in all : i \in RulesUnder(by[g])
      /\ \A g \in all : RulesUnder(by[g]) \subseteq mine
  BY RulesOfName
<1>6. CASE all = {}
  BY <1>3, <1>4, <1>5, <1>6
<1>7. CASE all # {}
  <2>1. DOMAIN by \in SUBSET Nat /\ DOMAIN by = DOMAIN R!Flushed
        /\ \A g \in DOMAIN by : R!Flushed[g].lines \in Seq(R!Lines)
    <3> DEFINE Group == [names : SUBSET Agents, lines : Seq(R!Lines)]
               last == [names |-> agents, lines |-> group]
    <3>1. rules \in Seq(Group) /\ last \in Group
      BY DEF RulesTyped
    <3>2. R!Flushed = rules \/ R!Flushed = Append(rules, last)
      BY DEF R!Flushed
    <3>3. DOMAIN by = DOMAIN R!Flushed
      BY DEF Groups
    <3>4. \A x \in Group : x.lines \in Seq(R!Lines)
      OBVIOUS
    <3> HIDE DEF Group, last
    <3>5. R!Flushed \in Seq(Group)
      BY <3>1, <3>2
    <3>6. DOMAIN R!Flushed \in SUBSET Nat /\ \A g \in DOMAIN R!Flushed : R!Flushed[g] \in Group
      BY <3>5
    <3> QED BY <3>3, <3>4, <3>6
  <2>2. PICK g \in all : g = R!First(all) /\ \A h \in all : g <= h
    <3>1. all \in SUBSET Nat
      BY <2>1
    <3> HIDE DEF all
    <3> QED BY <1>7, <3>1, FirstOf
  <2>3. \A i \in RulesUnder(by[g]) : R!NamesOf(i) = by[g] /\ i \in mine
    BY <1>5, <2>2 DEF RulesUnder
  <2>4. \A i \in RulesUnder(by[g]), j \in mine : i < j \/ R!NamesOf(i) = R!NamesOf(j)
    <3> TAKE i \in RulesUnder(by[g]), j \in mine
    <3>1. PICK h \in all : j \in RulesUnder(by[h])
      BY <1>5
    <3>2. CASE h = g
      BY <2>3, <3>1, <3>2
    <3>3. CASE h # g
      <4>1. g < h
        <5>1. g <= h /\ g \in Nat /\ h \in Nat
          BY <2>1, <2>2
        <5> QED BY <3>3, <5>1
      <4> QED BY <3>1, <4>1 DEF Groups
    <3> QED BY <3>2, <3>3
  <2>5. R!Binding = RulesUnder(by[g])
    <3>1. ASSUME NEW i \in RulesUnder(by[g]) PROVE i \in R!Binding
      <4>1. \A j \in mine : i < j => i <= j
        BY DEF R!RulesFor, RulesUnder, RulesTyped
      <4> QED BY <1>4, <2>3, <2>4, <4>1
    <3>2. ASSUME NEW i \in R!Binding PROVE i \in RulesUnder(by[g])
      <4>1. PICK j \in RulesUnder(by[g]) : TRUE
        BY <2>2 DEF Groups
      <4>2. i \in mine /\ j \in mine /\ (i <= j \/ R!NamesOf(i) = R!NamesOf(j))
        BY <1>4, <2>3, <4>1
      <4>3. R!NamesOf(i) = R!NamesOf(j)
        <5>1. j < i \/ R!NamesOf(j) = R!NamesOf(i)
          BY <2>4, <4>1, <4>2
        <5>2. i \in Nat /\ j \in Nat
          BY <4>2 DEF R!RulesFor, RulesTyped
        <5> QED BY <4>2, <5>1, <5>2
      <4>4. i \in DOMAIN file /\ R!IsRule(i)
        BY <4>2 DEF R!RulesFor
      <4> QED BY <2>3, <4>1, <4>3, <4>4 DEF RulesUnder
    <3> QED BY <3>1, <3>2
  <2>6. RulesUnder(by[g]) # {} /\ In(R!Flushed[g].lines) = {file[i] : i \in RulesUnder(by[g])}
    BY <2>2 DEF Groups
  <2> QED BY <1>2, <1>3, <1>7, <2>1, <2>2, <2>5, <2>6
<1> QED BY <1>6, <1>7

(* For any plain file, what the code answers is what a longest matching rule  *)
(* of the group that binds the crawler says.                                  *)
LEMMA LongestDecides == ASSUME R!ConstantsOK, RulesInv PROVE R!LongestRuleApplies
<1> DEFINE matching == {i \in R!Binding : file[i].value \in Matches}
           longest == {i \in matching :
                         \A j \in matching : Length[file[j].value] <= Length[file[i].value]}
           L == R!Selected
<1> SUFFICES ASSUME R!Plain
             PROVE  IF longest = {} THEN R!Allowed
                    ELSE \E i \in longest : R!Allowed <=> file[i].field = "allow"
  BY DEF R!LongestRuleApplies
<1>1. Valued /\ RulesTyped /\ Understood
  BY Plainly DEF RulesInv
<1>2. PICK by : Groups(by)
  BY <1>1 DEF Understood
<1>3. CASE R!Applicable = {}
  <2>1. R!Binding = {}
    BY <1>1, <1>2, <1>3, TheGroup
  <2> QED BY <1>3, <2>1 DEF R!Allowed
<1>4. CASE R!Applicable # {}
  <2>1. L \in Seq(R!Lines) /\ In(L) = {file[i] : i \in R!Binding}
    BY <1>1, <1>2, <1>4, TheGroup
  <2>2. \A k \in DOMAIN L : \E i \in R!Binding : L[k] = file[i]
    BY <2>1 DEF In
  <2>3. \A i \in R!Binding : \E k \in DOMAIN L : L[k] = file[i]
    BY <2>1 DEF In
  <2>4. CASE R!Matching = {}
    <3>1. matching = {}
      BY <2>3, <2>4 DEF R!Matching
    <3> QED BY <2>4, <3>1 DEF R!Allowed
  <2>5. CASE R!Matching # {}
    <3>1. \A k \in DOMAIN L : L[k].value \in Patterns
      <4>1. \A i \in R!Binding : i \in DOMAIN file /\ file[i].field # "agent"
        BY DEF R!Binding, R!RulesFor, R!IsRule
      <4>2. \A i \in DOMAIN file : file[i] \in R!Lines
        BY <1>1 DEF RulesTyped
      <4>3. \A i \in R!Binding : file[i].value \in Patterns
        BY <1>1, <4>1, <4>2, Zenon DEF R!Lines, Valued
      <4> QED BY <2>2, <4>3
    <3>2. R!Longest # {} /\ R!Longest \in SUBSET Nat
      <4> DEFINE size == [k \in R!Matching |-> Length[L[k].value]]
      <4>1. Len(L) \in Nat /\ R!Matching \in SUBSET (1..Len(L))
        BY <2>1 DEF R!Matching
      <4>2. size \in [R!Matching -> Nat]
        BY <3>1 DEF R!ConstantsOK, R!Matching
      <4>3. PICK k \in R!Matching : \A j \in R!Matching : size[j] <= size[k]
        <5> HIDE DEF size, L
        <5> QED BY <2>5, <4>1, <4>2, Largest
      <4>4. k \in R!Longest
        BY <4>3 DEF R!Longest
      <4>5. R!Longest \subseteq R!Matching
        BY DEF R!Longest
      <4>6. R!Matching \subseteq Nat
        BY <4>1
      <4> QED BY <4>4, <4>5, <4>6
    <3>3. PICK k \in R!Longest : k = R!First(R!Longest)
      BY <3>2, FirstOf
    <3>4. PICK i \in R!Binding : L[k] = file[i]
      BY <2>2, <3>3 DEF R!Longest, R!Matching
    <3>5. i \in longest
      <4>1. \A j \in matching : \E m \in R!Matching : L[m] = file[j]
        BY <2>3 DEF R!Matching
      <4>2. i \in matching
        BY <3>3, <3>4 DEF R!Longest, R!Matching
      <4> QED BY <3>3, <3>4, <4>1, <4>2 DEF R!Longest
    <3> QED BY <1>4, <2>5, <3>3, <3>4, <3>5 DEF R!Allowed
  <2> QED BY <2>4, <2>5
<1> QED BY <1>3, <1>4

-----------------------------------------------------------------------------
(* All of them: a step of one leaves the others where they are.               *)
KP == INSTANCE KeyFileProofs WITH Keys <- FileKeys

LEMMA SameKeyInit == K!Init => KP!Init
BY DEF K!Init, KP!Init

LEMMA SameKeyNext == [K!Next]_(K!vars) => [KP!Next]_(KP!vars)
<1> USE DEF K!vars, KP!vars, K!file, KP!file, K!Goto, KP!Goto, K!Has, KP!Has
<1>1. K!PowerFails => KP!PowerFails
  BY DEF K!PowerFails, KP!PowerFails
<1>2. K!Remove => KP!Remove
  BY DEF K!Remove, KP!Remove, K!Starting, KP!Starting
<1>3. ASSUME NEW s \in Servers, K!ServerStep(s) PROVE KP!ServerStep(s)
  <2>1. K!Start(s) => KP!Start(s)
    BY DEF K!Start, KP!Start
  <2>2. K!Read(s) => KP!Read(s)
    BY DEF K!Read, KP!Read
  <2>3. K!Create(s) => KP!Create(s)
    BY DEF K!Create, KP!Create
  <2>4. K!Write(s) => KP!Write(s)
    BY DEF K!Write, KP!Write
  <2>5. K!Sync(s) => KP!Sync(s)
    BY DEF K!Sync, KP!Sync
  <2>6. K!Finish(s) => KP!Finish(s)
    BY DEF K!Finish, KP!Finish
  <2>7. K!Stop(s) => KP!Stop(s)
    BY DEF K!Stop, KP!Stop
  <2> QED
    BY <1>3, <2>1, <2>2, <2>3, <2>4, <2>5, <2>6, <2>7 DEF K!ServerStep, KP!ServerStep
<1> QED BY <1>1, <1>2, <1>3 DEF K!Next, KP!Next

AllInv == KP!Inv /\ CallsInv /\ Inv /\ RulesInv /\ MapInv

LEMMA AllInit == AnyInit => AllInv
BY ServicesAssumption, SameKeyInit, KP!InitInv, CallsInit, InitInv, RulesInit, MapInit
   DEF AnyInit, AllInv

LEMMA AllStep == AllInv /\ [AnyNext]_allVars => AllInv'
<1> SUFFICES ASSUME AllInv, [AnyNext]_allVars PROVE AllInv'
  OBVIOUS
<1> USE DEF AnyNext, Key, Client, Scrape, Map, Rules, allVars
<1>1. KP!Inv'
  <2>1. [K!Next]_(K!vars)
    BY DEF keyVars, K!vars, K!file
  <2> QED BY <2>1, SameKeyNext, KP!StepInv DEF AllInv
<1>2. CallsInv'
  <2>1. [C!Next]_(C!vars)
    BY DEF clientVars, C!vars
  <2> QED BY <2>1, ServicesAssumption, CallsStep DEF AllInv
<1>3. Inv'
  <2>1. [Next]_vars
    OBVIOUS
  <2> QED BY <2>1, StepInv DEF AllInv
<1>4. RulesInv'
  <2>1. [R!Next]_(R!vars)
    BY DEF rulesVars, R!vars
  <2> QED BY <2>1, RulesStep DEF AllInv
<1>5. MapInv'
  <2>1. [M!Next]_(M!vars)
    BY DEF mapVars, M!vars, M!site, M!filter
  <2> QED BY <2>1, ServicesAssumption, MapStep DEF AllInv
<1> QED BY <1>1, <1>2, <1>3, <1>4, <1>5 DEF AllInv

LEMMA Always == AnySpec => []AllInv
BY AllInit, AllStep, PTL DEF AnySpec

(* The state of each has its type.                                            *)
THEOREM ServicesTyping == AnySpec => []TypesOK
<1>1. AllInv => TypesOK
  <2> SUFFICES ASSUME AllInv PROVE TypesOK
    OBVIOUS
  <2>1. KP!TypeOK => K!TypeOK
    BY DEF KP!TypeOK, K!TypeOK, KP!Starting, K!Starting, KP!OneOrNone, K!OneOrNone
  <2>2. R!TypeOK
    BY DEF AllInv, RulesInv, RulesTyped, R!TypeOK
  <2> QED BY <2>1, <2>2 DEF AllInv, KP!Inv, CallsInv, Inv, MapInv, TypesOK
<1> QED BY <1>1, Always, PTL

(* KeyFile: however many servers share a state directory, and whatever starts *)
(* race, crash or lose power, the key every server has is that of the file.   *)
THEOREM OneKeyAlways == AnySpec => []OneKey
<1>1. AllInv => OneKey
  BY DEF AllInv, KP!Inv, KP!OneKey, OneKey, K!OneKey
<1> QED BY <1>1, Always, PTL

(* ApiClient: whatever requests fail, and however often, and whenever the     *)
(* server restarts, no call makes more jobs than it has tries.                *)
THEOREM DuplicatesAlwaysBounded == AnySpec => []DuplicatesBounded
<1>1. AllInv => DuplicatesBounded
  BY DEF AllInv, CallsInv, DuplicatesBounded
<1> QED BY <1>1, Always, PTL

(* ScrapeService: however many requests share the cache, whatever pages they  *)
(* are served: one whose static fetch brought something is answered, with no  *)
(* fewer words.                                                               *)
THEOREM NothingEverLost == AnySpec => []NothingLost
<1>1. AllInv => NothingLost
  BY DEF AllInv, Inv
<1> QED BY <1>1, Always, PTL

(* ScrapeService: a cached answer answers the same question, was fetched as   *)
(* the request allows, and is no older than the TTL.                          *)
THEOREM HitsHonest == AnySpec => []HitHonest
<1>1. AllInv => HitHonest
  BY DEF AllInv, Inv
<1> QED BY <1>1, Always, PTL

(* RobotsRules: for a plain robots.txt of any length, what the crawler may do *)
(* is what a longest matching rule of the group that binds it says.           *)
THEOREM LongestAlwaysApplies == AnySpec => []LongestRuleApplies
<1>1. AllInv => LongestRuleApplies
  BY ServicesAssumption, LongestDecides DEF AllInv, LongestRuleApplies
<1> QED BY <1>1, Always, PTL

(* Mapper: whatever sitemaps say of each other, in chains or circles, none is *)
(* walked twice, too deep or past the limit, and what else is fetched is a    *)
(* look at a candidate.                                                       *)
THEOREM WalkAlwaysBounded == AnySpec => []WalkBounded
<1>1. AllInv => WalkBounded
  BY DEF AllInv, MapInv, WalkBounded
<1> QED BY <1>1, Always, PTL

(* Mapper: what the walk and the seed page found of the seed's origin is in   *)
(* the result, once, unless the result is full or the DNS has come to refuse  *)
(* its host; and nothing of another netloc is.                                *)
THEOREM PagesAlwaysKept == AnySpec => []PagesKept
<1>1. AllInv => PagesKept
  BY DEF AllInv, MapInv, PagesKept
<1> QED BY <1>1, Always, PTL
=============================================================================
