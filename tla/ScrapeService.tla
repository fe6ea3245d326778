--------------------------- MODULE ScrapeService ---------------------------
(* POST /v1/scrape of api/main.py, with engine/scraper.py, engine/cache.py    *)
(* and the choice of the engine in engine/content_extractor.py.               *)
(*                                                                            *)
(* One URL: the key of the cache tells URLs and user agents apart, nothing    *)
(* else does.  What a page says is the number of its words; what its site     *)
(* serves may differ with every fetch, and between a plain and a browser one. *)
EXTENDS Naturals

CONSTANTS
  Requests,
  Queries,    \* what a request may ask for
  Pages,      \* what a fetch may bring
  MinWords,   \* _MIN_STATIC_WORDS
  Ttl,        \* CACHE_DEFAULT_TTL_SECONDS
  MaxTime,    \* bound of the clock
  NoEntry

(* main: only_main_content; markdown: whether formats has it; cache: use_cache *)
Query == [main : BOOLEAN, markdown : BOOLEAN, cache : BOOLEAN,
          render : {"auto", "static", "browser"}]

(* What readability and trafilatura find, whether it is 100 characters of HTML *)
(* long, and the text BeautifulSoup would find.                               *)
Body == [long : BOOLEAN, words : Nat]
Page == [read : Body, traf : Body, text : Nat]

VARIABLES
  store,    \* the cache: an entry for each key
  clock,
  query,    \* what each request asks for, once and for all
  stage,    \* the await it is suspended in
  static,   \* the result of its static fetch, or NoEntry
  reply     \* the answer given, or NoEntry

vars == <<store, clock, query, stage, static, reply>>

Result == [words : Nat, render : {"static", "browser"}, for : Queries]
Failure == {"rejected", "failed"}   \* 400 url_rejected, and any other error
Reply == [kind : {"scraped"}, result : Result]
           \cup [kind : {"cached"}, result : Result, age : Nat] \cup [kind : Failure]

(* Mutant: the key leaves out how the page was rendered.                      *)
KeyOfContent(q) == [q EXCEPT !.cache = TRUE, !.render = "auto"]

(* make_key(); `cache` is no part of what is asked of the page.               *)
KeyOf(q) == [q EXCEPT !.cache = TRUE]
Keys == {KeyOf(q) : q \in Queries}

Init ==
  /\ store = [k \in Keys |-> NoEntry]
  /\ clock = 0
  /\ query \in [Requests -> Queries]
  /\ stage = [r \in Requests |-> "new"]
  /\ static = [r \in Requests |-> NoEntry]
  /\ reply = [r \in Requests |-> NoEntry]

(* extract(): readability, else trafilatura; BeautifulSoup if that is short,  *)
(* in place of the markdown and also when markdown was not asked for.         *)
Words(page, q) ==
  LET body == CASE ~q.main -> [long |-> TRUE, words |-> page.text]
                [] page.read.long -> page.read
                [] OTHER -> page.traf
  IN CASE q.main /\ ~body.long /\ page.text > 0 -> page.text
       [] q.markdown -> body.words
       [] OTHER -> 0

Scraped(page, r, render) ==
  [words |-> Words(page, query[r]), render |-> render, for |-> query[r]]

Goto(r, s) == stage' = [stage EXCEPT ![r] = s]

Answer(r, a) ==
  /\ reply' = [reply EXCEPT ![r] = a]
  /\ Goto(r, "done")
  /\ UNCHANGED <<query, static, clock>>

Fail(r, how) ==
  /\ Answer(r, [kind |-> how])
  /\ UNCHANGED store

(* set_cached(), whose failure is swallowed, and the answer.                  *)
Deliver(r, result) ==
  /\ Answer(r, [kind |-> "scraped", result |-> result])
  /\ \/ UNCHANGED store
     \/ /\ query[r].cache
        /\ store' = [store EXCEPT ![KeyOf(query[r])] =
                       [result |-> result, expires |-> clock + Ttl]]

Usable(q) == store[KeyOf(q)] # NoEntry /\ clock <= store[KeyOf(q)].expires

(* A request whose answer is cached.                                          *)
Hit(r) ==
  /\ stage[r] = "new" /\ query[r].cache /\ Usable(query[r])
  /\ LET entry == store[KeyOf(query[r])]
     IN Answer(r, [kind |-> "cached", result |-> entry.result,
                   age |-> clock + Ttl - entry.expires])
  /\ UNCHANGED store

(* Any other: no entry, an expired one, which is dropped, no wish for one, or *)
(* a cache that fails.                                                        *)
Miss(r) ==
  /\ stage[r] = "new"
  /\ Goto(r, IF query[r].render = "browser" THEN "browser" ELSE "static")
  /\ store' = IF query[r].cache /\ ~Usable(query[r])
                THEN [store EXCEPT ![KeyOf(query[r])] = NoEntry] ELSE store
  /\ UNCHANGED <<query, static, reply, clock>>

(* The static fetch brings a page; a thin one, with status 200, is tried      *)
(* again with a browser.                                                      *)
StaticDone(r) ==
  /\ stage[r] = "static"
  /\ \E page \in Pages, ok \in BOOLEAN :
       LET result == Scraped(page, r, "static")
       IN IF query[r].render = "auto" /\ result.words < MinWords /\ ok
            THEN /\ static' = [static EXCEPT ![r] = result]
                 /\ Goto(r, "second")
                 /\ UNCHANGED <<store, query, reply, clock>>
            ELSE Deliver(r, result)

StaticRejected(r) == stage[r] = "static" /\ Fail(r, "rejected")

StaticFails(r) ==
  /\ stage[r] = "static"
  /\ IF query[r].render = "static"
       THEN Fail(r, "failed")
       ELSE Goto(r, "browser") /\ UNCHANGED <<store, query, static, reply, clock>>

BrowserDone(r) ==
  /\ stage[r] = "browser"
  /\ \E page \in Pages : Deliver(r, Scraped(page, r, "browser"))

BrowserFails(r) == stage[r] = "browser" /\ Fail(r, "failed")

(* Mutant: the second result replaces the first in any case.                  *)
SecondDoneAnyway(r) ==
  /\ stage[r] = "second"
  /\ \E page \in Pages : Deliver(r, Scraped(page, r, "browser"))

(* The second try counts only if it brings more.                              *)
SecondDone(r) ==
  /\ stage[r] = "second"
  /\ \E page \in Pages :
       LET result == Scraped(page, r, "browser")
       IN Deliver(r, IF result.words > static[r].words THEN result ELSE static[r])

SecondFails(r) == stage[r] = "second" /\ Deliver(r, static[r])

Tick ==
  /\ clock < MaxTime
  /\ clock' = clock + 1
  /\ UNCHANGED <<store, query, stage, static, reply>>

RequestStep(r) ==
  \/ Hit(r) \/ Miss(r) \/ StaticDone(r) \/ StaticRejected(r) \/ StaticFails(r)
  \/ BrowserDone(r) \/ BrowserFails(r) \/ SecondDone(r) \/ SecondFails(r)

Next ==
  \/ Tick
  \/ \E r \in Requests : RequestStep(r)

Spec == Init /\ [][Next]_vars

-----------------------------------------------------------------------------
Given(r) == stage[r] = "done"

ConstantsOK ==
  /\ Queries \subseteq Query /\ Pages \subseteq Page
  /\ MinWords \in Nat /\ Ttl \in Nat /\ MaxTime \in Nat
  /\ NoEntry \notin Result

TypeOK ==
  /\ ConstantsOK
  /\ clock \in 0..MaxTime
  /\ query \in [Requests -> Queries]
  /\ stage \in [Requests -> {"new", "static", "browser", "second", "done"}]
  /\ static \in [Requests -> Result \cup {NoEntry}]
  /\ store \in [Keys -> [result : Result, expires : 0..(MaxTime + Ttl)] \cup {NoEntry}]
  /\ reply \in [Requests -> Reply \cup {NoEntry}]
  /\ \A r \in Requests : stage[r] = "second" => static[r] # NoEntry

(* The second try with a browser (scraper.py) never costs what the first one  *)
(* had: such a request is answered, and with no fewer words.                  *)
NothingLost ==
  \A r \in Requests : Given(r) /\ static[r] # NoEntry =>
    reply[r].kind = "scraped" /\ reply[r].result.words >= static[r].words

(* A cached answer is one to the same question, stored at most Ttl ago; a     *)
(* request for a static fetch never gets what a browser rendered.             *)
HitHonest ==
  \A r \in Requests : Given(r) /\ reply[r].kind = "cached" =>
    /\ KeyOf(reply[r].result.for) = KeyOf(query[r])
    /\ query[r].render = "static" => reply[r].result.render = "static"
    /\ reply[r].age <= Ttl
=============================================================================
