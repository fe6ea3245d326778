---------------------------- MODULE CrawlManager ----------------------------
(* The in-process crawl jobs of blazecrawl_core/engine/crawler.py and the     *)
(* endpoints of api/main.py that create, poll and cancel them.                *)
(*                                                                            *)
(* Every job is one asyncio task.  The code between two awaits runs without   *)
(* interruption, so an action here is everything a task does from one         *)
(* suspension point to the next: the answer it resumes with, the bookkeeping, *)
(* and the crawl loop up to the next page that needs the network.             *)
EXTENDS Naturals, Sequences, FiniteSets, AsyncSemaphore

CONSTANTS
  Jobs,             \* the jobs clients may create
  Urls,             \* the URLs of the crawled web
  Defrag,           \* urldefrag(url)[0], a function on Urls
  Netloc,           \* urlsplit(url).netloc
  Scheme,           \* urlsplit(url).scheme
  Final,            \* the URL a fetch of a URL ends on after redirects
  PageLinks,        \* the lists of links a fetch of a URL may find
  AskedPages,       \* the max_pages values clients send
  AskedDepths,      \* the max_depth values clients send
  None,             \* a field the client leaves out
  MaxConcurrency,   \* CRAWL_MAX_CONCURRENCY
  MaxPagesDefault,  \* CRAWL_MAX_PAGES_DEFAULT
  MaxDepthDefault   \* CRAWL_MAX_DEPTH_DEFAULT

WebSchemes == {"http", "https"}

ASSUME JobsAssumption == IsFiniteSet(Jobs)
ASSUME UrlAssumption ==
  /\ Defrag \in [Urls -> Urls]
  /\ \A u \in Urls : Defrag[Defrag[u]] = Defrag[u]
  /\ Final \in [Urls -> Urls]
  /\ DOMAIN Netloc = Urls
  /\ DOMAIN Scheme = Urls
  /\ PageLinks \in [Urls -> SUBSET Seq(Urls)]
ASSUME LimitAssumption ==
  /\ None \notin Nat
  /\ AskedPages \subseteq Nat \cup {None}
  /\ AskedDepths \subseteq Nat \cup {None}
  /\ MaxConcurrency \in Nat \ {0}
  /\ MaxPagesDefault \in Nat \ {0}
  /\ MaxDepthDefault \in Nat

VARIABLES
  status,      \* job.status, and "absent" before the job exists
  job,         \* seed, max_pages and max_depth of the job
  pages,       \* job.pages: the final URL of every page returned
  crawled,     \* job.pages_crawled
  failed,      \* job.pages_failed
  visited,     \* _crawl's visited set
  frontier,    \* _crawl's frontier, a FIFO of [url, depth]
  current,     \* the [url, depth] _crawl is working on
  pc,          \* the await the job's task is suspended in
  cancelling,  \* task.cancel() was called and the task has not run since
  sem,         \* the manager's _sem
  log,         \* history: the [url, depth] entries in the order visited
  links,       \* history: the links found, as [from, depth, to]
  denied       \* history: the URLs robots.txt denied to the job

parameters == <<job>>
progress   == <<pages, crawled, failed, links>>
walk       == <<visited, frontier, current, log>>
vars == <<status, job, pages, crawled, failed, visited, frontier, current, pc,
          cancelling, sem, log, links, denied>>

Statuses == {"absent", "queued", "running", "completed", "failed", "cancelled"}
Terminal == {"completed", "failed", "cancelled"}
PCs == {"absent", "created", "validate", "robots", "permit", "scrape", "done"}

Entry == [url : Urls, depth : Nat]
Parameters == [seed : Urls, max_pages : Nat \ {0}, max_depth : Nat]
NoJob == [seed |-> None, max_pages |-> 0, max_depth |-> 0]

Init ==
  /\ status = [j \in Jobs |-> "absent"]
  /\ job = [j \in Jobs |-> NoJob]
  /\ pages = [j \in Jobs |-> <<>>]
  /\ crawled = [j \in Jobs |-> 0]
  /\ failed = [j \in Jobs |-> 0]
  /\ visited = [j \in Jobs |-> {}]
  /\ frontier = [j \in Jobs |-> <<>>]
  /\ current = [j \in Jobs |-> None]
  /\ pc = [j \in Jobs |-> "absent"]
  /\ cancelling = [j \in Jobs |-> FALSE]
  /\ sem = NewSemaphore(MaxConcurrency)
  /\ log = [j \in Jobs |-> <<>>]
  /\ links = [j \in Jobs |-> {}]
  /\ denied = [j \in Jobs |-> {}]

-----------------------------------------------------------------------------
(* POST /v1/crawl, after the endpoint has validated the seed (CrawlRequest   *)
(* admits http and https only).                                              *)

(* Mutant: the default is forgotten.                                         *)
OrDefaultForgotten(asked, default) == asked

(* `asked or default`: Python takes the default for None and for 0 alike.    *)
OrDefault(asked, default) == IF asked \in {None, 0} THEN default ELSE asked

CreateJob(j, seed, askedPages, askedDepth) ==
  /\ status[j] = "absent"
  /\ Scheme[seed] \in WebSchemes
  /\ status' = [status EXCEPT ![j] = "queued"]
  /\ job' = [job EXCEPT ![j] =
               [seed |-> seed,
                max_pages |-> OrDefault(askedPages, MaxPagesDefault),
                max_depth |-> OrDefault(askedDepth, MaxDepthDefault)]]
  /\ pc' = [pc EXCEPT ![j] = "created"]
  /\ UNCHANGED <<progress, walk, cancelling, sem, denied>>

-----------------------------------------------------------------------------
(* The crawl loop.                                                           *)

(* Mutant: the loop does not look at visited.                                *)
FreshForgetful(j, queue) ==
  {i \in DOMAIN queue : queue[i].depth <= job[j].max_depth}

(* The positions of the queue the loop does not skip.                        *)
Fresh(j, queue) ==
  {i \in DOMAIN queue : /\ Defrag[queue[i].url] \notin visited[j]
                        /\ queue[i].depth <= job[j].max_depth}

(* Mutant: frontier.pop() instead of frontier.pop(0).                        *)
AdvanceLast(j, queue, count) ==
  /\ count < job[j].max_pages
  /\ \E i \in Fresh(j, queue) :
       LET page == [url |-> Defrag[queue[i].url], depth |-> queue[i].depth]
       IN  /\ \A k \in Fresh(j, queue) : i >= k
           /\ current' = [current EXCEPT ![j] = page]
           /\ visited' = [visited EXCEPT ![j] = @ \cup {page.url}]
           /\ frontier' = [frontier EXCEPT ![j] = SubSeq(queue, 1, i - 1)]
           /\ log' = [log EXCEPT ![j] = Append(@, page)]
  /\ status' = [status EXCEPT ![j] = "running"]
  /\ pc' = [pc EXCEPT ![j] = "validate"]

(* The loop pops entries until one is fresh, and suspends to validate it.    *)
Advance(j, queue, count) ==
  /\ count < job[j].max_pages
  /\ \E i \in Fresh(j, queue) :
       LET page == [url |-> Defrag[queue[i].url], depth |-> queue[i].depth]
       IN  /\ \A k \in Fresh(j, queue) : i <= k
           /\ current' = [current EXCEPT ![j] = page]
           /\ visited' = [visited EXCEPT ![j] = @ \cup {page.url}]
           /\ frontier' = [frontier EXCEPT ![j] =
                             SubSeq(queue, i + 1, Len(queue))]
           /\ log' = [log EXCEPT ![j] = Append(@, page)]
  /\ status' = [status EXCEPT ![j] = "running"]
  /\ pc' = [pc EXCEPT ![j] = "validate"]

(* The loop ends: enough pages, or nothing fresh is left to pop.             *)
Complete(j, queue, count) ==
  /\ count >= job[j].max_pages \/ Fresh(j, queue) = {}
  /\ frontier' = [frontier EXCEPT ![j] =
                    IF count >= job[j].max_pages THEN queue ELSE <<>>]
  /\ status' = [status EXCEPT ![j] = "completed"]
  /\ pc' = [pc EXCEPT ![j] = "done"]
  /\ UNCHANGED <<current, visited, log>>

Continue(j, queue, count) == Advance(j, queue, count) \/ Complete(j, queue, count)

(* The task may take its next step: it exists and no cancellation is due.    *)
At(j, point) == pc[j] = point /\ ~cancelling[j]

(* The task runs for the first time.                                         *)
Start(j) ==
  /\ At(j, "created")
  /\ Continue(j, <<[url |-> job[j].seed, depth |-> 0]>>, 0)
  /\ UNCHANGED <<parameters, progress, cancelling, sem, denied>>

ValidateOk(j) ==
  /\ At(j, "validate")
  /\ pc' = [pc EXCEPT ![j] = "robots"]
  /\ UNCHANGED <<status, parameters, progress, walk, cancelling, sem, denied>>

(* validate_and_pin raises: the page is skipped and counted nowhere.         *)
ValidateBlocked(j) ==
  /\ At(j, "validate")
  /\ Continue(j, frontier[j], crawled[j])
  /\ UNCHANGED <<parameters, progress, cancelling, sem, denied>>

RobotsDeny(j) ==
  /\ At(j, "robots")
  /\ denied' = [denied EXCEPT ![j] = @ \cup {current[j].url}]
  /\ Continue(j, frontier[j], crawled[j])
  /\ UNCHANGED <<parameters, progress, cancelling, sem>>

(* is_allowed re-raises the SSRFValidationError of the robots.txt fetch,     *)
(* which nothing in _crawl catches: the whole job fails.                     *)
RobotsRaise(j) ==
  /\ At(j, "robots")
  /\ status' = [status EXCEPT ![j] = "failed"]
  /\ pc' = [pc EXCEPT ![j] = "done"]
  /\ UNCHANGED <<parameters, progress, walk, cancelling, sem, denied>>

(* Allowed: take a permit and scrape, or queue for one.                      *)
RobotsAllow(j) ==
  /\ At(j, "robots")
  /\ IF CanTake(sem)
     THEN /\ sem' = Take(sem)
          /\ pc' = [pc EXCEPT ![j] = "scrape"]
     ELSE /\ sem' = Enqueue(sem, j)
          /\ pc' = [pc EXCEPT ![j] = "permit"]
  /\ UNCHANGED <<status, parameters, progress, walk, cancelling, denied>>

PermitGranted(j) ==
  /\ At(j, "permit")
  /\ j \in sem.woken
  /\ sem' = Resume(sem, j)
  /\ pc' = [pc EXCEPT ![j] = "scrape"]
  /\ UNCHANGED <<status, parameters, progress, walk, cancelling, denied>>

-----------------------------------------------------------------------------
(* The outcomes of scrape(url).  Leaving `async with self._sem` releases the *)
(* permit before the loop goes on.                                           *)

(* The link filter of the loop body, for a page at less than max_depth.      *)
Follows(j, u) ==
  /\ Netloc[u] = Netloc[job[j].seed]
  /\ Scheme[u] \in WebSchemes

(* Mutant: depth + 1 < max_depth.                                            *)
KeptShallow(j, found) ==
  IF current[j].depth + 1 < job[j].max_depth
  THEN {i \in DOMAIN found : /\ Defrag[found[i]] \notin visited[j]
                             /\ Follows(j, Defrag[found[i]])}
  ELSE {}

Kept(j, found) ==
  IF current[j].depth < job[j].max_depth
  THEN {i \in DOMAIN found : /\ Defrag[found[i]] \notin visited[j]
                             /\ Follows(j, Defrag[found[i]])}
  ELSE {}

(* The one increasing enumeration of a finite set of positions.              *)
Enumerations(S) ==
  {f \in [1..Cardinality(S) -> S] :
     \A i, k \in 1..Cardinality(S) : i < k => f[i] < f[k]}

ScrapeOk(j) ==
  /\ At(j, "scrape")
  /\ crawled' = [crawled EXCEPT ![j] = @ + 1]
  /\ pages' = [pages EXCEPT ![j] = Append(@, Final[current[j].url])]
  /\ \E found \in PageLinks[current[j].url] :
       /\ links' = [links EXCEPT ![j] = @ \cup
            {[from |-> current[j].url, depth |-> current[j].depth,
              to |-> Defrag[found[i]]] : i \in DOMAIN found}]
       /\ \E kept \in Enumerations(Kept(j, found)) :
            Continue(j, frontier[j] \o
                        [i \in 1..Cardinality(Kept(j, found)) |->
                           [url   |-> Defrag[found[kept[i]]],
                            depth |-> current[j].depth + 1]],
                     crawled[j] + 1)
  /\ sem' = Release(sem)
  /\ UNCHANGED <<parameters, failed, cancelling, denied>>

(* Mutant: the early `continue` skips the release.                           *)
ScrapeBlockedHolding(j) ==
  /\ At(j, "scrape")
  /\ Continue(j, frontier[j], crawled[j])
  /\ UNCHANGED <<parameters, progress, sem, cancelling, denied>>

(* SSRFValidationError: skipped and counted nowhere.                         *)
ScrapeBlocked(j) ==
  /\ At(j, "scrape")
  /\ Continue(j, frontier[j], crawled[j])
  /\ sem' = Release(sem)
  /\ UNCHANGED <<parameters, progress, cancelling, denied>>

(* Any other exception: counted in pages_failed.                             *)
ScrapeFailed(j) ==
  /\ At(j, "scrape")
  /\ failed' = [failed EXCEPT ![j] = @ + 1]
  /\ Continue(j, frontier[j], crawled[j])
  /\ sem' = Release(sem)
  /\ UNCHANGED <<parameters, pages, crawled, links, cancelling, denied>>

-----------------------------------------------------------------------------
(* Mutant: the status is changed and the task is left alone.                 *)
CancelDeaf(j) ==
  /\ status[j] # "absent"
  /\ status' = [status EXCEPT ![j] = "cancelled"]
  /\ UNCHANGED <<parameters, progress, walk, pc, cancelling, sem, denied>>

(* DELETE /v1/crawl/{job_id}: at any time, and again after the job ended.    *)
(* The status changes at once; the task learns of it when it next runs.      *)
Cancel(j) ==
  /\ status[j] # "absent"
  /\ status' = [status EXCEPT ![j] = "cancelled"]
  /\ cancelling' = [cancelling EXCEPT ![j] = pc[j] # "done"]
  /\ sem' = IF IsWaiting(sem, j) THEN Withdraw(sem, j) ELSE sem
  /\ UNCHANGED <<parameters, progress, walk, pc, denied>>

(* Mutant: acquire() and release() without a `finally`.                      *)
UnwindKeeping(j) ==
  /\ cancelling[j]
  /\ cancelling' = [cancelling EXCEPT ![j] = FALSE]
  /\ sem' = IF pc[j] = "permit" THEN GiveBack(sem, j) ELSE sem
  /\ status' = [status EXCEPT ![j] = "cancelled"]
  /\ pc' = [pc EXCEPT ![j] = "done"]
  /\ UNCHANGED <<parameters, progress, walk, denied>>

(* CancelledError leaves the await, every `async with`, and _run.            *)
Unwind(j) ==
  /\ cancelling[j]
  /\ cancelling' = [cancelling EXCEPT ![j] = FALSE]
  /\ sem' = CASE pc[j] = "permit" -> GiveBack(sem, j)
              [] pc[j] = "scrape" -> Release(sem)
              [] OTHER -> sem
  /\ status' = [status EXCEPT ![j] = "cancelled"]
  /\ pc' = [pc EXCEPT ![j] = "done"]
  /\ UNCHANGED <<parameters, progress, walk, denied>>

-----------------------------------------------------------------------------
Step(j) ==
  \/ Start(j)
  \/ ValidateOk(j)
  \/ ValidateBlocked(j)
  \/ RobotsDeny(j)
  \/ RobotsRaise(j)
  \/ RobotsAllow(j)
  \/ PermitGranted(j)
  \/ ScrapeOk(j)
  \/ ScrapeBlocked(j)
  \/ ScrapeFailed(j)
  \/ Unwind(j)

Client(j) ==
  \/ \E seed \in Urls, p \in AskedPages, d \in AskedDepths :
       CreateJob(j, seed, p, d)
  \/ Cancel(j)

Next == \E j \in Jobs : Step(j) \/ Client(j)

Spec == Init /\ [][Next]_vars

(* The event loop resumes every task that is ready, and name resolution and   *)
(* the fetch of robots.txt end.  A scrape need not: `await page.content()`,   *)
(* scraper.py:126, and what release() awaits after it, or after a             *)
(* cancellation, have no timeout.  Clients owe nothing.                       *)
Prompt(j) == pc[j] # "scrape" /\ Step(j)

FairSpec == Spec /\ \A j \in Jobs : WF_vars(Prompt(j))

-----------------------------------------------------------------------------
(* Properties.                                                               *)

(* The state has its type.                                                   *)
TypeOK ==
  /\ status \in [Jobs -> Statuses]
  /\ job \in [Jobs -> {NoJob} \cup Parameters]
  /\ pages \in [Jobs -> Seq(Urls)]
  /\ crawled \in [Jobs -> Nat]
  /\ failed \in [Jobs -> Nat]
  /\ visited \in [Jobs -> SUBSET Urls]
  /\ frontier \in [Jobs -> Seq(Entry)]
  /\ current \in [Jobs -> Entry \cup {None}]
  /\ pc \in [Jobs -> PCs]
  /\ cancelling \in [Jobs -> BOOLEAN]
  /\ sem \in [value : Nat, waiting : Seq(Jobs), woken : SUBSET Jobs]
  /\ log \in [Jobs -> Seq(Entry)]
  /\ links \in [Jobs -> SUBSET [from : Urls, depth : Nat, to : Urls]]
  /\ denied \in [Jobs -> SUBSET Urls]

(* Permits are neither lost nor invented, whichever way a scrape ends and    *)
(* wherever a DELETE meets the job: `async with self._sem` (crawler.py:139). *)
Scraping == {j \in Jobs : pc[j] = "scrape"}
PermitsConserved ==
  sem.value + Cardinality(sem.woken) + Cardinality(Scraping) = MaxConcurrency

(* The crawl is breadth first ("BFS", crawler.py:1): pages are visited once, *)
(* in order of depth, and none deeper than max_depth.                        *)
BreadthFirst ==
  \A j \in Jobs :
    /\ \A i, k \in DOMAIN log[j] :
         i < k => /\ log[j][i].depth <= log[j][k].depth
                  /\ log[j][i].url # log[j][k].url
    /\ \A i \in DOMAIN log[j] : log[j][i].depth <= job[j].max_depth

(* A page is visited at the least depth any page the job scraped links it    *)
(* from, although the frontier may hold it several times (crawler.py:162     *)
(* checks visited only), so max_depth never cuts off a page it should not.   *)
ShortestDepth ==
  \A j \in Jobs : \A l \in links[j] : \A i \in DOMAIN log[j] :
    log[j][i].url = l.to => log[j][i].depth <= l.depth + 1

(* A job that completes below max_pages has visited everything within reach  *)
(* ("only same-origin http/https URLs are followed", crawler.py:10): what is *)
(* of the seed's origin and linked from a scraped page that is not at        *)
(* max_depth.  Nothing is lost between the filter and the frontier.          *)
SameOrigin(j, u) == Follows(j, u) /\ Scheme[u] = Scheme[job[j].seed]

CompleteCrawl ==
  \A j \in Jobs :
    status[j] = "completed" /\ crawled[j] < job[j].max_pages =>
      \A l \in links[j] :
        l.depth < job[j].max_depth /\ SameOrigin(j, l.to) => l.to \in visited[j]

(* A URL robots.txt denied to a job is not scraped by that job later, when   *)
(* another link leads to it and the rules may have changed.                  *)
DeniedNeverScraped ==
  \A j \in Jobs : pc[j] \in {"permit", "scrape"} => current[j].url \notin denied[j]

(* What clients poll follows the lifecycle of a job, and the counters stop   *)
(* with it: a cancelled job neither resumes nor gains another page.          *)
Lifecycle == INSTANCE JobLifecycle WITH
  Limits   <- {OrDefault(asked, MaxPagesDefault) : asked \in AskedPages},
  limit    <- [j \in Jobs |-> job[j].max_pages],
  pages    <- crawled,
  failures <- failed
PollsFollowLifecycle == Lifecycle!Spec

(* A job none of whose scrapes hangs ends, whatever becomes of its pages, if  *)
(* scrapes of the others that hang do not keep every permit for good: the     *)
(* permits that are given back do reach whoever waits.                        *)
EveryJobEnds ==
  \A j \in Jobs :
    []<>(pc[j] # "scrape") /\ []<>(Cardinality(Scraping) < MaxConcurrency)
    => (status[j] = "queued" ~> status[j] \in Terminal)
=============================================================================
