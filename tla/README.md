# A verification project for BlazeCrawl Core

BlazeCrawl Core (`src/blazecrawl_core`) is a self-hosted service that scrapes, maps and
crawls web sites: a FastAPI application whose crawl jobs, browser pool and caches all live
in one process and on one asyncio event loop. These TLA+ modules model its stateful parts,
the `.cfg` files check them with TLC, and the `*Proofs` modules prove what matters most
with TLAPS. `PROJECT.json` maps every definition to the lines it models.

## 1. The system

| Component | State it keeps | Operations | Talks to |
|---|---|---|---|
| Crawl jobs, `engine/crawler.py` | `_jobs`, `_tasks`, one semaphore; per task `frontier`, `visited` | `create_job`, `cancel`, `_run`, `_crawl` | robots, scraper, SSRF policy |
| Browser pool, `engine/browser_pool.py` | browser, contexts, queue, semaphore, class lock, error and restart counters | `startup`, `shutdown`, `acquire`, `release`, `_recycle_context`, `_restart_browser` | Playwright, egress proxy |
| HTTP API, `api/main.py` | none of its own | `/v1/scrape`, `/v1/map`, `/v1/crawl` (POST, GET, DELETE), `lifespan` | all of the engine |
| Scraper, `engine/scraper.py` | none | static fetch, fallback to a browser, cache | pool, egress, extractor, cache |
| robots.txt, `engine/robots.py` | `_cache` of parsed rules | `is_allowed`, `clear_cache`, `get_crawl_delay` | egress client |
| Scrape cache, `engine/cache.py` | `_memory_cache`, or Redis | `get`, `set` | - |
| Site mapper, `engine/mapper.py` | per call: `seen`, `urls` | walk over sitemaps | egress client, robots |
| Content extractor, markdown, URL normalizer | none | pure functions | - |
| Egress client, `network/egress.py` | per call: hop count, current URL | `safe_fetch`, request guard of the browser | SSRF policy |
| SSRF policy, resolver | none | resolve, validate, pin | DNS |
| Browser egress proxy, `network/browser_proxy.py` | slots, open handlers | tunnel, `close` | SSRF policy |
| API key, `api/keyfile.py`, `api/auth.py` | a key file on disk | create or read | file system |
| SDKs, `sdks/`; MCP servers, `mcp/`; `cli.py` | none | requests, with or without retries, polling of jobs | HTTP API |
| Configuration, errors, logging, README demo scripts | none | constants, output | - |

How they interact. An HTTP handler is a task, every crawl job is one more
(`asyncio.create_task`), and so is every browser restart. Tasks share module-level state
(`_jobs`, the pool singleton, `_cache`) and lose control only at an `await`; between two
awaits nothing intervenes. A job asks the SSRF policy and robots.txt about each URL, takes a
permit of the crawl semaphore, and scrapes; a scrape may borrow a context from the pool,
which takes a permit of another semaphore.

What is hard about it: cancellation, which may strike at any await and passes by
`except Exception`; permits that are handed over to a task that is cancelled before it
runs; a browser that crashes while contexts of it are lent, queued and being replaced;
`startup`, `shutdown` and restarts that queue for one lock and each replace state others
still use; and answers of the network that arrive in another order than the questions.

What makes each component correct:

* Crawl jobs: permits are conserved; breadth first, each page once, depth limit exact; all
  within reach is visited; denied pages stay out; pollers see a sane lifecycle; jobs end unless
  their scrapes hang.
* Browser pool: one scrape per context; contexts, counts and permits accounted for; no
  browser forgotten; restarts bounded; `acquire` ends.
* robots.txt: answers rest on recent rules, changes are obeyed within the TTL; the matching
  chooses the group and the longest rule.
* Scraper and its cache: a second fetch never costs what the first one had; a cached answer is
  recent and one to the same question.
* Mapper: the walk ends, within its limits, and the result has what was found.
* Egress: every hop is validated and pinned, the number of hops is bounded.
* Proxy: it dials what it has vetted itself; waiting for a slot ends; `close` ends and leaves
  nothing behind.
* Key file: whatever starts race or crash, one key lives.
* Clients of the API: calls end; what a retry may duplicate is bounded.

## 2. The modules

| Module | Models | Uses |
|---|---|---|
| `AsyncSemaphore` | `asyncio.Semaphore` of Python 3.12 (external): permits, the waiting line, permits handed over, cancellation | - |
| `CrawlManager` | `crawler.py` and the crawl endpoints | `AsyncSemaphore` |
| `JobLifecycle` | abstract: what a client that polls a job may see | - |
| `BrowserPool` | `browser_pool.py`, its use in `scraper.py` and `lifespan` | `AsyncSemaphore` |
| `RobotsCache` | the cache of `robots.py` and overlapping fetches | - |
| `Egress` | `validate_and_pin` of `ssrf.py` and the clients of `egress.py`, with redirects and a DNS that changes | - |
| `RobotsRules` | what `robots.py` makes of a file, line by line, and of a path | - |
| `BrowserProxy` | `browser_proxy.py` and the request guards in front of it | `AsyncSemaphore` |
| `ScrapeService` | `/v1/scrape`: `scraper.py`, `cache.py`, the engines of `content_extractor.py` | - |
| `Mapper` | `/v1/map`: `mapper.py` | - |
| `KeyFile` | the first start of a server: `keyfile.py`, `auth.py` | - |
| `ApiClient` | the Python and Node SDKs, the CLI and the MCP servers, as clients of the API | - |
| `WaysOut` | both ways to the network, side by side | `Egress`, `BrowserProxy` |
| `Services` | five components that share no state, side by side | `ScrapeService`, `KeyFile`, `ApiClient`, `RobotsRules`, `Mapper` |
| `MCCrawlManager`, `MCBrowserPool`, `MCRobotsCache`, `MCEgress`, `MCServices` | small instances | |
| `MCCrawlClaims`, `MCPoolClaims`, `MCRobotsRules` | what documentation or a test says and the code does not do | |
| `AsyncSemaphoreProofs`, `CrawlManagerProofs`, `RobotsCacheProofs`, `EgressProofs`, `BrowserPoolProofs`, `BrowserProxyProofs`, `ServicesProofs`, `KeyFileProofs` | proofs | TLAPS |

An action is everything a task does from one suspension point to the next, so the grain of
interleaving is the event loop's (in `KeyFile` a call to the file system, since processes race
there; in `ApiClient` a request). `pc` names the await a task is suspended in. Operators
marked *Mutant* are bugs a maintainer might make; each is the one that breaks a certain
property, to show that the property depends on the code. They are not part of any `Next`.

**CrawlManager.** `status`, `job`, `pages`, `crawled`, `failed` are the fields of
`CrawlJobState` (`pages` keeps the URL of each page), `visited` and `frontier` the locals of
`_crawl`, `sem` is `_sem`. `Start` is the first run of the task; `Validate*`, `Robots*` and
`Scrape*` are the outcomes of the three awaits on the network; `PermitGranted` the end of the
wait for a permit. Every one of them ends in `Continue`: the loop pops entries until one is
fresh, or ends. `Cancel` is the DELETE handler, which changes the status at once, and
`Unwind` the `CancelledError` reaching the task. `log`, `links` and `denied` are history
for the properties. A web is given by constants: `Defrag`, `Netloc`, `Scheme`, where
redirects end (`Final`), and the lists of links a fetch may find (`PageLinks`). Timestamps
and the text of pages are left out.

**BrowserPool.** A browser is the number of its launch, `launches` the number of drivers started so far, a context the pair of its launch and
an identity not in use. `line` is the class lock: the holder, then those that wait.
Playwright is external: a call succeeds or raises, always raises when its browser is gone, and
raises by itself at most `MaxFaults` times, crashes included. `Cancel` may strike a client in
any await of `acquire` or `release`, at most `MaxCancels` times; at the launch
the driver goes on without the task (`Abandoned`), so a Chromium may run while `_browser` is None, until its driver is stopped,
if no later start has overwritten `_playwright`. `sems` lists every semaphore `startup` ever
made, because releases go to the latest one whichever was acquired. `errors` is kept modulo the
pool size, which is how the code reads it. The driver's own state, the egress proxy and the
metrics are left out. No scrape begins between the end of `lifespan` and of the event loop.

**RobotsCache.** `cache` is `_cache`, keyed by netloc; rules are the set of paths they deny.
A fetch is three steps: it begins (and reads the clock), the site answers, it ends. Rules carry
where and when they were served, and `verdict` the last answer with the entry it rests on:
history, which no action reads.

**Egress.** A fetch is the locals of one `request()`: `url` is `current_url`, `hop` the loop
variable, `answer` and `of` the addresses and the hostname of the `PinnedTarget`. `Resolved` is the return
of `getaddrinfo` and everything up to the next await, `Connected` the connection to the pin and
the request, `Redirected` and `Answered` what comes back, `Fails` any exception that is no
`SSRFValidationError`. A request of the proxied client
is `BeginProxied`, which ends where it begins: `validate_proxy_endpoint` imports a name `ssrf.py` does not define
(`egress.py:367`), so nothing is ever sent by proxy. Nothing in the repository uses that client, tests included. `DnsChanges` may
happen between any two steps. Which addresses are blocked is the constant `Blocked`: the
arithmetic of `ip_utils.py` is left out. `sent` is history.

**RobotsRules.** `Read` is the loop of `_get_parser` for one line; `file` is history, `rules`,
`agents` and `group` the variables of the loop. `Allowed` is `is_allowed`, evaluated after every
line: each state is a file that ends there. The model has one path; which patterns match it, and how
long they are, are constants. `LongestRuleApplies` compares the answer with a definition over
line numbers that knows nothing of groups in the making.

**BrowserProxy.** A connection is what one request of Chromium takes: `conn` is the await its
guard or its handler is suspended in, `slots` the semaphore `_slots`, `answer` and `untried` the
addresses of `_validated_socket` and those not yet dialled, `upstream` where the tunnel leads.
`Browse` goes through the guard of a page, `Unguarded` past it, as the first request of a
popup may, or as Chromium does that connects ahead of any request (`Nobody`). `Lose` is a reset
nobody notices before the next read. `Close`, `Drop` and `Closed` are the three parts of `close()`:
the listening socket, the return of `wait_closed()` and the cancellation of every handler left,
and the return of `gather()`; `Cancelled` is the exception reaching a handler.

**ScrapeService.** A request is suspended in its static fetch, in a browser fetch, or in the
second, browser fetch after a thin static one (`stage`). `store` is `_memory_cache` with its
expiries; it is read when a request starts and written with its answer, so overlapping
requests miss together and the last one to end overwrites. A page is what each extraction engine makes of
it, as a number of words; every fetch may bring another page. `Words` is the order of the
engines in `extract`.

**Mapper.** The recursion of `_collect_sitemap_urls` is a worklist, `todo`, whose head is the call to make;
a call that returns at once is `Skip`, one that fetches `Collect`. `cands` are the candidates not yet tried, `seen` and
`found` the set and the list the code passes along. What a sitemap serves is a constant set per URL, and nothing at all is
always possible. A candidate is fetched to see whether it is a sitemap (`Probe`), whatever
is seen and found by then; if it is, it is walked, which fetches it again. The loop at the end is `Filter`, a URL at a time; `rest` is
what it has still to look at. `is_private_ip` asks the DNS anew for every URL, so it may refuse any, the seed included, and
allow the next of the same host. `Reject` is every way a map fails as a whole. `fetched` (which sitemap, as a candidate or in a walk,
how deep, with how much found) and `refused` are history; `Scheme` is a constant only the properties speak of, since no code
compares it.

**KeyFile.** `exists`, `content` and `synced` are the file, `at` the call a server makes next. `Stop`
ends a process between any two calls, `PowerFails` the machine, which forgets what was not
synced, and `Remove` is the operator who deletes a malformed file as the error message says.
`shown` and `drawn` are history.

**ApiClient.** `kind` says how clients differ: how often they retry, at which statuses they
raise, how long they poll. `Post` and `Get` are one try each, with every answer it may get,
lost ones included: the server may have made a job nobody will hear of. `ServerRestarts`
forgets all jobs. What the server does with a job is `JobEnds`; `CrawlManager` has the rest.

**Services and WaysOut** put components that share no state side by side. A behaviour is one of a single component,
chosen at the start (`scope`), and the others keep initial values: what TLC checks is a sum and not a product, and no
property of one could depend on another.

## 3. What is checked

| Run | Instance | Shows |
|---|---|---|
| `CrawlJobs` | one job on ten URLs, limits 1, 2 and 10 pages, depth 1, 2 and 3; or three jobs on two URLs, two permits, scrapes that may hang | `TypeOK`, `BreadthFirst`, `ShortestDepth`, `CompleteCrawl`, `DeniedNeverScraped`, `PermitsConserved`, refinement of `JobLifecycle`, `EveryJobEnds` |
| `PoolCancels` | two scrapes, one restart slot, pool and permits 2, one fault, one cancellation | `NoSharedContext`, `ContextsAccountedFor`, `ActiveExact`, `PermitsAccountedFor` |
| `PoolRestarts` | two scrapes, two restart slots, pool and permits 1, two faults or a fault and a cancellation | `TypeOK` (with the restart limit), `NoOrphanBrowser`, `AcquireEnds` |
| `Robots` | two calls, an https and an http origin of one host, one path, TTL 2, clock to 3 | `TypeOK`, `AnswersRecent`, `ChangesObeyed` |
| `Egress` | fetches one after another, direct or by proxy, two hosts, URLs of three schemes, four DNS answers, 2 redirects; or three connections at a proxy with one slot | `TypeOK`, `OnlyVetted`, `NeverDowngraded`, `HopsBounded`, `FetchEnds`; `ProxyTypeOK`, `ProxyOnlyVetted`, `QuietAfterClose`, `RequestServed`, `CloseEnds` |
| `Services` | one of: two servers and three keys; a call of each of five kinds of clients and one restart; three scrapes, four kinds of queries and three pages; files of five lines over three names and three patterns; ten URLs, one of another scheme and one of another host, with five sitemaps | `TypesOK`; `OneKey`; `DuplicatesBounded`, `CallEnds`; `NothingLost`, `HitHonest`; `LongestRuleApplies`; `WalkBounded`, `PagesKept` |

Why these bounds. The larger web of `CrawlJobs` has a diamond (entries twice in the frontier, with
different depths), a long and a short way to one page, fragments, a link back, a redirect, and
links to another host, to ftp and to the http form of the site; every page may be blocked, denied or fail, so every subset of
it is explored. `BothSpec` lets a behaviour have one job on it, or
jobs that ask for one page of the smaller web, and keeps from clients nothing else. Three jobs and two permits are enough for every handover of a permit, with a
cancellation before, during and after it, also while one scrape hangs for good and two jobs compete for the permit left. In the pool two scrapes meet each other in the queue
and at the lock, and `lifespan` and a restart are there as third and fourth tasks; one fault
in a pool of two makes one context healthy and one not, or kills the browser with both lent;
two faults are what lets a second restart be due while the first is under way. With TTL 2 and a
clock to 3, rules are fresh, exactly as old as the TTL, and older; two calls are what an
overwritten entry takes. Fetches share nothing, so one slot that is used again and
again shows what many would; two redirects are enough to leave a
scheme and come back, and to lead in a circle. At the proxy one connection has the slot, one waits for
it and one arrives or leaves, also while `close()` cancels all three. Two servers are the race for the key file, a third
key what a start after both needs. Three scrapes let one fill the cache, one hit it and one overwrite it, with a clock that
passes the TTL in between. Five lines are two groups with a rule each and two names for one of
them, or three rules in a group. The sitemaps refer to each other in circles and chains longer than the depth limit, and find more
than a result holds. Three polls stand for 600 of the MCP servers and for the CLI's: what happens at the limit does not
depend on it.

`CHECK_DEADLOCK FALSE` in the pool's runs: after `lifespan` has ended nothing runs any more; in `Egress`, `Services`
and `ClaimEmptyDisallow`: a closed proxy, a call, a map, a scrape and a file come to an end.
Symmetry is used only in runs of invariants.

**Fairness.** `CrawlManager!FairSpec`: weak fairness of each job's `Prompt` steps, which are all but those that end a
scrape: the event loop resumes what is ready, and name resolution and the fetch of robots.txt have timeouts. A scrape has
none at `await page.content()` (`scraper.py:126`) and at the closes of `release`, so a page that keeps its renderer busy
keeps the permit and the job, even a cancelled one. `EveryJobEnds` is therefore conditional: a job none of whose scrapes
hangs ends, if not all permits are with scrapes that hang. Nothing
is assumed of clients, so a job is never assumed to be cancelled. `BrowserPool!FairSpec`:
weak fairness of lock steps, restart steps and the steps of a scrape inside `acquire` (`Acquiring`); what a scrape does with
its context, and `release`, may hang. The three waits of `acquire` have timeouts, and `asyncio.Lock` is first come, first
served (it is so in the model by the shape of `line`); that Playwright answers `new_context()` and `close()` within `acquire`, `startup` and
`shutdown`, where they have no timeout, is assumed. No fairness of `Acquire`, `Cancel`, `Crash` or `AppStops`. `Egress!FairSpec`: weak fairness of
each fetch's steps, since name resolution ends and httpx has a timeout; none of the DNS.
`BrowserProxy!Fairness`: weak fairness of each handler, since every read of a header, connection and idle tunnel is under
`wait_for`, and the resolver has a timeout of its own; and of the returns of `wait_closed()` and `gather()`, whose
guards say what they wait for. Nothing makes Chromium reset a connection: tunnels that are in use all
the time are not modelled, and an upstream peer that does not read is assumed to go away.
`Services!Fairness`: a try of a client ends, in an answer or in its timeout. That a job of the server ends is assumed there: it
does so while no scrape hangs (`EveryJobEnds`), and a client that polls without limit would otherwise poll for ever. None of `ServerRestarts`.

**Assumed of what is outside.** `asyncio` is that of Python 3.12: the semaphore as in `AsyncSemaphore`, and
`wait_closed()` waits for open connections. `O_EXCL` is atomic and `fsync` of a new file keeps its
directory entry; a short `os.write` is left out. The operator removes a malformed key file only when no start is under
way. `time.time()` does not go back.

**Divergences found.** Six runs expect a violation:

* `ClaimDepth`: `max_depth or default` (`crawler.py:78`) turns an asked depth of 0, which the
  schema admits, into the default.
* `ClaimRobots`: robots.txt is asked about the URL before the redirects, so a job can return a
  page whose own URL it was denied (`crawler.py:141`).
* `ClaimOrigin`: links are followed by netloc, http or https, so a job of an https seed visits http URLs of its host
  (`crawler.py:164`), while the module, the CLI and the MCP servers say same-origin. `CompleteCrawl` asks for the pages
  of the seed's origin only.
* `ClaimRestart`: a crash leads to a restart only if an error of recycling makes
  `_total_errors` a multiple of the pool size; timeouts move that counter too. The pool can
  end without contexts and without anything left to ask for a restart (`browser_pool.py:277`).
* `ClaimDisallow`: a robots.txt fetch that fails overwrites the disallow another call
  retrieved meanwhile (`robots.py:88`).
* `ClaimEmptyDisallow`: a group is complete only once it has a rule, and an empty `Disallow` is
  none, so the names above it run on into the next group and take its rules (`robots.py:72`).

One more has no run of its own: the result of a map is filtered by netloc and by no scheme (`mapper.py:155`), so the map of an
https site keeps its http and ftp URLs, while the comment above the filter says "same-origin + public only". `PagesKept` asks for
what is of the seed's origin, and says of the rest only that it is of the netloc.

Some behaviour is in the models and is no finding, because no document promises otherwise: the
proxied egress client raises an `ImportError` at its first request, which nobody makes; a scrape that hangs keeps its crawl
permit for good; a task cancelled while it awaits the launch of Chromium may leave one that `_browser` does not name
(`browser_pool.py:154`); candidates for sitemaps are fetched without limit, seen or not, and also when the result is full
(`mapper.py:139`); a name that no longer resolves is taken for public by `is_private_ip`, and one that now resolves to a private address
drops its URLs from a map, the seed's too; a
failed validation of the robots.txt fetch fails the whole job (a test has it propagate);
pages that fail do not count toward `max_pages`; http and https origins of a host share rules;
`release` may raise the new semaphore above its limit after a restart; `shutdown` leaves closed
contexts in the lists, so that after a restart the pool may hold more than `pool_size`; a
cancelled `acquire` keeps its permit, and a context if it had taken one
(`PermitsAccountedFor` and `ContextsAccountedFor` are exact only until the first cancellation);
a group of robots.txt that names both everyone and somebody else counts as one that names us;
a request for HTML only has no words by the count that triggers the second fetch, so it is
always tried with a browser too; the longer of the two answers is taken whatever its status; a sitemap met first too deep in one branch
is not walked deeper from another; one malformed URL loses a whole map; a retried POST may start a second
crawl job nobody polls; an MCP tool polls a job it never got to the end of its 600 tries.

## 4. What is proved

Every theorem holds for all values of the constants under the assumptions the modules name.

**AsyncSemaphoreProofs**: facts of the semaphore (types, what each operation does to the sum of
free and handed-over permits), cited by the proofs about `CrawlManager`, `BrowserPool` and `BrowserProxy`.

**CrawlManagerProofs**, assumptions `JobsAssumption`, `UrlAssumption`, `LimitAssumption`:

* `Typing` and `PermitsAlwaysConserved`. The inductive invariant adds to the type which state
  goes with which `pc` (`Shape`) and that a waiting or handed-over permit belongs to a
  job suspended at `permit` and to no other (`SemOK`): without it a release could hand a permit to a
  job that is no longer there to take it.
* `CrawlsBreadthFirst`, `VisitsAtShortestDepth`, `CrawlsCompletely`. The invariant `Walk` says
  that the frontier is ordered by depth and spans at most two levels, that `log` is ordered and bounded by
  it, and that every followable link found is visited or in the frontier.
* `DeniedStaysOut`: what is denied has been visited and is not the current page (`Course`).
* `ImplementsLifecycle`: initial states and every step map to `JobLifecycle`, with `crawled`
  and `failed` as the counters a client polls.

**RobotsCacheProofs**, assumptions `OriginAssumption`, `NoneAssumption`, `TimeAssumption`:
`Typing`, `AnswersAlwaysRecent`, `ChangesAlwaysObeyed`. The invariant says of every entry, in
the cache or under way, that it is stamped no later than it was served, and that its rules are
still the site's unless the site changed at or after that time; the properties are no induction by
themselves, since they speak of the last answer only.

**EgressProofs**, assumptions `UrlAssumption`, `AnswerAssumption`, `LimitAssumption`: `Typing`,
`OnlyVettedHosts`, `NoChainDowngrades`, `HopsAlwaysBounded`. The properties speak of what was
sent; the invariant adds what a fetch about to send must satisfy (`Working`): its target was
vetted for the current URL, nothing was sent in this hop yet, and if anything went by https the
current scheme is not http. The last is what makes a comparison of neighbours enough. From `ProxyAssumption` on, the
composition `WaysOut`: a behaviour of it is one of `Egress` and one of `BrowserProxy` (`ClientOfBoth`, `ProxyOfBoth`), so
each keeps what it keeps alone: `ClientsKeepTheirs`, and for the proxy `ProxyTyping`, `OnlyVettedDialled`, `QuietWhenClosed`.

**BrowserProxyProofs**, from: answers are sequences, connections are finitely many, `Slots` is a number (the first is all
that `Typing` and `OnlyVettedDialled` need).

* `Typing`: the state has its type.
* `OnlyVettedDialled`: nothing is connected before an answer was vetted (`Unconnected`), and what is still to be
  dialled is part of that answer (`Dialling`), through any number of failed dials.
* `QuietWhenClosed`: every permit is free, promised to a handler that waits, or one handler's
  (`SlotsOK`, by the lemmas of `AsyncSemaphoreProofs`); once handlers were cancelled nobody waits in line, and who was
  cancelled stays until the exception has reached him (`Closing`). When no handler is left, all permits are therefore free.

**ServicesProofs**, from `ServicesAssumption`, which is the `ConstantsOK` of each component: theorems of the composition
`Services`. The invariant is the conjunction of one for each component, which only that component's steps change.

* `HitsHonest`, `NothingEverLost`: an entry of the cache lies under the key of its own query, was rendered as that query
  allows and expires at most a TTL from now (`Stored`); a first result is kept only by a request in, or after, its second
  fetch and answers that request's query (`Course`).
* `DuplicatesAlwaysBounded`: while a call posts, it has made at most one job per try that failed (`CallsInv`).
* `LongestAlwaysApplies`: the parser's groups are those of the file as a whole. A group is the set of lines that name it;
  every group read has one, in the order of the file, with the rules below it (`Groups`), and what is being read belongs to
  the lines a rule that came next would belong to (`Open`, `Understood`). An agent line and a rule are a lemma each
  (`AgentRead`, `RuleRead`); that the code then picks the right group (`TheGroup`) and the right rule (`LongestDecides`)
  rests on a set of numbers having a least element and a finite one a largest (`LeastNat`, `Largest`).
* `WalkAlwaysBounded`: what a walk has fetched is in `seen`, each once, and the rest of the fetches are of candidates
  (`Walks`). `PagesAlwaysKept`: in the loop at the end, what was found is in the
  result, still to be looked at, refused by the DNS, or of another netloc (`Filtering`).
* `OneKeyAlways`, which is `OneKeyLives` of `KeyFileProofs`; and `ServicesTyping`.

**KeyFileProofs**, no assumptions: `Typing`, `OneKeyLives`. The invariant adds that at most one server writes, into a
file it has made, what it has drawn (`OneWriter`): without it a file could be filled with another's key between two calls.

**BrowserPoolProofs**, assumptions `TaskAssumption`, `NoneAssumption`, `SizeAssumption`: for any number of scrapes and
restarts, crashes and cancellations, and any size of the pool.

* `OrphansComeOfCancels`: the Chromiums `_browser` does not name are no more than the cancellations there were, since no other
  step adds one (`StraysComeOfCancels`), and a cancellation at most one. In `line` are exactly the
  tasks that wait for the class lock or have it, each once, and who is in a locked section is first (`InLine`); it follows that a
  launch finds `_browser` None, and that it names no Chromium that runs when the driver is stopped (`OneBrowser`). A cancelled task leaves the line wherever it stands.
* `ContextsApart`, `ContextsListed`, `ActiveCounts`: free and lent contexts are distinct and listed, and when nothing was
  cancelled nothing else is (`Circulate`); a scrape has a context at the awaits of `Holders` only and counts as
  active at those of `Busy` only. The five ways a context moves, and that a new one is new, are a lemma each (`TakeOne`, `PutBack`, `StrikeOut`,
  `LoseOne`, `AddOne`, `NewIsNew`), and every action is a composition of them.
* `PermitsKept`: a client is served by the semaphore it waits on and by no other (`SemInv`), so that every step moves one
  client and at most one semaphore (`DealKeeps`): the permit the client gains there it owns, the one it gives up is there
  again. The sum over all semaphores ever made is the size of a set of numbered permits (`Tagged`), which a lemma each
  says what one changed and one more semaphore do to (`OneChanges`, `OneMore`).
* `TypeCorrect`: the four invariants together; the filling of the pool stops at its size because the lock is held (`FillInv`).

Only model-checked: liveness (`EveryJobEnds`, `AcquireEnds`, `FetchEnds`, `RequestServed`, `CloseEnds`, `CallEnds`), which
is out of the prover's reach, as are `ENABLED` and induction over data; and what the six claims refute. Every invariant of a
passing run is a theorem.

## 5. What is not modelled, and the plan

Not modelled, because there is no state to get wrong: the layout of markdown (`markdown_converter.py`); the HTML processing of
`content_extractor.py` beyond the order of its engines; the address arithmetic of `ip_utils.py` (the constants
`Blocked` and `Forbidden`); percent-encoding and wildcards of robots patterns (`Matches`); `doctor`, `health` and the
printing of the CLI; configuration (constants here), errors and logging. `url_normalizer.py`, the test resolver and the curl
and Chromium rules of `ssrf.py` are called by nothing but tests, and `scripts/readme_demo` draws a picture.
The Redis variant of the cache is the same `get` and `set` with the expiry kept by Redis.

Planned next:

1. A scrape of `ScrapeService` that borrows from an abstract pool which `BrowserPool` implements, as a theorem.
2. More of what a client of the API sees, proved of `ApiClient` with `JobLifecycle` as its server.
