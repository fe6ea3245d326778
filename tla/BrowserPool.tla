---------------------------- MODULE BrowserPool ----------------------------
(* The pool of Playwright contexts of blazecrawl_core/engine/browser_pool.py, *)
(* used by scraper._fetch_browser (acquire ... finally release) and by the    *)
(* lifespan of api/main.py (startup, shutdown).                               *)
(*                                                                            *)
(* An action is what a task does between two awaits.  Playwright is external: *)
(* a call to it succeeds or raises, and the Chromium process may crash.       *)
EXTENDS Naturals, Sequences, FiniteSets, AsyncSemaphore

CONSTANTS
  Clients,        \* the scrapes that may want a browser
  Restarters,     \* slots for _restart_browser tasks in flight
  App,            \* the task that runs lifespan
  None,
  PoolSize,       \* BROWSER_POOL_SIZE
  MaxConcurrent,  \* MAX_CONCURRENT_SCRAPES
  MaxAttempts,    \* MAX_RESTART_ATTEMPTS
  MaxFaults,      \* bound: crashes and Playwright calls that fail on their own
  MaxCancels      \* bound: scrapes cancelled while they wait

ASSUME TaskAssumption ==
  /\ IsFiniteSet(Clients)
  /\ Clients \cap Restarters = {}
  /\ App \notin Clients \cup Restarters
ASSUME NoneAssumption == None \notin [gen : Nat, id : Nat]
ASSUME SizeAssumption ==
  /\ PoolSize \in Nat \ {0}
  /\ MaxConcurrent \in Nat \ {0}
  /\ {MaxAttempts, MaxFaults, MaxCancels} \subseteq Nat

VARIABLES
  browser,   \* _browser: which launch it came from, 0 for None
  live,      \* the launches whose Chromium is connected
  launches,  \* how many drivers were started; _playwright is the last or None
  shut,      \* _is_shutdown
  all,       \* _all_contexts
  queue,     \* _available_contexts
  holding,   \* the context a client works with
  on,        \* the launch a client is creating a replacement context on
  active,    \* _active_count
  sems,      \* the semaphores made so far; the last one is _semaphore
  waitsOn,   \* the one a client waits on
  line,      \* the class lock: its holder, then who waits for it
  filled,    \* contexts the startup under way has created
  errors,    \* _total_errors modulo PoolSize, the way the code reads it
  attempts,  \* _restart_attempts
  due,       \* _restart_browser tasks created that have not run yet
  pc,        \* the await each task is suspended in
  faults, cancels   \* how often the bounded environment has struck

chromium == <<browser, live, launches>>
loans    == <<queue, holding, active>>
permits  == <<sems, waitsOn>>
restart  == <<errors, attempts, due>>
bounds   == <<faults, cancels>>
vars == <<chromium, shut, all, loans, on, permits, line, filled, restart,
          pc, bounds>>

Tasks == Clients \cup Restarters \cup {App}
Context == [gen : Nat, id : Nat]

Init ==
  /\ browser = 0 /\ live = {} /\ launches = 0
  /\ shut = TRUE
  /\ all = {}
  /\ queue = <<>> /\ active = 0
  /\ holding = [c \in Clients |-> None]
  /\ on = [c \in Clients |-> 0]
  /\ sems = <<>>
  /\ waitsOn = [c \in Clients |-> 0]
  /\ line = <<>> /\ filled = 0
  /\ errors = 0 /\ attempts = 0 /\ due = 0
  /\ pc = [t \in Tasks |-> CASE t \in Clients -> "idle"
                              [] t \in Restarters -> "off"
                              [] OTHER -> "boot"]
  /\ faults = 0 /\ cancels = 0

At(t, point) == pc[t] = point
Go(t, point) == pc' = [pc EXCEPT ![t] = point]

Fault == faults < MaxFaults /\ faults' = faults + 1 /\ UNCHANGED cancels

(* What Playwright does on a launch that is gone, or else by a fault.        *)
Raises(gen) == IF gen \in live THEN Fault ELSE UNCHANGED bounds

Current == Len(sems)
OnSem(i, value) == sems' = [sems EXCEPT ![i] = value]
Free == {queue[i] : i \in DOMAIN queue}
Held == {holding[c] : c \in Clients} \ {None}

(* A new context differs from every one the program still refers to.         *)
Unused == CHOOSE n \in 1..(Cardinality(all \cup Free \cup Held) + 1) :
            n \notin {x.id : x \in all \cup Free \cup Held}
NewContext(gen) == [gen |-> gen, id |-> Unused]
Healthy(x) == x.gen \in live
Bump == errors' = (errors + 1) % PoolSize

-----------------------------------------------------------------------------
(* acquire(), from the permit on.                                            *)

Lend(c, x) ==
  /\ holding' = [holding EXCEPT ![c] = x]
  /\ active' = active + 1
  /\ Go(c, "using")

(* Mutant: the context is counted as lent before it is checked.              *)
FetchEager(c, q) ==
  IF q = <<>>
  THEN Go(c, "context") /\ queue' = q /\ UNCHANGED <<holding, active>>
  ELSE /\ queue' = Tail(q)
       /\ holding' = [holding EXCEPT ![c] = Head(q)]
       /\ active' = active + 1
       /\ Go(c, IF Healthy(Head(q)) THEN "using" ELSE "swapClose")

(* The first get(): what it returns is checked.                              *)
Fetch(c, q) ==
  IF q = <<>>
  THEN Go(c, "context") /\ queue' = q /\ UNCHANGED <<holding, active>>
  ELSE /\ queue' = Tail(q)
       /\ IF Healthy(Head(q))
          THEN Lend(c, Head(q))
          ELSE /\ holding' = [holding EXCEPT ![c] = Head(q)]
               /\ Go(c, "swapClose")
               /\ UNCHANGED active

(* The second get(): what it returns is not.                                 *)
SecondGet(c, q) ==
  IF q = <<>>
  THEN /\ Go(c, "context2")
       /\ queue' = q
       /\ holding' = [holding EXCEPT ![c] = None]
       /\ UNCHANGED active
  ELSE queue' = Tail(q) /\ Lend(c, Head(q))

Permit(c, q) ==
  IF CanTake(sems[Current])
  THEN /\ OnSem(Current, Take(sems[Current]))
       /\ Fetch(c, q)
       /\ UNCHANGED waitsOn
  ELSE /\ OnSem(Current, Enqueue(sems[Current], c))
       /\ waitsOn' = [waitsOn EXCEPT ![c] = Current]
       /\ queue' = q
       /\ Go(c, "permit")
       /\ UNCHANGED <<holding, active>>

-----------------------------------------------------------------------------
(* startup(), with t first in line for the class lock.                       *)

(* It returned: acquire goes on, _restart_browser counts the success.        *)
Started(t, q) ==
  \/ t \in Clients /\ Permit(t, q) /\ UNCHANGED attempts
  \/ /\ t \in Restarters
     /\ Go(t, "off")
     /\ queue' = q /\ attempts' = 0
     /\ UNCHANGED <<holding, active, permits>>
  \/ /\ t = App
     /\ Go(t, "up")
     /\ queue' = q
     /\ UNCHANGED <<holding, active, permits, attempts>>

(* It raised: acquire raises, the restart task dies, and lifespan goes on    *)
(* with static fetches only.                                                 *)
Aborted(t) == Go(t, CASE t \in Clients -> "idle"
                      [] t \in Restarters -> "off"
                      [] OTHER -> "up")

(* Mutant: _browser is not looked at again under the lock.                   *)
StartupAgain(t, locked) ==
  /\ line' = locked
  /\ shut' = FALSE
  /\ sems' = Append(sems, NewSemaphore(MaxConcurrent))
  /\ Go(t, "launch")
  /\ UNCHANGED <<loans, waitsOn, attempts>>

Startup(t, locked) ==
  IF browser # 0
  THEN line' = Tail(locked) /\ Started(t, queue) /\ UNCHANGED shut
  ELSE /\ line' = locked
       /\ shut' = FALSE
       /\ sems' = Append(sems, NewSemaphore(MaxConcurrent))
       /\ Go(t, "launch")
       /\ UNCHANGED <<loans, waitsOn, attempts>>

EnterStartup(t) ==
  IF line = <<>>
  THEN Startup(t, <<t>>)
  ELSE /\ line' = Append(line, t)
       /\ Go(t, "startLock")
       /\ UNCHANGED <<shut, loans, permits, attempts>>

StartLockGranted(t) ==
  /\ At(t, "startLock")
  /\ Head(line) = t
  /\ Startup(t, line)
  /\ UNCHANGED <<chromium, all, on, filled, errors, due, bounds>>

Launched(t) ==
  /\ At(t, "launch")
  /\ launches' = launches + 1
  /\ browser' = launches'
  /\ live' = live \cup {browser'}
  /\ filled' = 0
  /\ Go(t, "fill")
  /\ UNCHANGED <<shut, all, loans, on, permits, line, restart, bounds>>

(* Mutant: the lock is kept when the launch raises.                          *)
LaunchFailsLocked(t) ==
  /\ At(t, "launch")
  /\ Fault
  /\ Aborted(t)
  /\ UNCHANGED <<chromium, shut, all, loans, on, permits, line, filled,
                 restart>>

(* Before the new driver has started, or after it, when what it started ends. *)
LaunchFails(t) ==
  /\ At(t, "launch")
  /\ Fault
  /\ line' = Tail(line)
  /\ Aborted(t)
  /\ launches' \in {launches, launches + 1}
  /\ UNCHANGED <<browser, live, shut, all, loans, on, permits, filled, restart>>

FillNext(t) ==
  /\ At(t, "fill")
  /\ browser \in live
  /\ all' = all \cup {NewContext(browser)}
  /\ filled' = filled + 1
  /\ IF filled' = PoolSize
     THEN line' = Tail(line) /\ Started(t, Append(queue, NewContext(browser)))
     ELSE /\ queue' = Append(queue, NewContext(browser))
          /\ UNCHANGED <<line, pc, holding, active, permits, attempts>>
  /\ UNCHANGED <<chromium, shut, on, errors, due, bounds>>

(* _browser stays set and the pool as far as it was filled.                  *)
FillFails(t) ==
  /\ At(t, "fill")
  /\ Raises(browser)
  /\ line' = Tail(line)
  /\ Aborted(t)
  /\ UNCHANGED <<chromium, shut, all, loans, on, permits, filled, restart>>

-----------------------------------------------------------------------------
(* shutdown(), with t first in line.  The contexts and the queue are left.   *)

Stopped(t) == Go(t, IF t = App THEN "down" ELSE "sleep")

Shutdown(t, locked) ==
  IF shut
  THEN line' = Tail(locked) /\ Stopped(t) /\ UNCHANGED shut
  ELSE line' = locked /\ shut' = TRUE /\ Go(t, "closeContexts")

EnterShutdown(t) ==
  IF line = <<>>
  THEN Shutdown(t, <<t>>)
  ELSE line' = Append(line, t) /\ Go(t, "stopLock") /\ UNCHANGED shut

StopLockGranted(t) ==
  /\ At(t, "stopLock")
  /\ Head(line) = t
  /\ Shutdown(t, line)
  /\ UNCHANGED <<chromium, all, loans, on, permits, filled, restart, bounds>>

ContextsClosed(t) ==
  /\ At(t, "closeContexts")
  /\ Go(t, "closeBrowser")
  /\ UNCHANGED <<chromium, shut, all, loans, on, permits, line, filled,
                 restart, bounds>>

BrowserClosed(t) ==
  /\ At(t, "closeBrowser")
  /\ live' = live \ {browser}
  /\ Go(t, "stopDriver")
  /\ UNCHANGED <<browser, launches, shut, all, loans, on, permits, line,
                 filled, restart, bounds>>

(* _playwright.stop() ends the Chromium of that driver, if one runs still.   *)
DriverStopped(t) ==
  /\ At(t, "stopDriver")
  /\ browser' = 0
  /\ live' = live \ {launches}
  /\ line' = Tail(line)
  /\ Stopped(t)
  /\ UNCHANGED <<launches, shut, all, loans, on, permits, filled, restart,
                 bounds>>

-----------------------------------------------------------------------------
(* _restart_browser().                                                       *)

(* Mutant: > for >=.                                                         *)
RestartRunsOnceMore(r) ==
  /\ At(r, "off")
  /\ due > 0
  /\ due' = due - 1
  /\ IF attempts > MaxAttempts
     THEN UNCHANGED <<attempts, line, shut, pc>>
     ELSE attempts' = attempts + 1 /\ EnterShutdown(r)
  /\ UNCHANGED <<chromium, all, loans, on, permits, filled, errors, bounds>>

RestartRuns(r) ==
  /\ At(r, "off")
  /\ due > 0
  /\ due' = due - 1
  /\ IF attempts >= MaxAttempts
     THEN UNCHANGED <<attempts, line, shut, pc>>
     ELSE attempts' = attempts + 1 /\ EnterShutdown(r)
  /\ UNCHANGED <<chromium, all, loans, on, permits, filled, errors, bounds>>

Slept(r) ==
  /\ At(r, "sleep")
  /\ EnterStartup(r)
  /\ UNCHANGED <<chromium, all, on, filled, errors, due, bounds>>

-----------------------------------------------------------------------------
(* acquire(), seen from its awaits.                                          *)

(* Requests are served, and so scrapes begin, from the end of startup on;    *)
(* crawl jobs go on scraping while lifespan shuts the pool down.  Bound:     *)
(* none begins in the moments between that and the end of the event loop.    *)
Acquire(c) ==
  /\ At(c, "idle")
  /\ pc[App] \in {"up", "stopLock", "closeContexts", "closeBrowser", "stopDriver"}
  /\ IF browser = 0 \/ shut
     THEN EnterStartup(c)
     ELSE Permit(c, queue) /\ UNCHANGED <<line, shut, attempts>>
  /\ UNCHANGED <<chromium, all, on, filled, errors, due, bounds>>

PermitGranted(c) ==
  /\ At(c, "permit")
  /\ c \in sems[waitsOn[c]].woken
  /\ OnSem(waitsOn[c], Resume(sems[waitsOn[c]], c))
  /\ waitsOn' = [waitsOn EXCEPT ![c] = 0]
  /\ Fetch(c, queue)
  /\ UNCHANGED <<chromium, shut, all, on, line, filled, restart, bounds>>

(* The wait ends without a permit; one handed over meanwhile is given back.  *)
LeaveSem(c) ==
  LET s == sems[waitsOn[c]]
  IN  /\ OnSem(waitsOn[c], GiveBack(IF IsWaiting(s, c) THEN Withdraw(s, c) ELSE s, c))
      /\ waitsOn' = [waitsOn EXCEPT ![c] = 0]

PermitTimeout(c) ==
  /\ At(c, "permit")
  /\ LeaveSem(c)
  /\ Bump
  /\ Go(c, "idle")
  /\ UNCHANGED <<chromium, shut, all, loans, on, line, filled, attempts,
                 due, bounds>>

ContextArrives(c) ==
  /\ queue # <<>>
  /\ \/ At(c, "context") /\ Fetch(c, queue)
     \/ At(c, "context2") /\ SecondGet(c, queue)
  /\ UNCHANGED <<chromium, shut, all, on, permits, line, filled, restart,
                 bounds>>

(* Mutant: the second get() forgets the permit when it times out.            *)
ContextTimeoutKeeping(c) ==
  /\ \/ /\ At(c, "context")
        /\ Bump
        /\ OnSem(Current, Release(sems[Current]))
     \/ At(c, "context2") /\ UNCHANGED <<errors, sems>>
  /\ Go(c, "idle")
  /\ UNCHANGED <<chromium, shut, all, loans, on, waitsOn, line, filled,
                 attempts, due, bounds>>

(* The permit goes to the semaphore of today.                                *)
ContextTimeout(c) ==
  /\ \/ At(c, "context") /\ Bump
     \/ At(c, "context2") /\ UNCHANGED errors
  /\ OnSem(Current, Release(sems[Current]))
  /\ Go(c, "idle")
  /\ UNCHANGED <<chromium, shut, all, loans, on, waitsOn, line, filled,
                 attempts, due, bounds>>

-----------------------------------------------------------------------------
(* release().                                                                *)

(* The `finally`, with the free contexts as q.                               *)
Finish(c, q) ==
  /\ queue' = q
  /\ holding' = [holding EXCEPT ![c] = None]
  /\ active' = IF active = 0 THEN 0 ELSE active - 1
  /\ OnSem(Current, Release(sems[Current]))
  /\ Go(c, "idle")

(* The scrape is over, well or not.                                          *)
UseEnds(c) ==
  /\ At(c, "using")
  /\ Go(c, IF Healthy(holding[c]) THEN "clean" ELSE "dropClose")
  /\ UNCHANGED <<chromium, shut, all, loans, on, permits, line, filled,
                 restart, bounds>>

CleanOk(c) ==
  /\ At(c, "clean")
  /\ Healthy(holding[c])
  /\ Finish(c, Append(queue, holding[c]))
  /\ UNCHANGED <<chromium, shut, all, on, waitsOn, line, filled, restart,
                 bounds>>

(* Mutant: the context is put back before its cookies are cleared.           *)
CleanFailsLate(c) ==
  /\ At(c, "clean")
  /\ (shut /\ UNCHANGED bounds) \/ Raises(holding[c].gen)
  /\ queue' = Append(queue, holding[c])
  /\ Go(c, "dropClose")
  /\ UNCHANGED <<chromium, shut, all, holding, active, on, permits, line,
                 filled, restart>>

(* clear_cookies() raises, as it does on the contexts shutdown() has closed. *)
CleanFails(c) ==
  /\ At(c, "clean")
  /\ (shut /\ UNCHANGED bounds) \/ Raises(holding[c].gen)
  /\ Go(c, "dropClose")
  /\ UNCHANGED <<chromium, shut, all, loans, on, permits, line, filled,
                 restart>>

-----------------------------------------------------------------------------
(* _recycle_context(), which acquire() and release() both await.             *)

Recycled(c, q) ==
  \/ pc[c] \in {"swapClose", "swapCreate"} /\ SecondGet(c, q) /\ UNCHANGED sems
  \/ pc[c] \in {"dropClose", "dropCreate"} /\ Finish(c, q)

(* Mutant: the old context stays in _all_contexts.                           *)
OldClosedListed(c) ==
  /\ pc[c] \in {"swapClose", "dropClose"}
  /\ IF browser # 0 /\ ~shut
     THEN /\ on' = [on EXCEPT ![c] = browser]
          /\ holding' = [holding EXCEPT ![c] = None]
          /\ Go(c, IF At(c, "swapClose") THEN "swapCreate" ELSE "dropCreate")
          /\ UNCHANGED <<queue, active, sems>>
     ELSE Recycled(c, queue) /\ UNCHANGED on
  /\ UNCHANGED <<chromium, shut, all, waitsOn, line, filled, restart, bounds>>

OldClosed(c) ==
  /\ pc[c] \in {"swapClose", "dropClose"}
  /\ all' = all \ {holding[c]}
  /\ IF browser # 0 /\ ~shut
     THEN /\ on' = [on EXCEPT ![c] = browser]
          /\ holding' = [holding EXCEPT ![c] = None]
          /\ Go(c, IF At(c, "swapClose") THEN "swapCreate" ELSE "dropCreate")
          /\ UNCHANGED <<queue, active, sems>>
     ELSE Recycled(c, queue) /\ UNCHANGED on
  /\ UNCHANGED <<chromium, shut, waitsOn, line, filled, restart, bounds>>

NewCreated(c) ==
  /\ pc[c] \in {"swapCreate", "dropCreate"}
  /\ on[c] \in live
  /\ all' = all \cup {NewContext(on[c])}
  /\ on' = [on EXCEPT ![c] = 0]
  /\ Recycled(c, Append(queue, NewContext(on[c])))
  /\ UNCHANGED <<chromium, shut, waitsOn, line, filled, restart, bounds>>

(* Every PoolSize-th error asks for a restart, if it happens to be this one. *)
NewFails(c) ==
  /\ pc[c] \in {"swapCreate", "dropCreate"}
  /\ Raises(on[c])
  /\ Bump
  /\ due' = IF errors' = 0 THEN due + 1 ELSE due
  /\ on' = [on EXCEPT ![c] = 0]
  /\ Recycled(c, queue)
  /\ UNCHANGED <<chromium, shut, all, waitsOn, line, filled, attempts>>

-----------------------------------------------------------------------------
(* Cancellation reaches an await of acquire() or release().  Until acquire() *)
(* has returned nothing but the semaphore's own waiting list is put right:   *)
(* `except Exception` does not see a CancelledError.                         *)
Waiting == {"startLock", "launch", "fill", "permit", "context", "swapClose",
            "swapCreate", "context2"}
Releasing == {"clean", "dropClose", "dropCreate"}

(* The driver, if it has been started, goes on with the launch() the task no  *)
(* longer awaits: its Chromium may run although _browser is None.            *)
Abandoned ==
  /\ launches' \in {launches, launches + 1}
  /\ live' \in {live, live \cup (launches + 1 .. launches')}
  /\ UNCHANGED browser

Cancel(c) ==
  /\ cancels < MaxCancels
  /\ cancels' = cancels + 1
  /\ \/ /\ pc[c] \in Waiting
        /\ line' = IF pc[c] \in {"startLock", "launch", "fill"}
                     THEN Without(line, c) ELSE line
        /\ holding' = [holding EXCEPT ![c] = None]
        /\ Go(c, "idle")
        /\ IF At(c, "permit") THEN LeaveSem(c) ELSE UNCHANGED permits
        /\ UNCHANGED <<queue, active>>
     \/ /\ pc[c] \in Releasing
        /\ Finish(c, queue)
        /\ UNCHANGED <<line, waitsOn>>
  /\ IF At(c, "launch") THEN Abandoned ELSE UNCHANGED chromium
  /\ on' = [on EXCEPT ![c] = 0]
  /\ UNCHANGED <<shut, all, filled, restart, faults>>

-----------------------------------------------------------------------------
(* lifespan.                                                                 *)

Boot ==
  /\ At(App, "boot")
  /\ EnterStartup(App)
  /\ UNCHANGED <<chromium, all, on, filled, errors, due, bounds>>

(* The server has answered its requests; crawl jobs may still be scraping,   *)
(* and go on until the event loop ends with them.                            *)
AppStops ==
  /\ At(App, "up")
  /\ EnterShutdown(App)
  /\ UNCHANGED <<chromium, all, loans, on, permits, filled, restart, bounds>>

Crash ==
  /\ browser \in live
  /\ Fault
  /\ live' = live \ {browser}
  /\ UNCHANGED <<browser, launches, shut, all, loans, on, permits, line,
                 filled, restart, pc>>

-----------------------------------------------------------------------------
LockStep(t) ==
  \/ StartLockGranted(t)
  \/ Launched(t)
  \/ LaunchFails(t)
  \/ FillNext(t)
  \/ FillFails(t)
  \/ StopLockGranted(t)
  \/ ContextsClosed(t)
  \/ BrowserClosed(t)
  \/ DriverStopped(t)

RestartStep(r) == RestartRuns(r) \/ Slept(r)

ClientStep(c) ==
  \/ PermitGranted(c)
  \/ PermitTimeout(c)
  \/ ContextArrives(c)
  \/ ContextTimeout(c)
  \/ UseEnds(c)
  \/ CleanOk(c)
  \/ CleanFails(c)
  \/ OldClosed(c)
  \/ NewCreated(c)
  \/ NewFails(c)

Next ==
  \/ \E t \in Tasks : LockStep(t)
  \/ \E r \in Restarters : RestartStep(r)
  \/ \E c \in Clients : ClientStep(c) \/ Acquire(c) \/ Cancel(c)
  \/ Boot
  \/ AppStops
  \/ Crash

Spec == Init /\ [][Next]_vars

(* Every wait of acquire() has a timeout, the lock is first come first        *)
(* served, and the event loop runs what is ready.  Assumed: Playwright answers *)
(* the calls of startup(), shutdown() and acquire(); new_context() and close() *)
(* have no timeout.  A page in use, and what release() awaits, may hang.      *)
Acquiring(c) == pc[c] \in Waiting /\ ClientStep(c)

Fairness ==
  /\ WF_vars(Boot)
  /\ \A t \in Tasks : WF_vars(LockStep(t))
  /\ \A r \in Restarters : WF_vars(RestartStep(r))
  /\ \A c \in Clients : WF_vars(Acquiring(c))

FairSpec == Spec /\ Fairness

-----------------------------------------------------------------------------
(* Properties.                                                               *)

PCs == {"idle", "startLock", "launch", "fill", "permit", "context", "swapClose",
        "swapCreate", "context2", "using", "clean", "dropClose", "dropCreate",
        "off", "stopLock", "closeContexts", "closeBrowser", "stopDriver",
        "sleep", "boot", "up", "down"}

(* The state has its type.                                                   *)
TypeOK ==
  /\ browser \in Nat /\ live \subseteq Nat /\ launches \in Nat
  /\ shut \in BOOLEAN
  /\ all \subseteq Context
  /\ queue \in Seq(Context) /\ active \in Nat
  /\ holding \in [Clients -> Context \cup {None}]
  /\ on \in [Clients -> Nat]
  /\ sems \in Seq([value : Nat, waiting : Seq(Clients), woken : SUBSET Clients])
  /\ waitsOn \in [Clients -> Nat]
  /\ line \in Seq(Tasks)
  /\ filled \in 0..PoolSize /\ errors \in 0..(PoolSize - 1)
  /\ attempts \in 0..MaxAttempts /\ due \in Nat
  /\ pc \in [Tasks -> PCs]
  /\ faults \in 0..MaxFaults /\ cancels \in 0..MaxCancels

(* A browser context serves one scrape at a time: cookies and pages of one   *)
(* target never meet those of another, across crashes, recycling and         *)
(* cancellations.                                                            *)
NoSharedContext ==
  /\ \A i, k \in DOMAIN queue : i # k => queue[i] # queue[k]
  /\ Free \cap Held = {}
  /\ \A c, d \in Clients : c # d /\ holding[c] # None => holding[c] # holding[d]

(* shutdown() closes what _all_contexts lists: every context in circulation. *)
(* And unless a scrape was cancelled, every context it lists circulates, so  *)
(* that recycling neither leaks a context nor shrinks the pool unnoticed.    *)
ContextsAccountedFor ==
  /\ Free \cup Held \subseteq all
  /\ cancels = 0 => all = Free \cup Held

(* _active_count, which /ready reports, is the number of contexts lent:      *)
(* max(0, ...) never hides a release too many.                               *)
Lent == {c \in Clients : pc[c] \in {"using"} \cup Releasing}
ActiveExact == active = Cardinality(Lent)

(* Permits, over all the semaphores startup() ever made, are not invented,   *)
(* and none is lost unless a scrape was cancelled inside acquire(): each is   *)
(* idle in its semaphore, promised to a client that was woken, or owned.      *)
Owners == {c \in Clients :
             pc[c] \in {"context", "swapClose", "swapCreate", "context2"}} \cup Lent
Tagged(sets) == UNION {{i} \X sets[i] : i \in DOMAIN sets}
Idle == Tagged([i \in DOMAIN sems |-> 1..sems[i].value])
Promised == Tagged([i \in DOMAIN sems |-> sems[i].woken])
PermitsAccountedFor ==
  LET known == Cardinality(Idle) + Cardinality(Promised) + Cardinality(Owners)
  IN  /\ known <= MaxConcurrent * Len(sems)
      /\ cancels = 0 => known = MaxConcurrent * Len(sems)

(* Starting, stopping and restarting exclude each other, so that no Chromium *)
(* runs that _browser does not name and shutdown() would not close, but the  *)
(* one a cancelled scrape has stopped awaiting the launch of: at most one per *)
(* cancellation.                                                             *)
NoOrphanBrowser == Cardinality(live \ {browser}) <= cancels

(* acquire() returns or raises, whoever holds the lock, the permits and the  *)
(* contexts, and whatever fails meanwhile; also when every scrape hangs.     *)
AcquireEnds ==
  \A c \in Clients : pc[c] \in Waiting ~> pc[c] \in {"idle", "using"}
=============================================================================
