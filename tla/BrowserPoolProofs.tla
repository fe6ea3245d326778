------------------------- MODULE BrowserPoolProofs -------------------------
(* The browser pool, for any number of scrapes, restarts, crashes and         *)
(* cancellations, any pool size and any number of permits.                    *)
EXTENDS BrowserPool, AsyncSemaphoreProofs, FiniteSetTheorems, TLAPS

(* Every task is somewhere.                                                   *)
Placed == pc \in [Tasks -> PCs]

-----------------------------------------------------------------------------
(* The class lock.                                                            *)
Locked == {"launch", "fill", "closeContexts", "closeBrowser", "stopDriver"}
Queueing == {"startLock", "stopLock"}

(* In line are those that wait for the lock or have it, each once, and who    *)
(* has it is first.                                                           *)
InLine(l, at) ==
  /\ l \in Seq(Tasks)
  /\ \A i, k \in 1..Len(l) : l[i] = l[k] => i = k
  /\ \A t \in Tasks : at[t] \in Locked \cup Queueing <=> \E i \in 1..Len(l) : l[i] = t
  /\ \A i \in 1..Len(l) : at[l[i]] \in Locked => i = 1

LockOK == InLine(line, pc)

(* Every Chromium came from a driver.  _browser is None while one is          *)
(* launched, and names none that runs once it was closed.                     *)
OneBrowser ==
  /\ launches \in Nat /\ browser \in 0..launches /\ live \subseteq 1..launches
  /\ \A t \in Tasks : pc[t] = "launch" => browser = 0
  /\ \A t \in Tasks : pc[t] = "stopDriver" => browser \notin live

(* Ways a line changes when one task moves.                                   *)
LEMMA MoveOutside ==
  ASSUME NEW l, NEW at \in [Tasks -> PCs], InLine(l, at), NEW t \in Tasks, NEW p \in PCs,
         \/ at[t] \notin Locked \cup Queueing /\ p \notin Locked \cup Queueing
         \/ at[t] \in Locked /\ p \in Locked
  PROVE  InLine(l, [at EXCEPT ![t] = p])
BY DEF InLine

LEMMA JoinLine ==
  ASSUME NEW l, NEW at \in [Tasks -> PCs], InLine(l, at), NEW t \in Tasks, NEW p \in PCs,
         at[t] \notin Locked \cup Queueing,
         p \in Queueing \/ (p \in Locked /\ l = <<>>)
  PROVE  InLine(Append(l, t), [at EXCEPT ![t] = p])
<1> DEFINE m == Append(l, t)
<1>1. /\ m \in Seq(Tasks) /\ Len(m) = Len(l) + 1 /\ m[Len(l) + 1] = t
      /\ \A i \in 1..Len(l) : m[i] = l[i]
      /\ Len(l) \in Nat
  BY DEF InLine
<1>2. \A i \in 1..Len(l) : l[i] # t
  BY DEF InLine
<1>3. \A i \in 1..Len(m) : i = Len(l) + 1 \/ i \in 1..Len(l)
  BY <1>1
<1>4. l = <<>> => Len(l) = 0
  OBVIOUS
<1> HIDE DEF m
<1>5. \A i, k \in 1..Len(m) : m[i] = m[k] => i = k
  BY <1>1, <1>2, <1>3 DEF InLine
<1>6. \A s \in Tasks : (\E i \in 1..Len(m) : m[i] = s)
                          <=> s = t \/ \E i \in 1..Len(l) : l[i] = s
  BY <1>1, <1>3
<1>7. \A i \in 1..Len(m) : [at EXCEPT ![t] = p][m[i]] \in Locked => i = 1
  BY <1>1, <1>2, <1>3, <1>4 DEF InLine, Locked, Queueing
<1>8. \A s \in Tasks : [at EXCEPT ![t] = p][s] \in Locked \cup Queueing
                         <=> \E i \in 1..Len(m) : m[i] = s
  BY <1>6 DEF InLine
<1> QED BY <1>1, <1>5, <1>7, <1>8 DEF InLine, m

LEMMA GrantLine ==
  ASSUME NEW l, NEW at \in [Tasks -> PCs], InLine(l, at), NEW t \in Tasks, NEW p \in Locked,
         at[t] \in Queueing, Head(l) = t
  PROVE  InLine(l, [at EXCEPT ![t] = p]) /\ l # <<>>
<1>1. PICK i \in 1..Len(l) : l[i] = t
  BY DEF InLine
<1>2. l # <<>> /\ l[1] = t /\ 1 \in 1..Len(l)
  BY <1>1 DEF InLine
<1> QED BY <1>2 DEF InLine, PCs, Locked

LEMMA FreeLine ==
  ASSUME NEW l, NEW at \in [Tasks -> PCs], InLine(l, at), NEW t \in Tasks, NEW p \in PCs,
         l # <<>>, l[1] = t, p \notin Locked \cup Queueing
  PROVE  InLine(Tail(l), [at EXCEPT ![t] = p])
<1> DEFINE m == Tail(l)
<1>1. /\ m \in Seq(Tasks) /\ Len(m) = Len(l) - 1 /\ Len(l) \in Nat \ {0}
      /\ \A i \in 1..Len(m) : m[i] = l[i + 1] /\ i + 1 \in 1..Len(l)
  BY DEF InLine
<1>2. \A i \in 1..Len(l) : i = 1 \/ (i - 1 \in 1..Len(m) /\ m[i - 1] = l[i])
  BY <1>1
<1>3. \A i \in 1..Len(m) : m[i] # t
  BY <1>1 DEF InLine
<1> HIDE DEF m
<1>4. \A i, k \in 1..Len(m) : m[i] = m[k] => i = k
  BY <1>1 DEF InLine
<1>5. \A s \in Tasks : (\E i \in 1..Len(m) : m[i] = s)
                         <=> s # t /\ \E i \in 1..Len(l) : l[i] = s
  BY <1>1, <1>2, <1>3
<1>6. \A i \in 1..Len(m) : [at EXCEPT ![t] = p][m[i]] \in Locked => i = 1
  BY <1>1, <1>3 DEF InLine
<1>7. \A s \in Tasks : [at EXCEPT ![t] = p][s] \in Locked \cup Queueing
                         <=> \E i \in 1..Len(m) : m[i] = s
  BY <1>5 DEF InLine
<1> QED BY <1>1, <1>4, <1>6, <1>7 DEF InLine, m

LEMMA LeaveLine ==
  ASSUME NEW l, NEW at \in [Tasks -> PCs], InLine(l, at), NEW t \in Tasks, NEW p \in PCs,
         at[t] \in Locked \cup Queueing, p \notin Locked \cup Queueing
  PROVE  InLine(Without(l, t), [at EXCEPT ![t] = p])
<1> DEFINE m == Without(l, t)
<1>1. \E i \in 1..Len(l) : l[i] = t
  BY DEF InLine
<1>2. /\ m \in Seq(Tasks) /\ Len(m) = Len(l) - 1
      /\ {m[i] : i \in 1..Len(m)} = {l[i] : i \in 1..Len(l)} \ {t}
      /\ \A i, k \in 1..Len(m) : m[i] = m[k] => i = k
      /\ \A i \in 1..Len(m) : \E k \in i..Len(l) : m[i] = l[k]
  <2>1. /\ l \in Seq(Tasks)
        /\ \A i, k \in 1..Len(l) : l[i] = l[k] => i = k
    BY DEF InLine
  <2> QED BY <1>1, <2>1, WithoutTakes
<1> HIDE DEF m
<1>3. \A s \in Tasks : (\E i \in 1..Len(m) : m[i] = s)
                         <=> s # t /\ \E i \in 1..Len(l) : l[i] = s
  <2> SUFFICES ASSUME NEW s \in Tasks
               PROVE  s \in {m[i] : i \in 1..Len(m)}
                        <=> s # t /\ s \in {l[i] : i \in 1..Len(l)}
    OBVIOUS
  <2> QED BY <1>2
<1>4. \A i \in 1..Len(m) : [at EXCEPT ![t] = p][m[i]] \in Locked => i = 1
  <2> SUFFICES ASSUME NEW i \in 1..Len(m), [at EXCEPT ![t] = p][m[i]] \in Locked
               PROVE  i = 1
    OBVIOUS
  <2>1. PICK k \in i..Len(l) : m[i] = l[k]
    BY <1>2
  <2>2. k \in 1..Len(l) /\ m[i] # t /\ m[i] \in Tasks
    <3>1. m[i] \in {m[j] : j \in 1..Len(m)}
      OBVIOUS
    <3> QED BY <1>2, <2>1, <3>1
  <2>3. k = 1
    BY <2>1, <2>2 DEF InLine
  <2> QED BY <2>1, <2>3
<1>5. \A s \in Tasks : [at EXCEPT ![t] = p][s] \in Locked \cup Queueing
                         <=> \E i \in 1..Len(m) : m[i] = s
  BY <1>3 DEF InLine
<1> QED BY <1>2, <1>4, <1>5 DEF InLine, m

LEMMA LockedFirst ==
  ASSUME NEW l, NEW at \in [Tasks -> PCs], InLine(l, at), NEW t \in Tasks,
         at[t] \in Locked
  PROVE  /\ l # <<>> /\ l[1] = t
         /\ \A u \in Tasks : at[u] \in Locked => u = t
BY DEF InLine

-----------------------------------------------------------------------------
(* How the steps move the tasks.                                              *)
LockInv == Placed /\ LockOK /\ OneBrowser

Away == PCs \ (Locked \cup Queueing)
Leaves(t) == \E p \in Away : pc' = [pc EXCEPT ![t] = p]

LEMMA Points ==
  /\ {"idle", "off", "up", "down", "sleep", "using", "permit", "context", "context2", "boot",
      "swapClose", "swapCreate", "clean", "dropClose", "dropCreate"} \subseteq Away
  /\ Locked \subseteq PCs /\ Queueing \subseteq PCs /\ Away \subseteq PCs
  /\ Away \cap (Locked \cup Queueing) = {} /\ Locked \cap Queueing = {}
  /\ {"launch", "stopDriver", "fill", "closeContexts", "closeBrowser"} = Locked
  /\ {"startLock", "stopLock"} = Queueing
BY DEF Away, Locked, Queueing, PCs

(* A task that moves neither into a launch nor past the end of Chromium, and  *)
(* at most leaves a launch behind.                                            *)
LEMMA StillBrowser ==
  ASSUME LockInv, NEW t \in Tasks, NEW p \in PCs, pc' = [pc EXCEPT ![t] = p],
         UNCHANGED chromium \/ Abandoned, p # "stopDriver", p = "launch" => browser = 0
  PROVE  Placed' /\ OneBrowser'
<1>1. Placed'
  BY DEF LockInv, Placed
<1>2. CASE UNCHANGED chromium
  BY <1>1, <1>2 DEF LockInv, Placed, OneBrowser, chromium
<1>3. CASE Abandoned
  <2>1. /\ launches \in Nat /\ browser \in 0..launches /\ live \subseteq 1..launches
        /\ browser' = browser /\ launches' \in {launches, launches + 1}
        /\ live' \subseteq live \cup (launches + 1 .. launches')
    BY <1>3 DEF LockInv, OneBrowser, Abandoned
  <2>2. launches' \in Nat /\ browser' \in 0..launches' /\ live' \subseteq 1..launches'
    BY <2>1
  <2>3. browser' \in live' => browser \in live
    BY <2>1
  <2>4. /\ \A u \in Tasks : pc'[u] = "launch" => browser' = 0
        /\ \A u \in Tasks : pc'[u] = "stopDriver" => browser' \notin live'
    BY <2>1, <2>3 DEF LockInv, Placed, OneBrowser
  <2> QED BY <1>1, <2>2, <2>4 DEF OneBrowser
<1> QED BY <1>2, <1>3

LEMMA FetchLeaves ==
  ASSUME NEW c \in Clients, NEW q, Fetch(c, q) \/ SecondGet(c, q)
  PROVE  Leaves(c)
BY Points DEF Fetch, SecondGet, Lend, Go, Leaves

LEMMA PermitLeaves ==
  ASSUME NEW c \in Clients, NEW q, Permit(c, q)
  PROVE  Leaves(c)
BY Points, FetchLeaves DEF Permit, Go, Leaves

LEMMA StartedLeaves ==
  ASSUME NEW t \in Tasks, NEW q, Started(t, q)
  PROVE  Leaves(t)
BY Points, PermitLeaves DEF Started, Go, Leaves

LEMMA AbortedLeaves ==
  ASSUME NEW t \in Tasks, Aborted(t)
  PROVE  Leaves(t)
<1>1. CASE t \in Clients BY <1>1, Points DEF Aborted, Go, Leaves
<1>2. CASE t \in Restarters BY <1>2, TaskAssumption, Points DEF Aborted, Go, Leaves
<1>3. CASE t = App BY <1>3, TaskAssumption, Points DEF Aborted, Go, Leaves
<1> QED BY <1>1, <1>2, <1>3 DEF Tasks

(* What one step of a task outside the lock, or leaving it, preserves.        *)
LEMMA StaysOutside ==
  ASSUME LockInv, NEW t \in Tasks, pc[t] \in Away, Leaves(t),
         UNCHANGED <<chromium, line>>
  PROVE  LockInv'
<1>1. PICK p \in Away : pc' = [pc EXCEPT ![t] = p]
  BY DEF Leaves
<1>2. InLine(line, pc')
  BY <1>1, MoveOutside, Points DEF LockInv, LockOK, Placed
<1> QED BY <1>1, <1>2, StillBrowser, Points DEF LockInv, LockOK

LEMMA FreesLock ==
  ASSUME LockInv, NEW t \in Tasks, pc[t] \in Locked, Leaves(t),
         line' = Tail(line), UNCHANGED chromium \/ Abandoned
  PROVE  LockInv'
<1>1. PICK p \in Away : pc' = [pc EXCEPT ![t] = p]
  BY DEF Leaves
<1>2. InLine(line', pc')
  BY <1>1, FreeLine, LockedFirst, Points DEF LockInv, LockOK, Placed
<1> QED BY <1>1, <1>2, StillBrowser, Points DEF LockInv, LockOK

(* t has the lock now: it is first in the line locked.                        *)
Grants(t, locked) ==
  \/ line = <<>> /\ locked = <<t>> /\ pc[t] \in Away
  \/ Head(line) = t /\ locked = line /\ pc[t] \in Queueing

LEMMA GrantedKeeps ==
  ASSUME LockInv, NEW t \in Tasks, NEW locked, Grants(t, locked), UNCHANGED chromium,
         \/ Leaves(t) /\ line' = Tail(locked)
         \/ \E p \in Locked : /\ pc' = [pc EXCEPT ![t] = p] /\ line' = locked
                              /\ p # "stopDriver" /\ (p = "launch" => browser = 0)
  PROVE  LockInv'
<1>1. CASE Leaves(t) /\ line' = Tail(locked)
  <2>1. PICK p \in Away : pc' = [pc EXCEPT ![t] = p]
    BY <1>1 DEF Leaves
  <2>2. CASE line = <<>> /\ locked = <<t>> /\ pc[t] \in Away
    <3>1. line' = line
      BY <1>1, <2>2
    <3> QED BY <1>1, <2>2, <3>1, StaysOutside
  <2>3. CASE Head(line) = t /\ locked = line /\ pc[t] \in Queueing
    <3>1. "launch" \in Locked /\ InLine(line, pc) /\ pc \in [Tasks -> PCs]
      BY Points DEF LockInv, LockOK, Placed
    <3>2. line # <<>> /\ line[1] = t
      BY <2>3, <3>1 DEF InLine
    <3>3. InLine(line', pc')
      BY <1>1, <2>1, <2>3, <3>1, <3>2, FreeLine, Points
    <3> QED BY <2>1, <3>3, StillBrowser, Points DEF LockInv, LockOK
  <2> QED BY <2>2, <2>3 DEF Grants
<1>2. ASSUME NEW p \in Locked, pc' = [pc EXCEPT ![t] = p], line' = locked,
             p # "stopDriver", p = "launch" => browser = 0
      PROVE  LockInv'
  <2>1. pc \in [Tasks -> PCs] /\ InLine(line, pc)
    BY DEF LockInv, LockOK, Placed
  <2>2. CASE line = <<>> /\ locked = <<t>> /\ pc[t] \in Away
    <3>1. locked = Append(line, t)
      BY <2>2
    <3>2. InLine(locked, pc')
      <4>1. pc[t] \notin Locked \cup Queueing /\ p \in PCs
        BY <2>2, Points
      <4>2. InLine(Append(line, t), [pc EXCEPT ![t] = p])
        BY <2>1, <2>2, <4>1, JoinLine
      <4> QED BY <1>2, <3>1, <4>2
    <3> QED BY <1>2, <3>2, StillBrowser, Points DEF LockInv, LockOK
  <2>3. CASE Head(line) = t /\ locked = line /\ pc[t] \in Queueing
    <3>1. InLine(locked, pc')
      BY <1>2, <2>1, <2>3, GrantLine
    <3> QED BY <1>2, <3>1, StillBrowser, Points DEF LockInv, LockOK
  <2> QED BY <2>2, <2>3 DEF Grants
<1> QED BY <1>1, <1>2

LEMMA StartupKeeps ==
  ASSUME LockInv, NEW t \in Tasks, NEW locked, Grants(t, locked), UNCHANGED chromium,
         Startup(t, locked)
  PROVE  LockInv'
<1>1. CASE browser # 0
  BY <1>1, StartedLeaves, GrantedKeeps DEF Startup
<1>2. CASE browser = 0
  BY <1>2, GrantedKeeps DEF Startup, Go, Locked
<1> QED BY <1>1, <1>2

LEMMA ShutdownKeeps ==
  ASSUME LockInv, NEW t \in Tasks, NEW locked, Grants(t, locked), UNCHANGED chromium,
         Shutdown(t, locked)
  PROVE  LockInv'
<1>1. CASE shut
  <2>1. Leaves(t)
    BY <1>1, Points DEF Shutdown, Stopped, Go, Leaves
  <2> QED BY <1>1, <2>1, GrantedKeeps DEF Shutdown
<1>2. CASE ~shut
  BY <1>2, GrantedKeeps DEF Shutdown, Go, Locked
<1> QED BY <1>1, <1>2

LEMMA QueuesUp ==
  ASSUME LockInv, NEW t \in Tasks, pc[t] \in Away, NEW p \in Queueing,
         pc' = [pc EXCEPT ![t] = p], line' = Append(line, t), UNCHANGED chromium
  PROVE  LockInv'
<1>1. InLine(line', pc')
  <2>1. pc[t] \notin Locked \cup Queueing /\ p \in PCs /\ p \in Queueing
    BY Points
  <2>2. pc \in [Tasks -> PCs] /\ InLine(line, pc)
    BY DEF LockInv, LockOK, Placed
  <2>3. InLine(Append(line, t), [pc EXCEPT ![t] = p])
    BY <2>1, <2>2, JoinLine
  <2> QED BY <2>3
<1> QED BY <1>1, StillBrowser, Points DEF LockInv, LockOK

LEMMA EnterKeeps ==
  ASSUME LockInv, NEW t \in Tasks, pc[t] \in Away, UNCHANGED chromium,
         EnterStartup(t) \/ EnterShutdown(t)
  PROVE  LockInv'
<1>1. CASE line = <<>>
  <2>1. Grants(t, <<t>>)
    BY <1>1 DEF Grants
  <2> QED BY <1>1, <2>1, StartupKeeps, ShutdownKeeps DEF EnterStartup, EnterShutdown
<1>2. CASE line # <<>>
  BY <1>2, QueuesUp, Points DEF EnterStartup, EnterShutdown, Go
<1> QED BY <1>1, <1>2

-----------------------------------------------------------------------------
(* The steps.                                                                 *)
LEMMA LockStepKeeps ==
  ASSUME LockInv, NEW t \in Tasks, LockStep(t)
  PROVE  LockInv'
<1> USE DEF At
<1>1. pc \in [Tasks -> PCs] /\ InLine(line, pc)
  BY DEF LockInv, LockOK, Placed
<1>2. CASE StartLockGranted(t)
  <2>1. Grants(t, line)
    BY <1>2, Points DEF StartLockGranted, Grants
  <2> QED BY <1>2, <2>1, StartupKeeps DEF StartLockGranted
<1>3. CASE Launched(t)
  <2>1. pc[t] \in Locked /\ pc[t] = "launch" /\ pc' = [pc EXCEPT ![t] = "fill"] /\ line' = line
    BY <1>3, Points DEF Launched, Go
  <2>2. InLine(line', pc')
    BY <1>1, <2>1, MoveOutside, Points
  <2>3. \A u \in Tasks : pc[u] \in Locked => u = t
    BY <1>1, <2>1, LockedFirst
  <2>4. Placed' /\ \A u \in Tasks : pc'[u] \notin {"launch", "stopDriver"}
    BY <1>1, <2>1, <2>3, Points DEF Placed
  <2>5. /\ launches \in Nat /\ live \subseteq 1..launches
        /\ launches' = launches + 1 /\ browser' = launches' /\ live' = live \cup {browser'}
    BY <1>3 DEF Launched, LockInv, OneBrowser
  <2>6. launches' \in Nat /\ browser' \in 0..launches' /\ live' \subseteq 1..launches'
    BY <2>5
  <2>7. OneBrowser'
    BY <2>4, <2>6 DEF OneBrowser
  <2> QED BY <2>2, <2>4, <2>7 DEF LockInv, LockOK
<1>4. CASE LaunchFails(t)
  <2>1. Abandoned
    BY <1>4 DEF LaunchFails, Abandoned
  <2> QED BY <1>4, <2>1, AbortedLeaves, FreesLock, Points DEF LaunchFails
<1>5. CASE FillNext(t)
  <2>1. UNCHANGED chromium /\ pc[t] \in Locked
    BY <1>5, Points DEF FillNext
  <2>2. CASE filled' = PoolSize
    BY <1>5, <2>1, <2>2, StartedLeaves, FreesLock DEF FillNext
  <2>3. CASE filled' # PoolSize
    BY <1>5, <2>1, <2>3 DEF FillNext, chromium, LockInv, Placed, LockOK, OneBrowser
  <2> QED BY <2>2, <2>3
<1>6. CASE FillFails(t)
  BY <1>6, AbortedLeaves, FreesLock, Points DEF FillFails
<1>7. CASE StopLockGranted(t)
  <2>1. Grants(t, line)
    BY <1>7, Points DEF StopLockGranted, Grants
  <2> QED BY <1>7, <2>1, ShutdownKeeps DEF StopLockGranted
<1>8. CASE ContextsClosed(t)
  <2>1. pc[t] \in Locked /\ pc' = [pc EXCEPT ![t] = "closeBrowser"] /\ line' = line
        /\ "closeBrowser" \in Locked /\ UNCHANGED chromium
    BY <1>8, Points DEF ContextsClosed, Go
  <2>2. InLine(line', pc')
    BY <1>1, <2>1, MoveOutside, Points
  <2> QED BY <2>1, <2>2, StillBrowser, Points DEF LockInv, LockOK
<1>9. CASE BrowserClosed(t)
  <2>1. pc[t] \in Locked /\ pc' = [pc EXCEPT ![t] = "stopDriver"] /\ line' = line
        /\ "stopDriver" \in Locked
    BY <1>9, Points DEF BrowserClosed, Go
  <2>2. InLine(line', pc')
    BY <1>1, <2>1, MoveOutside, Points
  <2>3. Placed' /\ OneBrowser'
    BY <1>1, <1>9, <2>1, Points DEF BrowserClosed, LockInv, Placed, OneBrowser
  <2> QED BY <2>2, <2>3 DEF LockInv, LockOK
<1>10. CASE DriverStopped(t)
  <2>1. pc[t] \in Locked /\ pc[t] = "stopDriver" /\ line' = Tail(line)
    BY <1>10, Points DEF DriverStopped
  <2>2. PICK p \in {"down", "sleep"} : pc' = [pc EXCEPT ![t] = p]
    BY <1>10 DEF DriverStopped, Stopped, Go
  <2>3. \A u \in Tasks : pc[u] \in Locked => u = t
    BY <1>1, <2>1, LockedFirst
  <2>4. InLine(line', pc')
    <3>1. line # <<>> /\ line[1] = t
      BY <1>1, <2>1, LockedFirst
    <3>2. p \in PCs /\ p \notin Locked \cup Queueing
      BY Points
    <3>3. InLine(Tail(line), [pc EXCEPT ![t] = p])
      BY <1>1, <3>1, <3>2, FreeLine
    <3> QED BY <2>1, <2>2, <3>3
  <2>5. Placed' /\ OneBrowser'
    BY <1>1, <1>10, <2>1, <2>2, <2>3, Points DEF DriverStopped, LockInv, Placed, OneBrowser
  <2> QED BY <2>4, <2>5 DEF LockInv, LockOK
<1> QED BY <1>2, <1>3, <1>4, <1>5, <1>6, <1>7, <1>8, <1>9, <1>10 DEF LockStep

LEMMA RestartStepKeeps ==
  ASSUME LockInv, NEW r \in Restarters, RestartStep(r)
  PROVE  LockInv'
<1> USE DEF At
<1>1. r \in Tasks /\ pc[r] \in Away
  BY Points DEF RestartStep, RestartRuns, Slept, Tasks
<1>2. CASE RestartRuns(r)
  <2>1. CASE attempts >= MaxAttempts
    BY <1>2, <2>1 DEF RestartRuns, chromium, LockInv, Placed, LockOK, OneBrowser
  <2>2. CASE ~(attempts >= MaxAttempts)
    BY <1>1, <1>2, <2>2, EnterKeeps DEF RestartRuns
  <2> QED BY <2>1, <2>2
<1>3. CASE Slept(r)
  BY <1>1, <1>3, EnterKeeps DEF Slept
<1> QED BY <1>2, <1>3 DEF RestartStep

LEMMA ClientMoves ==
  ASSUME NEW c \in Clients, ClientStep(c)
  PROVE  pc[c] \in Away /\ Leaves(c) /\ UNCHANGED <<chromium, line>>
<1> USE DEF At, Go
<1>1. CASE PermitGranted(c)
  BY <1>1, FetchLeaves, Points DEF PermitGranted
<1>2. CASE PermitTimeout(c)
  BY <1>2, Points DEF PermitTimeout, Leaves
<1>3. CASE ContextArrives(c)
  BY <1>3, FetchLeaves, Points DEF ContextArrives
<1>4. CASE ContextTimeout(c)
  BY <1>4, Points DEF ContextTimeout, Leaves
<1>5. CASE UseEnds(c)
  BY <1>5, Points DEF UseEnds, Leaves
<1>6. CASE CleanOk(c)
  BY <1>6, Points DEF CleanOk, Finish, Leaves
<1>7. CASE CleanFails(c)
  BY <1>7, Points DEF CleanFails, Leaves
<1>8. ASSUME NEW q, Recycled(c, q)
      PROVE  Leaves(c)
  BY <1>8, FetchLeaves, Points DEF Recycled, Finish, Leaves
<1>9. CASE OldClosed(c)
  <2>1. Leaves(c)
    BY <1>8, <1>9, Points DEF OldClosed, Leaves
  <2> QED BY <1>9, <2>1, Points DEF OldClosed
<1>10. CASE NewCreated(c)
  BY <1>8, <1>10, Points DEF NewCreated
<1>11. CASE NewFails(c)
  BY <1>8, <1>11, Points DEF NewFails
<1> QED BY <1>1, <1>2, <1>3, <1>4, <1>5, <1>6, <1>7, <1>9, <1>10, <1>11 DEF ClientStep

LEMMA CancelKeeps ==
  ASSUME LockInv, NEW c \in Clients, Cancel(c)
  PROVE  LockInv'
<1>1. c \in Tasks /\ pc \in [Tasks -> PCs] /\ InLine(line, pc)
      /\ pc' = [pc EXCEPT ![c] = "idle"] /\ (UNCHANGED chromium \/ Abandoned)
      /\ (pc[c] # "launch" => UNCHANGED chromium)
  BY DEF Cancel, Finish, Go, At, Tasks, LockInv, LockOK, Placed
<1>2. CASE pc[c] \in {"startLock", "launch", "fill"}
  <2>1. pc[c] \in Locked \cup Queueing /\ line' = Without(line, c)
    BY <1>2, Points DEF Cancel, Releasing
  <2>2. InLine(line', pc')
    BY <1>1, <2>1, LeaveLine, Points
  <2> QED BY <1>1, <2>2, StillBrowser, Points DEF LockInv, LockOK
<1>3. CASE pc[c] \notin {"startLock", "launch", "fill"}
  <2>1. line' = line /\ pc[c] \in Away /\ Leaves(c)
    BY <1>1, <1>3, Points DEF Cancel, Waiting, Releasing, Leaves
  <2>2. UNCHANGED <<chromium, line>>
    BY <1>1, <1>3, <2>1
  <2> QED BY <1>1, <2>1, <2>2, StaysOutside
<1> QED BY <1>2, <1>3

LEMMA LockInvHolds == Spec => []LockInv
<1>1. Init => LockInv
  <2> SUFFICES ASSUME Init PROVE LockInv
    OBVIOUS
  <2>1. Placed /\ \A t \in Tasks : pc[t] \in Away
    BY Points DEF Init, Placed, PCs, Tasks
  <2>2. line = <<>> /\ InLine(line, pc)
    BY <2>1, Points DEF Init, InLine
  <2> QED BY <2>1, <2>2, Points DEF Init, LockInv, LockOK, OneBrowser
<1>2. LockInv /\ [Next]_vars => LockInv'
  <2> SUFFICES ASSUME LockInv, [Next]_vars PROVE LockInv'
    OBVIOUS
  <2> USE DEF At
  <2>1. ASSUME NEW t \in Tasks, LockStep(t) PROVE LockInv'
    BY <2>1, LockStepKeeps
  <2>2. ASSUME NEW r \in Restarters, RestartStep(r) PROVE LockInv'
    BY <2>2, RestartStepKeeps
  <2>3. ASSUME NEW c \in Clients, ClientStep(c) PROVE LockInv'
    BY <2>3, ClientMoves, StaysOutside DEF Tasks
  <2>4. ASSUME NEW c \in Clients, Acquire(c) PROVE LockInv'
    <3>1. c \in Tasks /\ pc[c] \in Away /\ UNCHANGED chromium
      BY <2>4, Points DEF Acquire, Tasks
    <3>2. CASE browser = 0 \/ shut
      BY <2>4, <3>1, <3>2, EnterKeeps DEF Acquire
    <3>3. CASE ~(browser = 0 \/ shut)
      BY <2>4, <3>1, <3>3, PermitLeaves, StaysOutside DEF Acquire
    <3> QED BY <3>2, <3>3
  <2>5. ASSUME NEW c \in Clients, Cancel(c) PROVE LockInv'
    BY <2>5, CancelKeeps
  <2>6. CASE Boot
    BY <2>6, EnterKeeps, Points DEF Boot, Tasks
  <2>7. CASE AppStops
    BY <2>7, EnterKeeps, Points DEF AppStops, Tasks
  <2>8. CASE Crash
    BY <2>8 DEF Crash, LockInv, Placed, LockOK, OneBrowser
  <2>9. CASE UNCHANGED vars
    BY <2>9 DEF vars, chromium, LockInv, Placed, LockOK, OneBrowser
  <2> QED BY <2>1, <2>2, <2>3, <2>4, <2>5, <2>6, <2>7, <2>8, <2>9 DEF Next
<1> QED BY <1>1, <1>2, PTL DEF Spec

(* The Chromium processes that _browser does not name.                        *)
Strays == live \ {browser}
StrayInv == cancels \in Nat /\ IsFiniteSet(Strays) /\ Cardinality(Strays) <= cancels

(* A step adds a stray only when it is a cancellation, and then one.          *)
LEMMA StraysComeOfCancels ==
  ASSUME LockInv, [Next]_vars
  PROVE  \/ Strays' \subseteq Strays /\ cancels' \in {cancels, cancels + 1}
         \/ Strays' \subseteq Strays \cup {launches + 1} /\ cancels' = cancels + 1
<1> USE DEF At
<1>1. CASE UNCHANGED <<chromium, cancels>>
  BY <1>1 DEF chromium, Strays
<1>2. ASSUME NEW t \in Tasks, LockStep(t)
      PROVE  Strays' \subseteq Strays /\ cancels' = cancels
  <2>1. CASE Launched(t)
    BY <2>1 DEF Launched, LockInv, OneBrowser, Strays, bounds
  <2>2. CASE LaunchFails(t)
    BY <2>2 DEF LaunchFails, Fault, Strays
  <2>3. CASE BrowserClosed(t)
    BY <2>3 DEF BrowserClosed, Strays, bounds
  <2>4. CASE DriverStopped(t)
    BY <2>4 DEF DriverStopped, LockInv, OneBrowser, Strays, bounds
  <2>5. CASE StartLockGranted(t) \/ StopLockGranted(t) \/ ContextsClosed(t)
    BY <2>5 DEF StartLockGranted, StopLockGranted, ContextsClosed, chromium, Strays, bounds
  <2>6. CASE FillNext(t) \/ FillFails(t)
    BY <2>6 DEF FillNext, FillFails, Raises, Fault, chromium, Strays, bounds
  <2> QED BY <1>2, <2>1, <2>2, <2>3, <2>4, <2>5, <2>6 DEF LockStep
<1>3. ASSUME NEW c \in Clients, Cancel(c)
      PROVE  \/ Strays' \subseteq Strays /\ cancels' = cancels + 1
             \/ Strays' \subseteq Strays \cup {launches + 1} /\ cancels' = cancels + 1
  <2>1. CASE UNCHANGED chromium
    BY <1>3, <2>1 DEF Cancel, chromium, Strays
  <2>2. CASE Abandoned
    <3>1. live' \subseteq live \cup {launches + 1} /\ browser' = browser
      BY <2>2 DEF Abandoned, LockInv, OneBrowser
    <3> QED BY <1>3, <3>1 DEF Cancel, Strays
  <2> QED BY <1>3, <2>1, <2>2 DEF Cancel
<1>4. ASSUME NEW c \in Clients, ClientStep(c)
      PROVE  UNCHANGED <<chromium, cancels>>
  BY <1>4, ClientMoves
     DEF ClientStep, PermitGranted, PermitTimeout, ContextArrives, ContextTimeout, UseEnds,
         CleanOk, CleanFails, OldClosed, NewCreated, NewFails, Raises, Fault, bounds
<1>5. ASSUME NEW r \in Restarters, RestartStep(r)
      PROVE  UNCHANGED <<chromium, cancels>>
  BY <1>5 DEF RestartStep, RestartRuns, Slept, bounds
<1>6. ASSUME NEW c \in Clients, Acquire(c)
      PROVE  UNCHANGED <<chromium, cancels>>
  BY <1>6 DEF Acquire, bounds
<1>7. CASE Boot \/ AppStops \/ UNCHANGED vars
  BY <1>1, <1>7 DEF Boot, AppStops, vars, bounds
<1>8. CASE Crash
  BY <1>8 DEF Crash, Fault, Strays
<1> QED BY <1>1, <1>2, <1>3, <1>4, <1>5, <1>6, <1>7, <1>8 DEF Next

(* Starting, stopping and restarting exclude each other, whatever is          *)
(* cancelled while it waits for the class lock or holds it (startup() and     *)
(* shutdown() run under _lock): the Chromium processes that _browser does not *)
(* name are at most as many as the scrapes cancelled so far, in the launch()  *)
(* they had begun; without a cancellation there is none.                      *)
THEOREM OrphansComeOfCancels == Spec => []NoOrphanBrowser
<1>1. Init => StrayInv
  <2> SUFFICES ASSUME Init PROVE StrayInv
    OBVIOUS
  <2>1. Strays = {} /\ cancels = 0
    BY DEF Init, Strays
  <2> QED BY <2>1, FS_EmptySet DEF StrayInv
<1>2. LockInv /\ StrayInv /\ [Next]_vars => StrayInv'
  <2> SUFFICES ASSUME LockInv, StrayInv, [Next]_vars PROVE StrayInv'
    OBVIOUS
  <2>1. CASE Strays' \subseteq Strays /\ cancels' \in {cancels, cancels + 1}
    <3>1. /\ IsFiniteSet(Strays') /\ Cardinality(Strays') <= Cardinality(Strays)
          /\ Cardinality(Strays') \in Nat /\ Cardinality(Strays) \in Nat
      BY <2>1, FS_Subset, FS_CardinalityType DEF StrayInv
    <3> QED BY <2>1, <3>1 DEF StrayInv
  <2>2. CASE Strays' \subseteq Strays \cup {launches + 1} /\ cancels' = cancels + 1
    <3> DEFINE more == Strays \cup {launches + 1}
    <3>1. /\ IsFiniteSet(more) /\ Cardinality(more) <= Cardinality(Strays) + 1
          /\ Cardinality(Strays) \in Nat
      <4>1. IsFiniteSet(Strays) /\ Cardinality(Strays) \in Nat
        BY FS_CardinalityType DEF StrayInv
      <4>2. /\ IsFiniteSet(more)
            /\ Cardinality(more) = IF launches + 1 \in Strays THEN Cardinality(Strays)
                                   ELSE Cardinality(Strays) + 1
        BY <4>1, FS_AddElement
      <4> QED BY <4>1, <4>2
    <3>2. /\ IsFiniteSet(Strays') /\ Cardinality(Strays') <= Cardinality(more)
          /\ Cardinality(Strays') \in Nat /\ Cardinality(more) \in Nat
      BY <2>2, <3>1, FS_Subset, FS_CardinalityType
    <3> QED BY <2>2, <3>1, <3>2 DEF StrayInv
  <2> QED BY <2>1, <2>2, StraysComeOfCancels
<1>3. StrayInv => NoOrphanBrowser
  BY DEF StrayInv, Strays, NoOrphanBrowser
<1> QED BY <1>1, <1>2, <1>3, LockInvHolds, PTL DEF Spec

-----------------------------------------------------------------------------
(* The contexts in circulation: q are free, h are lent, a are listed, and     *)
(* when nothing was lost those are all that is listed.                        *)
Circulate(q, h, a, lossless) ==
  /\ q \in Seq(Context) /\ h \in [Clients -> Context \cup {None}]
  /\ a \subseteq Context /\ IsFiniteSet(a)
  /\ \A i, k \in 1..Len(q) : q[i] = q[k] => i = k
  /\ \A i \in 1..Len(q), c \in Clients : q[i] # h[c]
  /\ \A c, d \in Clients : h[c] # None /\ h[c] = h[d] => c = d
  /\ \A i \in 1..Len(q) : q[i] \in a
  /\ \A c \in Clients : h[c] # None => h[c] \in a
  /\ lossless => \A x \in a : \/ \E i \in 1..Len(q) : q[i] = x
                              \/ \E c \in Clients : h[c] = x

LEMMA NoneNoContext == None \notin Context
BY NoneAssumption DEF Context

(* A context goes from the queue to a scrape that has none.                   *)
LEMMA TakeOne ==
  ASSUME NEW q, NEW h, NEW a, NEW f, Circulate(q, h, a, f), q # <<>>,
         NEW c \in Clients, h[c] = None
  PROVE  Circulate(Tail(q), [h EXCEPT ![c] = Head(q)], a, f)
<1> DEFINE m == Tail(q)
           g == [h EXCEPT ![c] = Head(q)]
<1>1. /\ m \in Seq(Context) /\ Len(m) = Len(q) - 1 /\ Len(q) \in Nat \ {0}
      /\ Head(q) = q[1] /\ 1 \in 1..Len(q) /\ q[1] \in Context
      /\ \A i \in 1..Len(m) : m[i] = q[i + 1] /\ i + 1 \in 1..Len(q) /\ i + 1 # 1
  BY DEF Circulate
<1>2. \A i \in 1..Len(q) : i = 1 \/ (i - 1 \in 1..Len(m) /\ m[i - 1] = q[i])
  BY <1>1
<1>3. g \in [Clients -> Context \cup {None}] /\ g[c] = q[1]
      /\ \A d \in Clients : d # c => g[d] = h[d]
  BY <1>1 DEF Circulate
<1> HIDE DEF m, g
<1>4. \A i, k \in 1..Len(m) : m[i] = m[k] => i = k
  BY <1>1 DEF Circulate
<1>5. \A i \in 1..Len(m), d \in Clients : m[i] # g[d]
  BY <1>1, <1>3 DEF Circulate
<1>6. \A d, e \in Clients : g[d] # None /\ g[d] = g[e] => d = e
  BY <1>1, <1>3 DEF Circulate
<1>7. /\ \A i \in 1..Len(m) : m[i] \in a
      /\ \A d \in Clients : g[d] # None => g[d] \in a
  <2>1. \A i \in 1..Len(q) : q[i] \in a
    BY DEF Circulate
  <2>2. \A i \in 1..Len(m) : m[i] \in a
    BY <1>1, <2>1
  <2>3. \A d \in Clients : g[d] # None => g[d] \in a
    BY <1>1, <1>3, <2>1 DEF Circulate
  <2> QED BY <2>2, <2>3
<1>8. ASSUME f, NEW x \in a
      PROVE  (\E i \in 1..Len(m) : m[i] = x) \/ (\E d \in Clients : g[d] = x)
  <2>1. CASE \E i \in 1..Len(q) : q[i] = x
    BY <1>2, <1>3, <2>1
  <2>2. CASE \E d \in Clients : h[d] = x
    <3>1. x # None
      BY <1>8, NoneNoContext DEF Circulate
    <3> QED BY <1>3, <2>2, <3>1
  <2> QED BY <1>8, <2>1, <2>2 DEF Circulate
<1> QED BY <1>1, <1>3, <1>4, <1>5, <1>6, <1>7, <1>8 DEF Circulate, m, g

(* What a scrape has goes to the end of the queue.                            *)
LEMMA PutBack ==
  ASSUME NEW q, NEW h, NEW a, NEW f, Circulate(q, h, a, f),
         NEW c \in Clients, h[c] # None
  PROVE  Circulate(Append(q, h[c]), [h EXCEPT ![c] = None], a, f)
<1> DEFINE m == Append(q, h[c])
           g == [h EXCEPT ![c] = None]
<1>1. /\ m \in Seq(Context) /\ Len(m) = Len(q) + 1 /\ Len(q) \in Nat
      /\ m[Len(q) + 1] = h[c] /\ h[c] \in Context
      /\ \A i \in 1..Len(q) : m[i] = q[i] /\ i \in 1..Len(m)
  BY DEF Circulate
<1>2. \A i \in 1..Len(m) : i = Len(q) + 1 \/ i \in 1..Len(q)
  BY <1>1
<1>3. g \in [Clients -> Context \cup {None}] /\ g[c] = None
      /\ \A d \in Clients : d # c => g[d] = h[d]
  BY DEF Circulate
<1>4. Len(q) + 1 \in 1..Len(m)
  BY <1>1
<1> HIDE DEF m, g
<1>5. \A i, k \in 1..Len(m) : m[i] = m[k] => i = k
  BY <1>1, <1>2 DEF Circulate
<1>6. \A i \in 1..Len(m), d \in Clients : m[i] # g[d]
  BY <1>1, <1>2, <1>3, NoneNoContext DEF Circulate
<1>7. \A d, e \in Clients : g[d] # None /\ g[d] = g[e] => d = e
  BY <1>3 DEF Circulate
<1>8. /\ \A i \in 1..Len(m) : m[i] \in a
      /\ \A d \in Clients : g[d] # None => g[d] \in a
  <2>1. \A i \in 1..Len(m) : m[i] \in a
    BY <1>1, <1>2 DEF Circulate
  <2>2. \A d \in Clients : g[d] # None => g[d] \in a
    BY <1>3 DEF Circulate
  <2> QED BY <2>1, <2>2
<1>9. ASSUME f, NEW x \in a
      PROVE  (\E i \in 1..Len(m) : m[i] = x) \/ (\E d \in Clients : g[d] = x)
  <2>1. CASE \E i \in 1..Len(q) : q[i] = x
    BY <1>1, <2>1
  <2>2. CASE \E d \in Clients : h[d] = x
    BY <1>1, <1>3, <1>4, <2>2
  <2> QED BY <1>9, <2>1, <2>2 DEF Circulate
<1> QED BY <1>1, <1>3, <1>5, <1>6, <1>7, <1>8, <1>9 DEF Circulate, m, g

(* What a scrape has is listed no more.                                       *)
LEMMA StrikeOut ==
  ASSUME NEW q, NEW h, NEW a, NEW f, Circulate(q, h, a, f),
         NEW c \in Clients, h[c] # None
  PROVE  Circulate(q, [h EXCEPT ![c] = None], a \ {h[c]}, f)
<1> DEFINE g == [h EXCEPT ![c] = None]
           b == a \ {h[c]}
<1>1. g \in [Clients -> Context \cup {None}] /\ g[c] = None
      /\ \A d \in Clients : d # c => g[d] = h[d]
  BY DEF Circulate
<1>2. b \subseteq Context /\ IsFiniteSet(b)
  BY FS_Subset DEF Circulate
<1>3. \A i \in 1..Len(q) : q[i] \in Context
  BY DEF Circulate
<1> HIDE DEF g
<1>4. \A i \in 1..Len(q), d \in Clients : q[i] # g[d]
  BY <1>1, <1>3, NoneNoContext DEF Circulate
<1>5. \A d, e \in Clients : g[d] # None /\ g[d] = g[e] => d = e
  BY <1>1 DEF Circulate
<1>6. /\ \A i \in 1..Len(q) : q[i] \in b
      /\ \A d \in Clients : g[d] # None => g[d] \in b
  BY <1>1 DEF Circulate
<1>7. ASSUME f, NEW x \in b
      PROVE  (\E i \in 1..Len(q) : q[i] = x) \/ (\E d \in Clients : g[d] = x)
  BY <1>1, <1>7 DEF Circulate
<1> QED BY <1>1, <1>2, <1>4, <1>5, <1>6, <1>7 DEF Circulate, g, b

(* A cancelled scrape loses what it has: it stays listed.                     *)
LEMMA LoseOne ==
  ASSUME NEW q, NEW h, NEW a, NEW f, Circulate(q, h, a, f), NEW c \in Clients
  PROVE  Circulate(q, [h EXCEPT ![c] = None], a, FALSE)
<1> DEFINE g == [h EXCEPT ![c] = None]
<1>1. g \in [Clients -> Context \cup {None}] /\ g[c] = None
      /\ \A d \in Clients : d # c => g[d] = h[d]
  BY DEF Circulate
<1>2. \A i \in 1..Len(q) : q[i] \in Context
  BY DEF Circulate
<1> HIDE DEF g
<1>3. \A i \in 1..Len(q), d \in Clients : q[i] # g[d]
  BY <1>1, <1>2, NoneNoContext DEF Circulate
<1>4. \A d, e \in Clients : g[d] # None /\ g[d] = g[e] => d = e
  BY <1>1 DEF Circulate
<1>5. \A d \in Clients : g[d] # None => g[d] \in a
  BY <1>1 DEF Circulate
<1> QED BY <1>1, <1>3, <1>4, <1>5 DEF Circulate, g

(* A new context joins the queue and the list.                                *)
LEMMA AddOne ==
  ASSUME NEW q, NEW h, NEW a, NEW f, Circulate(q, h, a, f), NEW x \in Context, x \notin a
  PROVE  Circulate(Append(q, x), h, a \cup {x}, f)
<1> DEFINE m == Append(q, x)
           b == a \cup {x}
<1>1. /\ m \in Seq(Context) /\ Len(m) = Len(q) + 1 /\ Len(q) \in Nat
      /\ m[Len(q) + 1] = x
      /\ \A i \in 1..Len(q) : m[i] = q[i] /\ i \in 1..Len(m)
  BY DEF Circulate
<1>2. \A i \in 1..Len(m) : i = Len(q) + 1 \/ i \in 1..Len(q)
  BY <1>1
<1>3. Len(q) + 1 \in 1..Len(m)
  BY <1>1
<1>4. b \subseteq Context /\ IsFiniteSet(b)
  BY FS_AddElement DEF Circulate
<1> HIDE DEF m
<1>5. \A i, k \in 1..Len(m) : m[i] = m[k] => i = k
  BY <1>1, <1>2 DEF Circulate
<1>6. \A i \in 1..Len(m), d \in Clients : m[i] # h[d]
  BY <1>1, <1>2, NoneNoContext DEF Circulate
<1>7. \A i \in 1..Len(m) : m[i] \in b
  BY <1>1, <1>2 DEF Circulate
<1>8. ASSUME f, NEW y \in b
      PROVE  (\E i \in 1..Len(m) : m[i] = y) \/ (\E d \in Clients : h[d] = y)
  <2>1. CASE y = x
    BY <1>1, <1>3, <2>1
  <2>2. CASE \E i \in 1..Len(q) : q[i] = y
    BY <1>1, <2>2
  <2> QED BY <1>8, <2>1, <2>2 DEF Circulate
<1> QED BY <1>1, <1>4, <1>5, <1>6, <1>7, <1>8 DEF Circulate, m, b

(* A new context has an id nothing listed has.                                *)
LEMMA NewIsNew ==
  ASSUME Circulate(queue, holding, all, cancels = 0), NEW gen \in Nat
  PROVE  NewContext(gen) \in Context /\ NewContext(gen) \notin all
<1> DEFINE ids == {x.id : x \in all}
           n == Cardinality(all)
           f == [x \in all |-> x.id]
<1>1. Free \cup Held \subseteq all
  BY DEF Circulate, Free, Held
<1>2. all \cup Free \cup Held = all
  BY <1>1
<1>3. IsFiniteSet(all) /\ n \in Nat
  BY FS_CardinalityType DEF Circulate
<1>4. IsFiniteSet(ids) /\ Cardinality(ids) <= n
  <2>1. f \in Surjection(all, ids)
    BY DEF Surjection
  <2> QED BY <1>3, <2>1, FS_Surjection
<1>5. Cardinality(1..(n + 1)) = n + 1
  BY <1>3, FS_Interval
<1>6. Cardinality(ids) \in Nat
  BY <1>4, FS_CardinalityType
<1>7. ~(1..(n + 1) \subseteq ids)
  <2> SUFFICES ASSUME 1..(n + 1) \subseteq ids PROVE FALSE
    OBVIOUS
  <2>1. Cardinality(1..(n + 1)) <= Cardinality(ids)
    BY <1>4, FS_Subset
  <2> QED BY <1>3, <1>4, <1>5, <1>6, <2>1
<1>8. Unused \in 1..(n + 1) /\ Unused \notin ids
  BY <1>2, <1>7 DEF Unused
<1>9. Unused \in Nat
  BY <1>3, <1>8
<1>10. NewContext(gen) \in Context /\ NewContext(gen).id = Unused
  BY <1>9 DEF NewContext, Context
<1> QED BY <1>8, <1>10

-----------------------------------------------------------------------------
(* Who has a context, and who counts as active.                               *)
Holders == {"swapClose", "using", "clean", "dropClose"}
Busy == {"using"} \cup Releasing

HoldInv ==
  /\ on \in [Clients -> Nat] /\ cancels \in Nat
  /\ Circulate(queue, holding, all, cancels = 0)
  /\ \A c \in Clients : holding[c] # None <=> pc[c] \in Holders
  /\ ActiveExact

Counted(from, to) ==
  \/ (from \in Busy <=> to \in Busy) /\ active' = active
  \/ from \notin Busy /\ to \in Busy /\ active' = active + 1
  \/ /\ from \in Busy /\ to \notin Busy
     /\ active' = IF active = 0 THEN 0 ELSE active - 1

(* c moves, and what it has and the count of the active go with it.           *)
Swings(c) ==
  \E p \in PCs, x \in Context \cup {None} :
    /\ pc' = [pc EXCEPT ![c] = p]
    /\ holding' = [holding EXCEPT ![c] = x]
    /\ x # None <=> p \in Holders
    /\ Counted(pc[c], p)

LEMMA ClientPoints ==
  /\ {"idle", "permit", "context", "context2", "using", "swapClose", "swapCreate", "clean",
      "dropClose", "dropCreate", "startLock", "launch", "fill"} \subseteq PCs
  /\ {"idle", "permit", "context", "context2", "startLock", "launch", "fill"}
         \cap (Holders \cup Busy) = {}
  /\ "swapClose" \in Holders \ Busy
  /\ {"using", "clean", "dropClose"} \subseteq Holders \cap Busy
  /\ "swapCreate" \notin Holders \cup Busy
  /\ "dropCreate" \in Busy \ Holders
  /\ (Locked \cup Queueing) \cap (Holders \cup Busy) = {}
  /\ {"off", "up", "down", "sleep", "boot"} \cap (Holders \cup Busy) = {}
BY DEF PCs, Holders, Busy, Releasing, Locked, Queueing

LEMMA SwingsKeeps ==
  ASSUME Placed, HoldInv, NEW c \in Clients, Swings(c)
  PROVE  (\A d \in Clients : holding'[d] # None <=> pc'[d] \in Holders) /\ ActiveExact'
<1>1. PICK p \in PCs, x \in Context \cup {None} :
        /\ pc' = [pc EXCEPT ![c] = p]
        /\ holding' = [holding EXCEPT ![c] = x]
        /\ x # None <=> p \in Holders
        /\ Counted(pc[c], p)
  BY DEF Swings
<1>2. /\ c \in Tasks /\ pc'[c] = p /\ holding'[c] = x
      /\ \A d \in Clients : d # c => pc'[d] = pc[d] /\ holding'[d] = holding[d]
  BY <1>1 DEF Placed, Tasks, HoldInv, Circulate
<1>3. \A d \in Clients : holding'[d] # None <=> pc'[d] \in Holders
  BY <1>1, <1>2 DEF HoldInv
<1>4. IsFiniteSet(Lent) /\ Cardinality(Lent) \in Nat /\ active = Cardinality(Lent)
  <2>1. Lent \in SUBSET Clients
    BY DEF Lent
  <2> QED BY <2>1, TaskAssumption, FS_Subset, FS_CardinalityType DEF HoldInv, ActiveExact
<1>5. /\ c \in Lent <=> pc[c] \in Busy
      /\ p \in Busy => Lent' = Lent \cup {c}
      /\ p \notin Busy => Lent' = Lent \ {c}
  BY <1>2 DEF Lent, Busy
<1>6. active' = Cardinality(Lent')
  <2>1. CASE (pc[c] \in Busy <=> p \in Busy) /\ active' = active
    <3>1. Lent' = Lent
      BY <1>5, <2>1
    <3> QED BY <1>4, <2>1, <3>1
  <2>2. CASE pc[c] \notin Busy /\ p \in Busy /\ active' = active + 1
    <3>1. Lent' = Lent \cup {c} /\ c \notin Lent
      BY <1>5, <2>2
    <3>2. Cardinality(Lent \cup {c}) = Cardinality(Lent) + 1
      BY <1>4, <3>1, FS_AddElement
    <3> QED BY <1>4, <2>2, <3>1, <3>2
  <2>3. CASE /\ pc[c] \in Busy /\ p \notin Busy
             /\ active' = IF active = 0 THEN 0 ELSE active - 1
    <3>1. Lent' = Lent \ {c} /\ c \in Lent
      BY <1>5, <2>3
    <3>2. Cardinality(Lent \ {c}) = Cardinality(Lent) - 1
      BY <1>4, <3>1, FS_RemoveElement
    <3>3. Cardinality(Lent) # 0
      BY <1>4, <3>1, FS_EmptySet
    <3> QED BY <1>4, <2>3, <3>1, <3>2, <3>3
  <2> QED BY <1>1, <2>1, <2>2, <2>3 DEF Counted
<1> QED BY <1>3, <1>6 DEF ActiveExact

(* The step of a task that is after no context.                               *)
LEMMA ElsewhereKeeps ==
  ASSUME Placed, HoldInv, NEW t \in Tasks, NEW p \in PCs, pc' = [pc EXCEPT ![t] = p],
         t \in Clients => pc[t] \notin Holders \cup Busy /\ p \notin Holders \cup Busy,
         UNCHANGED <<loans, all, on, cancels>>
  PROVE  HoldInv'
<1>1. \A d \in Clients : d # t => pc'[d] = pc[d]
  BY DEF Placed, Tasks
<1>2. t \in Clients => pc'[t] = p
  BY DEF Placed
<1>3. queue' = queue /\ holding' = holding /\ active' = active /\ all' = all
  BY DEF loans
<1>4. Lent' = Lent
  BY <1>1, <1>2 DEF Lent, Busy
<1>5. \A d \in Clients : holding'[d] # None <=> pc'[d] \in Holders
  BY <1>1, <1>2, <1>3 DEF HoldInv
<1>6. ActiveExact'
  BY <1>3, <1>4 DEF HoldInv, ActiveExact
<1> QED BY <1>3, <1>5, <1>6 DEF HoldInv

LEMMA FetchHolds ==
  ASSUME Placed, NEW c \in Clients, NEW q, NEW a, NEW f, Circulate(q, holding, a, f),
         holding[c] = None, pc[c] \notin Busy, Fetch(c, q)
  PROVE  Swings(c) /\ Circulate(queue', holding', a, f)
<1>1. CASE q = <<>>
  <2>1. holding' = [holding EXCEPT ![c] = None] /\ holding' = holding
    BY <1>1 DEF Fetch, Circulate
  <2>2. pc' = [pc EXCEPT ![c] = "context"] /\ active' = active /\ queue' = q
    BY <1>1 DEF Fetch, Go
  <2>3. Counted(pc[c], "context")
    BY <2>2, ClientPoints DEF Counted
  <2>4. Swings(c)
    BY <2>1, <2>2, <2>3, ClientPoints DEF Swings
  <2> QED BY <2>1, <2>2, <2>4
<1>2. CASE q # <<>>
  <2>1. Head(q) \in Context /\ Head(q) # None
    BY <1>2, NoneNoContext DEF Circulate
  <2>2. queue' = Tail(q) /\ holding' = [holding EXCEPT ![c] = Head(q)]
    BY <1>2 DEF Fetch, Lend
  <2>3. \/ pc' = [pc EXCEPT ![c] = "using"] /\ active' = active + 1
        \/ pc' = [pc EXCEPT ![c] = "swapClose"] /\ active' = active
    BY <1>2 DEF Fetch, Lend, Go
  <2>4. CASE pc' = [pc EXCEPT ![c] = "using"] /\ active' = active + 1
    <3>1. Counted(pc[c], "using")
      BY <2>4, ClientPoints DEF Counted
    <3> QED BY <2>1, <2>2, <2>4, <3>1, <1>2, TakeOne, ClientPoints DEF Swings
  <2>5. CASE pc' = [pc EXCEPT ![c] = "swapClose"] /\ active' = active
    <3>1. Counted(pc[c], "swapClose")
      BY <2>5, ClientPoints DEF Counted
    <3> QED BY <2>1, <2>2, <2>5, <3>1, <1>2, TakeOne, ClientPoints DEF Swings
  <2> QED BY <2>3, <2>4, <2>5
<1> QED BY <1>1, <1>2

LEMMA SecondHolds ==
  ASSUME Placed, NEW c \in Clients, NEW q, NEW a, NEW f,
         holding \in [Clients -> Context \cup {None}],
         Circulate(q, [holding EXCEPT ![c] = None], a, f), pc[c] \notin Busy, SecondGet(c, q)
  PROVE  Swings(c) /\ Circulate(queue', holding', a, f)
<1> DEFINE h == [holding EXCEPT ![c] = None]
<1>1. CASE q = <<>>
  <2>1. pc' = [pc EXCEPT ![c] = "context2"] /\ active' = active /\ queue' = q
        /\ holding' = h
    BY <1>1 DEF SecondGet, Go
  <2>2. Counted(pc[c], "context2")
    BY <2>1, ClientPoints DEF Counted
  <2> QED BY <2>1, <2>2, ClientPoints DEF Swings
<1>2. CASE q # <<>>
  <2>1. Head(q) \in Context /\ Head(q) # None
    BY <1>2, NoneNoContext DEF Circulate
  <2>2. queue' = Tail(q) /\ holding' = [holding EXCEPT ![c] = Head(q)]
        /\ pc' = [pc EXCEPT ![c] = "using"] /\ active' = active + 1
    BY <1>2 DEF SecondGet, Lend, Go
  <2>3. holding' = [h EXCEPT ![c] = Head(q)] /\ h[c] = None
    BY <2>2
  <2> HIDE DEF h
  <2>4. Circulate(Tail(q), [h EXCEPT ![c] = Head(q)], a, f)
    BY <1>2, <2>3, TakeOne DEF h
  <2>5. Counted(pc[c], "using")
    BY <2>2, ClientPoints DEF Counted
  <2>6. Swings(c)
    BY <2>1, <2>2, <2>5, ClientPoints DEF Swings
  <2> QED BY <2>2, <2>3, <2>4, <2>6
<1> QED BY <1>1, <1>2

LEMMA FinishHolds ==
  ASSUME Placed, NEW c \in Clients, NEW q, NEW a, NEW f,
         Circulate(q, [holding EXCEPT ![c] = None], a, f), pc[c] \in Busy, Finish(c, q)
  PROVE  Swings(c) /\ Circulate(queue', holding', a, f)
<1>1. /\ queue' = q /\ holding' = [holding EXCEPT ![c] = None]
      /\ pc' = [pc EXCEPT ![c] = "idle"]
      /\ active' = IF active = 0 THEN 0 ELSE active - 1
  BY DEF Finish, Go
<1>2. Counted(pc[c], "idle")
  BY <1>1, ClientPoints DEF Counted
<1> QED BY <1>1, <1>2, ClientPoints DEF Swings

LEMMA PermitHolds ==
  ASSUME Placed, NEW c \in Clients, NEW q, NEW a, NEW f, Circulate(q, holding, a, f),
         holding[c] = None, pc[c] \notin Busy, Permit(c, q)
  PROVE  Swings(c) /\ Circulate(queue', holding', a, f)
<1>1. CASE CanTake(sems[Current])
  BY <1>1, FetchHolds DEF Permit
<1>2. CASE ~CanTake(sems[Current])
  <2>1. pc' = [pc EXCEPT ![c] = "permit"] /\ queue' = q /\ holding' = holding
        /\ active' = active
    BY <1>2 DEF Permit, Go
  <2>2. holding' = [holding EXCEPT ![c] = None]
    BY <2>1 DEF Circulate
  <2>3. Counted(pc[c], "permit")
    BY <2>1, ClientPoints DEF Counted
  <2> QED BY <2>1, <2>2, <2>3, ClientPoints DEF Swings
<1> QED BY <1>1, <1>2

(* A client that swings and leaves the contexts in order.                     *)
LEMMA ClientHolds ==
  ASSUME Placed, HoldInv, NEW c \in Clients, Swings(c),
         Circulate(queue', holding', all', cancels' = 0),
         on' \in [Clients -> Nat], cancels' \in Nat
  PROVE  HoldInv'
BY SwingsKeeps DEF HoldInv

LEMMA StartedHolds ==
  ASSUME Placed, HoldInv, NEW t \in Tasks, pc[t] \notin Holders \cup Busy,
         NEW q, Circulate(q, holding, all', cancels = 0), Started(t, q),
         UNCHANGED <<on, cancels>>
  PROVE  HoldInv'
<1>1. on' \in [Clients -> Nat] /\ cancels' \in Nat /\ (cancels' = 0) = (cancels = 0)
  BY DEF HoldInv
<1>2. CASE t \in Clients
  <2>1. holding[t] = None /\ pc[t] \notin Busy
    BY <1>2 DEF HoldInv
  <2>2. Permit(t, q)
    BY <1>2, TaskAssumption DEF Started
  <2>3. Swings(t) /\ Circulate(queue', holding', all', cancels = 0)
    BY <1>2, <2>1, <2>2, PermitHolds
  <2> QED BY <1>1, <1>2, <2>3, ClientHolds
<1>3. CASE t \notin Clients
  <2>1. /\ queue' = q /\ holding' = holding /\ active' = active
        /\ \A d \in Clients : pc'[d] = pc[d]
    BY <1>3 DEF Started, Go, Tasks, Placed
  <2>2. Lent' = Lent
    BY <2>1 DEF Lent
  <2> QED BY <1>1, <2>1, <2>2 DEF HoldInv, ActiveExact
<1> QED BY <1>2, <1>3

LEMMA AbortedHolds ==
  ASSUME Placed, HoldInv, NEW t \in Tasks, pc[t] \notin Holders \cup Busy, Aborted(t),
         UNCHANGED <<loans, all, on, cancels>>
  PROVE  HoldInv'
<1>1. PICK p \in Away : pc' = [pc EXCEPT ![t] = p]
  BY AbortedLeaves DEF Leaves
<1>2. t \in Clients => pc'[t] = "idle"
  <2> SUFFICES ASSUME t \in Clients PROVE pc'[t] = "idle"
    OBVIOUS
  <2>1. pc' = [pc EXCEPT ![t] = "idle"]
    BY TaskAssumption DEF Aborted, Go
  <2> QED BY <2>1 DEF Placed
<1>3. t \in Clients => p = "idle"
  BY <1>1, <1>2 DEF Placed
<1> QED BY <1>1, <1>3, ElsewhereKeeps, Points, ClientPoints

LEMMA StartupHolds ==
  ASSUME Placed, HoldInv, NEW t \in Tasks, pc[t] \notin Holders \cup Busy, NEW locked,
         Startup(t, locked), UNCHANGED <<all, on, cancels>>
  PROVE  HoldInv'
<1>1. CASE browser # 0
  <2>1. Started(t, queue)
    BY <1>1 DEF Startup
  <2>2. Circulate(queue, holding, all', cancels = 0)
    BY DEF HoldInv
  <2> QED BY <2>1, <2>2, StartedHolds
<1>2. CASE browser = 0
  <2>1. pc' = [pc EXCEPT ![t] = "launch"] /\ UNCHANGED loans
    BY <1>2 DEF Startup, Go
  <2> QED BY <2>1, ElsewhereKeeps, ClientPoints
<1> QED BY <1>1, <1>2

LEMMA EnterStartupHolds ==
  ASSUME Placed, HoldInv, NEW t \in Tasks, pc[t] \notin Holders \cup Busy,
         EnterStartup(t), UNCHANGED <<all, on, cancels>>
  PROVE  HoldInv'
<1>1. CASE line = <<>>
  BY <1>1, StartupHolds DEF EnterStartup
<1>2. CASE line # <<>>
  <2>1. pc' = [pc EXCEPT ![t] = "startLock"] /\ UNCHANGED loans
    BY <1>2 DEF EnterStartup, Go
  <2> QED BY <2>1, ElsewhereKeeps, ClientPoints
<1> QED BY <1>1, <1>2

(* shutdown() is for the restarts and lifespan only.                          *)
LEMMA OutsidersKeep ==
  ASSUME Placed, HoldInv, NEW t \in Tasks \ Clients,
         \A d \in Tasks : d # t => pc'[d] = pc[d],
         UNCHANGED <<loans, all, on, cancels>>
  PROVE  HoldInv'
<1>1. \A d \in Clients : pc'[d] = pc[d]
  BY DEF Tasks
<1>2. Lent' = Lent
  BY <1>1 DEF Lent
<1> QED BY <1>1, <1>2 DEF HoldInv, ActiveExact, loans

LEMMA LockStepHolds ==
  ASSUME LockInv, HoldInv, NEW t \in Tasks, LockStep(t)
  PROVE  HoldInv'
<1> USE DEF At
<1>1. Placed /\ browser \in Nat
  BY DEF LockInv, OneBrowser
<1>2. CASE StartLockGranted(t)
  <2>1. pc[t] \notin Holders \cup Busy /\ Startup(t, line) /\ UNCHANGED <<all, on, cancels>>
    BY <1>2, ClientPoints DEF StartLockGranted, bounds
  <2> QED BY <1>1, <2>1, StartupHolds
<1>3. CASE Launched(t)
  <2>1. /\ pc[t] = "launch" /\ pc' = [pc EXCEPT ![t] = "fill"]
        /\ UNCHANGED <<loans, all, on, cancels>>
    BY <1>3 DEF Launched, Go, bounds
  <2> QED BY <1>1, <2>1, ElsewhereKeeps, ClientPoints
<1>4. CASE LaunchFails(t)
  <2>1. pc[t] \notin Holders \cup Busy /\ UNCHANGED <<loans, all, on, cancels>> /\ Aborted(t)
    BY <1>4, ClientPoints DEF LaunchFails, Fault
  <2> QED BY <1>1, <2>1, AbortedHolds
<1>5. CASE FillNext(t)
  <2> DEFINE x == NewContext(browser)
  <2>1. x \in Context /\ x \notin all
    BY <1>1, NewIsNew DEF HoldInv
  <2>2. /\ pc[t] \notin Holders \cup Busy /\ all' = all \cup {x}
        /\ UNCHANGED <<on, cancels>>
    BY <1>5, ClientPoints DEF FillNext, bounds
  <2> HIDE DEF x
  <2>3. Circulate(Append(queue, x), holding, all', cancels = 0)
    BY <2>1, <2>2, AddOne DEF HoldInv
  <2>4. CASE filled' = PoolSize
    <3>1. Started(t, Append(queue, x))
      BY <1>5, <2>4 DEF FillNext, x
    <3> QED BY <1>1, <2>2, <2>3, <3>1, StartedHolds
  <2>5. CASE filled' # PoolSize
    <3>1. queue' = Append(queue, x) /\ UNCHANGED <<pc, holding, active>>
      BY <1>5, <2>5 DEF FillNext, x
    <3>2. Lent' = Lent
      BY <3>1 DEF Lent
    <3> QED BY <2>2, <2>3, <3>1, <3>2 DEF HoldInv, ActiveExact
  <2> QED BY <2>4, <2>5
<1>6. CASE FillFails(t)
  <2>1. pc[t] \notin Holders \cup Busy /\ UNCHANGED <<loans, all, on, cancels>> /\ Aborted(t)
    BY <1>6, ClientPoints DEF FillFails, Raises, Fault, bounds
  <2> QED BY <1>1, <2>1, AbortedHolds
<1>7. ASSUME NEW p \in {"closeContexts", "closeBrowser", "stopDriver", "down", "sleep"},
             pc' = [pc EXCEPT ![t] = p], UNCHANGED <<loans, all, on, cancels>>,
             pc[t] \notin Holders \cup Busy
      PROVE  HoldInv'
  <2>1. p \in PCs /\ p \notin Holders \cup Busy
    BY DEF PCs, Holders, Busy, Releasing
  <2> QED BY <1>1, <1>7, <2>1, ElsewhereKeeps
<1>8. pc[t] \in Locked \cup Queueing => pc[t] \notin Holders \cup Busy
  BY ClientPoints
<1>9. CASE StopLockGranted(t)
  <2>1. \E p \in {"closeContexts", "down", "sleep"} : pc' = [pc EXCEPT ![t] = p]
    BY <1>9 DEF StopLockGranted, Shutdown, Stopped, Go
  <2> QED BY <1>7, <1>8, <1>9, <2>1, Points DEF StopLockGranted, bounds
<1>10. CASE ContextsClosed(t)
  BY <1>7, <1>8, <1>10, Points DEF ContextsClosed, Go, bounds
<1>11. CASE BrowserClosed(t)
  BY <1>7, <1>8, <1>11, Points DEF BrowserClosed, Go, bounds
<1>12. CASE DriverStopped(t)
  <2>1. \E p \in {"down", "sleep"} : pc' = [pc EXCEPT ![t] = p]
    BY <1>12 DEF DriverStopped, Stopped, Go
  <2> QED BY <1>7, <1>8, <1>12, <2>1, Points DEF DriverStopped, bounds
<1> QED BY <1>2, <1>3, <1>4, <1>5, <1>6, <1>9, <1>10, <1>11, <1>12 DEF LockStep

LEMMA RestartStepHolds ==
  ASSUME LockInv, HoldInv, NEW r \in Restarters, RestartStep(r)
  PROVE  HoldInv'
<1> USE DEF At
<1>1. Placed /\ r \in Tasks \ Clients
  BY TaskAssumption DEF LockInv, Tasks
<1>2. pc[r] \notin Holders \cup Busy
  BY ClientPoints DEF RestartStep, RestartRuns, Slept
<1>3. CASE RestartRuns(r)
  <2>1. UNCHANGED <<loans, all, on, cancels>>
    BY <1>3 DEF RestartRuns, bounds
  <2>2. \A d \in Tasks : d # r => pc'[d] = pc[d]
    BY <1>1, <1>3 DEF RestartRuns, EnterShutdown, Shutdown, Stopped, Go, Placed
  <2> QED BY <1>1, <2>1, <2>2, OutsidersKeep
<1>4. CASE Slept(r)
  BY <1>1, <1>2, <1>4, EnterStartupHolds DEF Slept, bounds
<1> QED BY <1>3, <1>4 DEF RestartStep

LEMMA ClientStepHolds ==
  ASSUME LockInv, HoldInv, NEW c \in Clients, ClientStep(c)
  PROVE  HoldInv'
<1> USE DEF At
<1> DEFINE h == [holding EXCEPT ![c] = None]
<1>1. /\ Placed /\ holding \in [Clients -> Context \cup {None}]
      /\ Circulate(queue, holding, all, cancels = 0)
      /\ holding[c] # None <=> pc[c] \in Holders
      /\ on \in [Clients -> Nat] /\ cancels \in Nat /\ browser \in Nat
  BY DEF LockInv, HoldInv, Circulate, OneBrowser
<1>2. CASE PermitGranted(c)
  <2>1. pc[c] \notin Holders \cup Busy /\ Fetch(c, queue) /\ UNCHANGED <<all, on, cancels>>
    BY <1>2, ClientPoints DEF PermitGranted, bounds
  <2> QED BY <1>1, <2>1, FetchHolds, ClientHolds
<1>3. CASE PermitTimeout(c)
  <2>1. pc[c] \notin Holders \cup Busy /\ pc' = [pc EXCEPT ![c] = "idle"]
        /\ UNCHANGED <<loans, all, on, cancels>>
    BY <1>3, ClientPoints DEF PermitTimeout, Go, bounds
  <2> QED BY <1>1, <2>1, ElsewhereKeeps, ClientPoints DEF Tasks
<1>4. CASE ContextArrives(c)
  <2>1. pc[c] \notin Holders \cup Busy /\ UNCHANGED <<all, on, cancels>>
    BY <1>4, ClientPoints DEF ContextArrives, bounds
  <2>2. CASE Fetch(c, queue)
    BY <1>1, <2>1, <2>2, FetchHolds, ClientHolds
  <2>3. CASE SecondGet(c, queue)
    <3>1. h = holding
      BY <1>1, <2>1
    <3> QED BY <1>1, <2>1, <2>3, <3>1, SecondHolds, ClientHolds
  <2> QED BY <1>4, <2>2, <2>3 DEF ContextArrives
<1>5. CASE ContextTimeout(c)
  <2>1. pc[c] \notin Holders \cup Busy /\ pc' = [pc EXCEPT ![c] = "idle"]
        /\ UNCHANGED <<loans, all, on, cancels>>
    BY <1>5, ClientPoints DEF ContextTimeout, Go, bounds
  <2> QED BY <1>1, <2>1, ElsewhereKeeps, ClientPoints DEF Tasks
<1>6. ASSUME NEW p \in {"clean", "dropClose"}, pc' = [pc EXCEPT ![c] = p],
             pc[c] \in {"using", "clean"}, UNCHANGED <<loans, all, on, cancels>>
      PROVE  HoldInv'
  <2>1. holding' = [holding EXCEPT ![c] = holding[c]] /\ active' = active /\ queue' = queue
    BY <1>1, <1>6 DEF loans
  <2>2. Counted(pc[c], p)
    BY <1>6, <2>1, ClientPoints DEF Counted
  <2>3. holding[c] # None /\ p \in Holders /\ p \in PCs /\ holding[c] \in Context \cup {None}
    BY <1>1, <1>6, ClientPoints
  <2>4. Swings(c)
    BY <1>6, <2>1, <2>2, <2>3 DEF Swings
  <2>5. holding' = holding
    BY <1>6 DEF loans
  <2> QED BY <1>1, <1>6, <2>1, <2>4, <2>5, ClientHolds
<1>7. CASE UseEnds(c)
  <2>1. \E p \in {"clean", "dropClose"} : pc' = [pc EXCEPT ![c] = p]
    BY <1>7 DEF UseEnds, Go
  <2> QED BY <1>6, <1>7, <2>1 DEF UseEnds, bounds
<1>8. CASE CleanFails(c)
  <2>1. UNCHANGED cancels
    BY <1>8 DEF CleanFails, Raises, Fault, bounds
  <2> QED BY <1>6, <1>8, <2>1 DEF CleanFails, Go
<1>9. CASE CleanOk(c)
  <2>1. pc[c] \in Busy /\ holding[c] # None /\ Finish(c, Append(queue, holding[c]))
        /\ UNCHANGED <<all, on, cancels>>
    BY <1>1, <1>9, ClientPoints DEF CleanOk, bounds
  <2>2. Circulate(Append(queue, holding[c]), h, all, cancels = 0)
    BY <1>1, <2>1, PutBack
  <2> QED BY <1>1, <2>1, <2>2, FinishHolds, ClientHolds
<1>10. ASSUME NEW q, Recycled(c, q), Circulate(q, h, all', cancels = 0),
              on' \in [Clients -> Nat], UNCHANGED cancels
       PROVE  HoldInv'
  <2>1. CASE pc[c] \in {"swapClose", "swapCreate"} /\ SecondGet(c, q)
    <3>1. pc[c] \notin Busy
      BY <2>1, ClientPoints
    <3> QED BY <1>1, <1>10, <2>1, <3>1, SecondHolds, ClientHolds
  <2>2. CASE pc[c] \in {"dropClose", "dropCreate"} /\ Finish(c, q)
    <3>1. pc[c] \in Busy
      BY <2>2, ClientPoints
    <3> QED BY <1>1, <1>10, <2>2, <3>1, FinishHolds, ClientHolds
  <2> QED BY <1>10, <2>1, <2>2 DEF Recycled
<1>11. CASE OldClosed(c)
  <2>1. pc[c] \in {"swapClose", "dropClose"} /\ all' = all \ {holding[c]}
        /\ holding[c] # None /\ UNCHANGED cancels
    BY <1>1, <1>11, ClientPoints DEF OldClosed, bounds
  <2>2. Circulate(queue, h, all', cancels = 0)
    BY <1>1, <2>1, StrikeOut
  <2>3. CASE browser # 0 /\ ~shut
    <3>1. /\ on' = [on EXCEPT ![c] = browser] /\ holding' = h
          /\ queue' = queue /\ active' = active
          /\ pc' = [pc EXCEPT ![c] = IF pc[c] = "swapClose" THEN "swapCreate" ELSE "dropCreate"]
      BY <1>11, <2>3 DEF OldClosed, Go
    <3>2. on' \in [Clients -> Nat]
      BY <1>1, <3>1
    <3>3. Swings(c)
      <4>1. CASE pc[c] = "swapClose"
        <5>1. Counted(pc[c], "swapCreate") /\ pc' = [pc EXCEPT ![c] = "swapCreate"]
          BY <3>1, <4>1, ClientPoints DEF Counted
        <5> QED BY <3>1, <5>1, ClientPoints DEF Swings
      <4>2. CASE pc[c] = "dropClose"
        <5>1. Counted(pc[c], "dropCreate") /\ pc' = [pc EXCEPT ![c] = "dropCreate"]
          BY <3>1, <4>2, ClientPoints DEF Counted
        <5> QED BY <3>1, <5>1, ClientPoints DEF Swings
      <4> QED BY <2>1, <4>1, <4>2
    <3> QED BY <1>1, <2>1, <2>2, <3>1, <3>2, <3>3, ClientHolds
  <2>4. CASE ~(browser # 0 /\ ~shut)
    <3>1. Recycled(c, queue) /\ on' = on
      BY <1>11, <2>4 DEF OldClosed
    <3> QED BY <1>1, <1>10, <2>1, <2>2, <3>1
  <2> QED BY <2>3, <2>4
<1>12. ASSUME pc[c] \in {"swapCreate", "dropCreate"}
       PROVE  h = holding
  <2>1. holding[c] = None
    BY <1>1, <1>12, ClientPoints
  <2> QED BY <1>1, <2>1
<1>13. ASSUME on' = [on EXCEPT ![c] = 0] PROVE on' \in [Clients -> Nat]
  BY <1>1, <1>13
<1>14. CASE NewCreated(c)
  <2> DEFINE x == NewContext(on[c])
  <2>1. x \in Context /\ x \notin all
    BY <1>1, NewIsNew
  <2>2. /\ pc[c] \in {"swapCreate", "dropCreate"} /\ all' = all \cup {x}
        /\ on' = [on EXCEPT ![c] = 0] /\ Recycled(c, Append(queue, x)) /\ UNCHANGED cancels
    BY <1>14 DEF NewCreated, bounds
  <2> HIDE DEF x
  <2>3. Circulate(Append(queue, x), h, all', cancels = 0)
    BY <1>1, <1>12, <2>1, <2>2, AddOne
  <2> QED BY <1>10, <1>13, <2>2, <2>3
<1>15. CASE NewFails(c)
  <2>1. /\ pc[c] \in {"swapCreate", "dropCreate"} /\ all' = all
        /\ on' = [on EXCEPT ![c] = 0] /\ Recycled(c, queue) /\ UNCHANGED cancels
    BY <1>15 DEF NewFails, Raises, Fault, bounds
  <2>2. Circulate(queue, h, all', cancels = 0)
    BY <1>1, <1>12, <2>1
  <2> QED BY <1>10, <1>13, <2>1, <2>2
<1> QED BY <1>2, <1>3, <1>4, <1>5, <1>7, <1>8, <1>9, <1>11, <1>14, <1>15 DEF ClientStep

LEMMA CancelHolds ==
  ASSUME LockInv, HoldInv, NEW c \in Clients, Cancel(c)
  PROVE  HoldInv'
<1> DEFINE h == [holding EXCEPT ![c] = None]
<1>1. /\ Placed /\ on \in [Clients -> Nat] /\ cancels \in Nat
      /\ Circulate(queue, holding, all, cancels = 0)
  BY DEF LockInv, HoldInv
<1>2. /\ on' \in [Clients -> Nat] /\ cancels' \in Nat /\ (cancels' = 0) = FALSE
      /\ all' = all
  BY <1>1 DEF Cancel
<1>3. Circulate(queue, h, all, FALSE)
  BY <1>1, LoseOne
<1>4. CASE pc[c] \in Releasing /\ Finish(c, queue)
  <2>1. pc[c] \in Busy
    BY <1>4 DEF Busy
  <2>2. Swings(c) /\ Circulate(queue', holding', all, FALSE)
    BY <1>1, <1>3, <1>4, <2>1, FinishHolds
  <2> QED BY <1>1, <1>2, <2>2, ClientHolds
<1>5. CASE /\ pc[c] \in Waiting /\ holding' = h /\ queue' = queue /\ active' = active
           /\ pc' = [pc EXCEPT ![c] = "idle"]
  <2>1. Counted(pc[c], "idle")
    BY <1>5, ClientPoints DEF Counted, Waiting
  <2>2. Swings(c)
    BY <1>5, <2>1, ClientPoints DEF Swings
  <2> QED BY <1>1, <1>2, <1>3, <1>5, <2>2, ClientHolds
<1> QED BY <1>4, <1>5 DEF Cancel, Go

LEMMA HoldInvHolds == Spec => []HoldInv
<1>1. Init => HoldInv
  <2> SUFFICES ASSUME Init PROVE HoldInv
    OBVIOUS
  <2>1. \A c \in Clients : pc[c] = "idle" /\ holding[c] = None
    BY TaskAssumption DEF Init, Tasks
  <2>2. Lent = {} /\ active = 0
    BY <2>1, ClientPoints DEF Lent, Init, Releasing
  <2>3. Circulate(queue, holding, all, cancels = 0)
    BY FS_EmptySet DEF Init, Circulate
  <2>4. ActiveExact
    BY <2>2, FS_EmptySet DEF ActiveExact
  <2> QED BY <2>1, <2>3, <2>4, ClientPoints DEF Init, HoldInv
<1>2. LockInv /\ HoldInv /\ [Next]_vars => HoldInv'
  <2> SUFFICES ASSUME LockInv, HoldInv, [Next]_vars PROVE HoldInv'
    OBVIOUS
  <2> USE DEF At
  <2>0. Placed
    BY DEF LockInv
  <2>1. ASSUME NEW t \in Tasks, LockStep(t) PROVE HoldInv'
    BY <2>1, LockStepHolds
  <2>2. ASSUME NEW r \in Restarters, RestartStep(r) PROVE HoldInv'
    BY <2>2, RestartStepHolds
  <2>3. ASSUME NEW c \in Clients, ClientStep(c) PROVE HoldInv'
    BY <2>3, ClientStepHolds
  <2>4. ASSUME NEW c \in Clients, Acquire(c) PROVE HoldInv'
    <3>1. c \in Tasks /\ pc[c] \notin Holders \cup Busy /\ UNCHANGED <<all, on, cancels>>
      BY <2>4, ClientPoints DEF Acquire, Tasks, bounds
    <3>2. CASE browser = 0 \/ shut
      BY <2>0, <2>4, <3>1, <3>2, EnterStartupHolds DEF Acquire
    <3>3. CASE ~(browser = 0 \/ shut)
      <4>1. Permit(c, queue) /\ holding[c] = None
        BY <2>4, <3>1, <3>3 DEF Acquire, HoldInv
      <4>2. Swings(c) /\ Circulate(queue', holding', all, cancels = 0)
        BY <2>0, <3>1, <4>1, PermitHolds DEF HoldInv
      <4> QED BY <2>0, <3>1, <4>2, ClientHolds DEF HoldInv
    <3> QED BY <3>2, <3>3
  <2>5. ASSUME NEW c \in Clients, Cancel(c) PROVE HoldInv'
    BY <2>5, CancelHolds
  <2>6. CASE Boot
    <3>1. App \in Tasks /\ pc[App] \notin Holders \cup Busy /\ EnterStartup(App)
          /\ UNCHANGED <<all, on, cancels>>
      BY <2>6, ClientPoints DEF Boot, Tasks, bounds
    <3> QED BY <2>0, <3>1, EnterStartupHolds
  <2>7. CASE AppStops
    <3>1. App \in Tasks \ Clients /\ UNCHANGED <<loans, all, on, cancels>>
      BY <2>7, TaskAssumption DEF AppStops, Tasks, bounds
    <3>2. \A d \in Tasks : d # App => pc'[d] = pc[d]
      BY <2>0, <2>7 DEF AppStops, EnterShutdown, Shutdown, Stopped, Go, Placed, Tasks
    <3> QED BY <2>0, <3>1, <3>2, OutsidersKeep
  <2>8. CASE Crash \/ UNCHANGED vars
    <3>1. UNCHANGED <<queue, holding, active, all, on, cancels, pc>>
      BY <2>8 DEF Crash, Fault, vars, loans, bounds
    <3>2. Lent' = Lent
      BY <3>1 DEF Lent
    <3> QED BY <3>1, <3>2 DEF HoldInv, ActiveExact
  <2> QED BY <2>1, <2>2, <2>3, <2>4, <2>5, <2>6, <2>7, <2>8 DEF Next
<1> QED BY <1>1, <1>2, LockInvHolds, PTL DEF Spec

(* A browser context serves one scrape at a time, across crashes, recycling,  *)
(* restarts and cancellations (acquire(), release(), _recycle_context()).     *)
THEOREM ContextsApart == Spec => []NoSharedContext
<1>1. HoldInv => NoSharedContext
  <2> SUFFICES ASSUME HoldInv PROVE NoSharedContext
    OBVIOUS
  <2>1. Circulate(queue, holding, all, cancels = 0) /\ DOMAIN queue = 1..Len(queue)
    BY DEF HoldInv, Circulate
  <2>2. Free \cap Held = {}
    BY <2>1 DEF Circulate, Free, Held
  <2> QED BY <2>1, <2>2 DEF Circulate, NoSharedContext
<1> QED BY <1>1, HoldInvHolds, PTL

(* What is free or lent is listed in _all_contexts, where shutdown() finds    *)
(* it, and unless a scrape was cancelled nothing else is listed.              *)
THEOREM ContextsListed == Spec => []ContextsAccountedFor
<1>1. HoldInv => ContextsAccountedFor
  <2> SUFFICES ASSUME HoldInv PROVE ContextsAccountedFor
    OBVIOUS
  <2>1. Circulate(queue, holding, all, cancels = 0) /\ DOMAIN queue = 1..Len(queue)
    BY DEF HoldInv, Circulate
  <2>2. Free \cup Held \subseteq all
    BY <2>1 DEF Circulate, Free, Held
  <2>3. ASSUME cancels = 0, NEW x \in all PROVE x \in Free \cup Held
    <3>1. x # None
      BY <2>1, <2>3, NoneNoContext DEF Circulate
    <3>2. (\E i \in 1..Len(queue) : queue[i] = x) \/ (\E c \in Clients : holding[c] = x)
      BY <2>1, <2>3 DEF Circulate
    <3> QED BY <2>1, <3>1, <3>2 DEF Free, Held
  <2> QED BY <2>2, <2>3 DEF ContextsAccountedFor
<1> QED BY <1>1, HoldInvHolds, PTL

(* _active_count, which /ready reports, is the number of contexts lent, for   *)
(* the max(0, ...) of release() never bites.                                  *)
THEOREM ActiveCounts == Spec => []ActiveExact
BY HoldInvHolds, PTL DEF HoldInv

-----------------------------------------------------------------------------
(* Counting sets whose members are told apart by a number.                    *)
LEMMA UpTo ==
  ASSUME NEW n \in Nat
  PROVE  IsFiniteSet(1..n) /\ Cardinality(1..n) = n
<1>1. 1 \in Int /\ n \in Int
  OBVIOUS
<1>2. IsFiniteSet(1..n) /\ Cardinality(1..n) = IF 1 > n THEN 0 ELSE n - 1 + 1
  BY <1>1, FS_Interval
<1> QED BY <1>2

LEMMA Column ==
  ASSUME NEW i, NEW S, IsFiniteSet(S)
  PROVE  /\ IsFiniteSet({i} \X S)
         /\ Cardinality({i} \X S) = Cardinality(S)
         /\ Cardinality(S) \in Nat
<1>1. IsFiniteSet({i}) /\ Cardinality({i}) = 1
  BY FS_Singleton
<1>2. IsFiniteSet({i} \X S) /\ Cardinality({i} \X S) = Cardinality({i}) * Cardinality(S)
  BY <1>1, FS_Product
<1>3. Cardinality(S) \in Nat
  BY FS_CardinalityType
<1>4. Cardinality({i} \X S) = 1 * Cardinality(S)
  BY <1>1, <1>2
<1> QED BY <1>2, <1>3, <1>4

LEMMA ApartUnion ==
  ASSUME NEW S, IsFiniteSet(S), NEW T, IsFiniteSet(T), S \cap T = {}
  PROVE  /\ IsFiniteSet(S \cup T)
         /\ Cardinality(S \cup T) = Cardinality(S) + Cardinality(T)
         /\ Cardinality(S) \in Nat /\ Cardinality(T) \in Nat
<1>1. /\ IsFiniteSet(S \cup T)
      /\ Cardinality(S \cup T) = Cardinality(S) + Cardinality(T) - Cardinality(S \cap T)
  BY FS_Union
<1>2. Cardinality(S \cap T) = 0
  BY FS_EmptySet
<1>3. Cardinality(S) \in Nat /\ Cardinality(T) \in Nat
  BY FS_CardinalityType
<1> QED BY <1>1, <1>2, <1>3

LEMMA TaggedFinite ==
  ASSUME NEW n \in Nat, NEW f, DOMAIN f = 1..n, \A i \in 1..n : IsFiniteSet(f[i])
  PROVE  IsFiniteSet(Tagged(f)) /\ Cardinality(Tagged(f)) \in Nat
<1> DEFINE parts == {{i} \X f[i] : i \in 1..n}
           part == [i \in 1..n |-> {i} \X f[i]]
<1>1. IsFiniteSet(parts)
  <2>1. part \in Surjection(1..n, parts)
    BY DEF Surjection
  <2>2. IsFiniteSet(1..n)
    BY UpTo
  <2> QED BY <2>1, <2>2, FS_Surjection
<1>2. \A i \in 1..n : IsFiniteSet({i} \X f[i])
  BY Column
<1>3. \A T \in parts : IsFiniteSet(T)
  BY <1>2
<1>4. Tagged(f) = UNION parts
  BY DEF Tagged
<1> HIDE DEF parts
<1> QED BY <1>1, <1>3, <1>4, FS_UNION, FS_CardinalityType

LEMMA TaggedReplace ==
  ASSUME NEW n \in Nat, NEW f, NEW g, DOMAIN f = 1..n, DOMAIN g = 1..n,
         \A k \in 1..n : IsFiniteSet(f[k]) /\ IsFiniteSet(g[k]),
         NEW i \in 1..n, \A k \in 1..n : k # i => g[k] = f[k]
  PROVE  Cardinality(Tagged(g)) + Cardinality(f[i]) = Cardinality(Tagged(f)) + Cardinality(g[i])
<1> DEFINE rest == UNION {{k} \X f[k] : k \in (1..n) \ {i}}
<1>1. Tagged(f) = rest \cup ({i} \X f[i]) /\ Tagged(g) = rest \cup ({i} \X g[i])
  BY DEF Tagged
<1>2. rest \cap ({i} \X f[i]) = {} /\ rest \cap ({i} \X g[i]) = {}
  OBVIOUS
<1> HIDE DEF rest
<1>3. IsFiniteSet(rest)
  BY <1>1, TaggedFinite, FS_Subset
<1>4. /\ IsFiniteSet({i} \X f[i]) /\ Cardinality({i} \X f[i]) = Cardinality(f[i])
      /\ IsFiniteSet({i} \X g[i]) /\ Cardinality({i} \X g[i]) = Cardinality(g[i])
      /\ Cardinality(f[i]) \in Nat /\ Cardinality(g[i]) \in Nat
  BY Column
<1>5. Cardinality(Tagged(f)) = Cardinality(rest) + Cardinality({i} \X f[i])
  BY <1>1, <1>2, <1>3, <1>4, ApartUnion
<1>6. Cardinality(Tagged(g)) = Cardinality(rest) + Cardinality({i} \X g[i])
  BY <1>1, <1>2, <1>3, <1>4, ApartUnion
<1>7. Cardinality(rest) \in Nat
  BY <1>3, FS_CardinalityType
<1> QED BY <1>4, <1>5, <1>6, <1>7

LEMMA TaggedExtend ==
  ASSUME NEW n \in Nat, NEW f, NEW g, DOMAIN f = 1..n, DOMAIN g = 1..(n + 1),
         \A k \in 1..(n + 1) : IsFiniteSet(g[k]), \A k \in 1..n : g[k] = f[k]
  PROVE  Cardinality(Tagged(g)) = Cardinality(Tagged(f)) + Cardinality(g[n + 1])
<1> DEFINE last == {n + 1} \X g[n + 1]
<1>1. 1..(n + 1) = 1..n \cup {n + 1}
  OBVIOUS
<1>2. Tagged(g) = Tagged(f) \cup last
  <2>1. Tagged(g) = UNION {{k} \X g[k] : k \in 1..n \cup {n + 1}}
    BY <1>1 DEF Tagged
  <2>2. Tagged(f) = UNION {{k} \X g[k] : k \in 1..n}
    BY DEF Tagged
  <2> QED BY <2>1, <2>2
<1>3. Tagged(f) \cap last = {}
  BY DEF Tagged
<1>4. IsFiniteSet(Tagged(f)) /\ Cardinality(Tagged(f)) \in Nat
  BY <1>1, TaggedFinite
<1>5. IsFiniteSet(last) /\ Cardinality(last) = Cardinality(g[n + 1])
  BY <1>1, Column
<1> HIDE DEF last
<1> QED BY <1>2, <1>3, <1>4, <1>5, ApartUnion

-----------------------------------------------------------------------------
(* The semaphores.                                                            *)
SemTypes(ss) ==
  /\ ss \in Seq(Semaphores(Clients))
  /\ \A i \in 1..Len(ss) : Sound(ss[i])

Served(s) == Queued(s) \cup s.woken

(* Permits idle or promised.                                                  *)
Unowned == Cardinality(Idle) + Cardinality(Promised)

LEMMA UnownedFinite ==
  ASSUME SemTypes(sems)
  PROVE  /\ Cardinality(Idle) \in Nat /\ Cardinality(Promised) \in Nat
         /\ \A i \in 1..Len(sems) : /\ IsFiniteSet(1..sems[i].value)
                                    /\ Cardinality(1..sems[i].value) = sems[i].value
                                    /\ IsFiniteSet(sems[i].woken)
                                    /\ Cardinality(sems[i].woken) \in Nat
                                    /\ sems[i].value \in Nat
<1>1. Len(sems) \in Nat /\ DOMAIN sems = 1..Len(sems)
  BY DEF SemTypes
<1>2. \A i \in 1..Len(sems) : sems[i].value \in Nat /\ IsFiniteSet(sems[i].woken)
  <2> TAKE i \in 1..Len(sems)
  <2>1. sems[i] \in Semaphores(Clients) /\ Sound(sems[i])
    BY DEF SemTypes
  <2> QED BY <2>1 DEF Semaphores, Sound
<1>3. \A i \in 1..Len(sems) : /\ IsFiniteSet(1..sems[i].value)
                             /\ Cardinality(1..sems[i].value) = sems[i].value
                             /\ Cardinality(sems[i].woken) \in Nat
  <2> TAKE i \in 1..Len(sems)
  <2>1. sems[i].value \in Nat /\ IsFiniteSet(sems[i].woken)
    BY <1>2
  <2>2. IsFiniteSet(1..sems[i].value) /\ Cardinality(1..sems[i].value) = sems[i].value
    BY <2>1, UpTo
  <2>3. Cardinality(sems[i].woken) \in Nat
    BY <2>1, FS_CardinalityType
  <2> QED BY <2>2, <2>3
<1>4. Cardinality(Idle) \in Nat
  <2> DEFINE f == [i \in DOMAIN sems |-> 1..sems[i].value]
  <2>1. DOMAIN f = 1..Len(sems) /\ \A i \in 1..Len(sems) : IsFiniteSet(f[i])
    BY <1>1, <1>3
  <2> HIDE DEF f
  <2>2. Cardinality(Tagged(f)) \in Nat
    BY <1>1, <2>1, TaggedFinite
  <2> QED BY <2>2 DEF f, Idle
<1>5. Cardinality(Promised) \in Nat
  <2> DEFINE f == [i \in DOMAIN sems |-> sems[i].woken]
  <2>1. DOMAIN f = 1..Len(sems) /\ \A i \in 1..Len(sems) : IsFiniteSet(f[i])
    BY <1>1, <1>2
  <2> HIDE DEF f
  <2>2. Cardinality(Tagged(f)) \in Nat
    BY <1>1, <2>1, TaggedFinite
  <2> QED BY <2>2 DEF f, Promised
<1> QED BY <1>2, <1>3, <1>4, <1>5

(* A change of one semaphore.                                                 *)
LEMMA OneChanges ==
  ASSUME SemTypes(sems), NEW i \in 1..Len(sems),
         NEW t \in Semaphores(Clients), Sound(t), sems' = [sems EXCEPT ![i] = t]
  PROVE  /\ SemTypes(sems') /\ Len(sems') = Len(sems)
         /\ \A k \in 1..Len(sems) : sems'[k] = IF k = i THEN t ELSE sems[k]
         /\ Unowned' + Permits(sems[i]) = Unowned + Permits(t)
         /\ Unowned' \in Nat
<1> DEFINE n == Len(sems)
           v == [k \in DOMAIN sems |-> 1..sems[k].value]
           w == [k \in DOMAIN sems |-> sems[k].woken]
           vv == [k \in DOMAIN sems' |-> 1..sems'[k].value]
           ww == [k \in DOMAIN sems' |-> sems'[k].woken]
<1>1. /\ n \in Nat /\ DOMAIN sems = 1..n /\ DOMAIN sems' = 1..n /\ Len(sems') = n
      /\ \A k \in 1..n : sems'[k] = IF k = i THEN t ELSE sems[k]
      /\ sems' \in Seq(Semaphores(Clients))
  BY DEF SemTypes
<1>2. SemTypes(sems')
  BY <1>1 DEF SemTypes
<1>3. /\ Cardinality(Idle) \in Nat /\ Cardinality(Promised) \in Nat
      /\ \A k \in 1..n : /\ IsFiniteSet(1..sems[k].value)
                         /\ Cardinality(1..sems[k].value) = sems[k].value
                         /\ IsFiniteSet(sems[k].woken)
                         /\ Cardinality(sems[k].woken) \in Nat
                         /\ sems[k].value \in Nat
  BY UnownedFinite
<1>4. /\ IsFiniteSet(1..t.value) /\ Cardinality(1..t.value) = t.value
      /\ IsFiniteSet(t.woken) /\ Cardinality(t.woken) \in Nat /\ t.value \in Nat
  <2>1. t.value \in Nat /\ IsFiniteSet(t.woken)
    BY DEF Semaphores, Sound
  <2> QED BY <2>1, UpTo, FS_CardinalityType
<1>5. /\ DOMAIN v = 1..n /\ DOMAIN w = 1..n /\ DOMAIN vv = 1..n /\ DOMAIN ww = 1..n
      /\ \A k \in 1..n : v[k] = 1..sems[k].value /\ w[k] = sems[k].woken
      /\ \A k \in 1..n : k # i => vv[k] = v[k] /\ ww[k] = w[k]
      /\ vv[i] = 1..t.value /\ ww[i] = t.woken
  BY <1>1
<1>6. Idle = Tagged(v) /\ Promised = Tagged(w) /\ Idle' = Tagged(vv) /\ Promised' = Tagged(ww)
  BY DEF Idle, Promised, Tagged
<1> HIDE DEF v, w, vv, ww, n
<1>7. Cardinality(Tagged(vv)) + Cardinality(v[i]) = Cardinality(Tagged(v)) + Cardinality(vv[i])
  <2>1. \A k \in 1..n : IsFiniteSet(v[k]) /\ IsFiniteSet(vv[k])
    BY <1>3, <1>4, <1>5
  <2>2. i \in 1..n
    BY DEF n
  <2>3. n \in Nat
    BY <1>1
  <2>4. \A k \in 1..n : k # i => vv[k] = v[k]
    BY <1>5
  <2>5. DOMAIN v = 1..n /\ DOMAIN vv = 1..n
    BY <1>5
  <2> QED BY <2>1, <2>2, <2>3, <2>4, <2>5, TaggedReplace
<1>8. Cardinality(Tagged(ww)) + Cardinality(w[i]) = Cardinality(Tagged(w)) + Cardinality(ww[i])
  <2>1. \A k \in 1..n : IsFiniteSet(w[k]) /\ IsFiniteSet(ww[k])
    BY <1>3, <1>4, <1>5
  <2>2. i \in 1..n
    BY DEF n
  <2>3. n \in Nat
    BY <1>1
  <2>4. \A k \in 1..n : k # i => ww[k] = w[k]
    BY <1>5
  <2>5. DOMAIN w = 1..n /\ DOMAIN ww = 1..n
    BY <1>5
  <2> QED BY <2>1, <2>2, <2>3, <2>4, <2>5, TaggedReplace
<1>9. i \in 1..n
  BY DEF n
<1>10. Cardinality(Idle') + sems[i].value = Cardinality(Idle) + t.value
  BY <1>3, <1>4, <1>5, <1>6, <1>7, <1>9
<1>11. Cardinality(Promised') + Cardinality(sems[i].woken)
         = Cardinality(Promised) + Cardinality(t.woken)
  BY <1>5, <1>6, <1>8, <1>9
<1>12. Cardinality(Idle') \in Nat /\ Cardinality(Promised') \in Nat
  <2>1. \A k \in 1..n : IsFiniteSet(vv[k]) /\ IsFiniteSet(ww[k])
    BY <1>3, <1>4, <1>5
  <2> QED BY <1>1, <1>5, <1>6, <2>1, TaggedFinite
<1>13. Unowned' + Permits(sems[i]) = Unowned + Permits(t)
  <2>1. /\ Cardinality(sems[i].woken) \in Nat /\ sems[i].value \in Nat
        /\ Cardinality(t.woken) \in Nat /\ t.value \in Nat
    BY <1>3, <1>4, <1>9
  <2>2. /\ Unowned' = Cardinality(Idle') + Cardinality(Promised')
        /\ Unowned = Cardinality(Idle) + Cardinality(Promised)
    BY DEF Unowned
  <2>3. /\ Permits(t) = t.value + Cardinality(t.woken)
        /\ Permits(sems[i]) = sems[i].value + Cardinality(sems[i].woken)
    BY DEF Permits
  <2>4. Cardinality(Idle) \in Nat /\ Cardinality(Promised) \in Nat
    BY <1>3
  <2> DEFINE a == Cardinality(Idle')
             b == sems[i].value
             c == Cardinality(Idle)
             d == t.value
             e == Cardinality(Promised')
             f == Cardinality(sems[i].woken)
             g == Cardinality(Promised)
             h == Cardinality(t.woken)
  <2>5. /\ a \in Nat /\ b \in Nat /\ c \in Nat /\ d \in Nat
        /\ e \in Nat /\ f \in Nat /\ g \in Nat /\ h \in Nat
        /\ a + b = c + d /\ e + f = g + h
    BY <1>10, <1>11, <1>12, <2>1, <2>4
  <2>6. Unowned' + Permits(sems[i]) = (a + e) + (b + f) /\ Unowned + Permits(t) = (c + g) + (d + h)
    BY <2>2, <2>3
  <2> HIDE DEF a, b, c, d, e, f, g, h
  <2>7. (a + e) + (b + f) = (c + g) + (d + h)
    BY <2>5
  <2> QED BY <2>6, <2>7
<1>14. Unowned' \in Nat
  BY <1>12 DEF Unowned
<1> QED BY <1>1, <1>2, <1>13, <1>14 DEF n

(* startup() makes a semaphore.                                               *)
LEMMA OneMore ==
  ASSUME SemTypes(sems), sems' = Append(sems, NewSemaphore(MaxConcurrent))
  PROVE  /\ SemTypes(sems') /\ Len(sems') = Len(sems) + 1
         /\ \A k \in 1..Len(sems) : sems'[k] = sems[k]
         /\ Served(sems'[Len(sems) + 1]) = {}
         /\ Unowned' = Unowned + MaxConcurrent
<1> DEFINE n == Len(sems)
           t == NewSemaphore(MaxConcurrent)
           v == [k \in DOMAIN sems |-> 1..sems[k].value]
           w == [k \in DOMAIN sems |-> sems[k].woken]
           vv == [k \in DOMAIN sems' |-> 1..sems'[k].value]
           ww == [k \in DOMAIN sems' |-> sems'[k].woken]
<1>0. /\ t \in Semaphores(Clients) /\ Sound(t) /\ Served(t) = {}
      /\ t.value = MaxConcurrent /\ t.woken = {} /\ MaxConcurrent \in Nat
  <2>1. t = [value |-> MaxConcurrent, waiting |-> <<>>, woken |-> {}]
    BY DEF NewSemaphore
  <2>2. Queued(t) = {}
    BY <2>1 DEF Queued
  <2>3. Sound(t)
    BY <2>1, <2>2, FS_EmptySet DEF Sound
  <2>4. MaxConcurrent \in Nat
    BY SizeAssumption
  <2>5. t \in Semaphores(Clients)
    <3>1. <<>> \in Seq(Clients)
      OBVIOUS
    <3> QED BY <2>1, <2>4, <3>1 DEF Semaphores
  <2>6. t.value = MaxConcurrent /\ t.woken = {}
    BY <2>1
  <2>7. Served(t) = {}
    BY <2>2, <2>6 DEF Served
  <2> HIDE DEF t
  <2> QED BY <2>3, <2>4, <2>5, <2>6, <2>7
<1>1. /\ n \in Nat /\ DOMAIN sems = 1..n /\ Len(sems') = n + 1 /\ DOMAIN sems' = 1..(n + 1)
      /\ \A k \in 1..n : sems'[k] = sems[k]
      /\ sems'[n + 1] = t
      /\ sems' \in Seq(Semaphores(Clients))
  BY <1>0 DEF SemTypes
<1>2. \A k \in 1..(n + 1) : k = n + 1 \/ k \in 1..n
  BY <1>1
<1> HIDE DEF t
<1>3. SemTypes(sems')
  BY <1>0, <1>1, <1>2 DEF SemTypes
<1>4. /\ Cardinality(Idle) \in Nat /\ Cardinality(Promised) \in Nat
      /\ \A k \in 1..n : IsFiniteSet(1..sems[k].value) /\ IsFiniteSet(sems[k].woken)
  BY UnownedFinite
<1>5. /\ DOMAIN v = 1..n /\ DOMAIN w = 1..n /\ DOMAIN vv = 1..(n + 1) /\ DOMAIN ww = 1..(n + 1)
      /\ \A k \in 1..n : v[k] = 1..sems[k].value /\ w[k] = sems[k].woken
      /\ \A k \in 1..n : vv[k] = v[k] /\ ww[k] = w[k]
      /\ vv[n + 1] = 1..MaxConcurrent /\ ww[n + 1] = {}
  BY <1>0, <1>1
<1>6. Idle = Tagged(v) /\ Promised = Tagged(w) /\ Idle' = Tagged(vv) /\ Promised' = Tagged(ww)
  BY DEF Idle, Promised, Tagged
<1> HIDE DEF v, w, vv, ww, n
<1>7. /\ IsFiniteSet(1..MaxConcurrent) /\ Cardinality(1..MaxConcurrent) = MaxConcurrent
      /\ IsFiniteSet({}) /\ Cardinality({}) = 0
  BY <1>0, UpTo, FS_EmptySet
<1>8. \A k \in 1..(n + 1) : IsFiniteSet(vv[k]) /\ IsFiniteSet(ww[k])
  <2>1. \A k \in 1..n : IsFiniteSet(vv[k]) /\ IsFiniteSet(ww[k])
    BY <1>4, <1>5
  <2>2. IsFiniteSet(vv[n + 1]) /\ IsFiniteSet(ww[n + 1])
    BY <1>5, <1>7
  <2> QED BY <1>2, <2>1, <2>2
<1>9. Cardinality(Tagged(vv)) = Cardinality(Tagged(v)) + Cardinality(vv[n + 1])
  <2>1. n \in Nat /\ \A k \in 1..n : vv[k] = v[k]
    BY <1>1, <1>5
  <2> QED BY <1>5, <1>8, <2>1, TaggedExtend
<1>10. Cardinality(Tagged(ww)) = Cardinality(Tagged(w)) + Cardinality(ww[n + 1])
  <2>1. n \in Nat /\ \A k \in 1..n : ww[k] = w[k]
    BY <1>1, <1>5
  <2> QED BY <1>5, <1>8, <2>1, TaggedExtend
<1>11. Unowned' = Unowned + MaxConcurrent
  BY <1>0, <1>4, <1>5, <1>6, <1>7, <1>9, <1>10 DEF Unowned
<1> QED BY <1>0, <1>1, <1>3, <1>11 DEF n

(* Who owns a permit, and where nobody is before startup() made a semaphore.  *)
Owning == {"context", "swapClose", "swapCreate", "context2"} \cup Busy
Own(p) == IF p \in Owning THEN 1 ELSE 0
Inner == {"launch", "fill", "permit"} \cup Owning

(* A client is served by the semaphore it waits on, and by no other: the      *)
(* waiting lines and the tasks' positions tell the same story.                *)
SemInv ==
  /\ SemTypes(sems) /\ waitsOn \in [Clients -> Nat]
  /\ \A c \in Clients : \A i \in 1..Len(sems) :
       c \in Served(sems[i]) <=> (pc[c] = "permit" /\ waitsOn[c] = i)
  /\ \A c \in Clients : pc[c] = "permit" => waitsOn[c] \in 1..Len(sems)
  /\ sems = <<>> => browser = 0 /\ \A t \in Tasks : pc[t] \notin Inner
  /\ PermitsAccountedFor

LEMMA OwningPoints ==
  /\ Owning \subseteq Inner /\ Owning \subseteq PCs /\ Inner \subseteq PCs
  /\ "permit" \notin Owning /\ {"launch", "fill", "permit"} \subseteq Inner
  /\ {"context", "swapClose", "swapCreate", "context2", "using", "clean", "dropClose",
      "dropCreate"} = Owning
  /\ {"idle", "startLock", "launch", "fill", "permit"} \cap Owning = {}
  /\ {"idle", "startLock", "stopLock", "closeContexts", "closeBrowser", "stopDriver", "off",
      "boot", "up", "down", "sleep"} \cap Inner = {}
BY DEF Owning, Inner, Busy, Releasing, PCs

LEMMA AccountIs ==
  PermitsAccountedFor <=>
    /\ Unowned + Cardinality(Owners) <= MaxConcurrent * Len(sems)
    /\ cancels = 0 => Unowned + Cardinality(Owners) = MaxConcurrent * Len(sems)
BY DEF PermitsAccountedFor, Unowned

LEMMA OwnersCounted ==
  /\ Owners = {c \in Clients : pc[c] \in Owning}
  /\ IsFiniteSet(Owners) /\ Cardinality(Owners) \in Nat
<1>1. Owners = {c \in Clients : pc[c] \in Owning}
  BY DEF Owners, Lent, Owning, Busy
<1>2. Owners \in SUBSET Clients
  BY <1>1
<1> QED BY <1>1, <1>2, TaskAssumption, FS_Subset, FS_CardinalityType

LEMMA OwnersMove ==
  ASSUME Placed, NEW c \in Clients, NEW p \in PCs, pc' = [pc EXCEPT ![c] = p]
  PROVE  /\ Cardinality(Owners') \in Nat
         /\ Cardinality(Owners') + Own(pc[c]) = Cardinality(Owners) + Own(p)
<1>1. /\ Owners = {d \in Clients : pc[d] \in Owning}
      /\ IsFiniteSet(Owners) /\ Cardinality(Owners) \in Nat
  BY OwnersCounted
<1>2. Owners' = {d \in Clients : pc'[d] \in Owning}
  BY DEF Owners, Lent, Owning, Busy
<1>3. pc'[c] = p /\ \A d \in Clients : d # c => pc'[d] = pc[d]
  BY DEF Placed, Tasks
<1>4. CASE pc[c] \in Owning <=> p \in Owning
  <2>1. Owners' = Owners
    BY <1>1, <1>2, <1>3, <1>4
  <2> QED BY <1>1, <1>4, <2>1 DEF Own
<1>5. CASE pc[c] \notin Owning /\ p \in Owning
  <2>1. Owners' = Owners \cup {c} /\ c \notin Owners
    BY <1>1, <1>2, <1>3, <1>5
  <2>2. Cardinality(Owners \cup {c}) = Cardinality(Owners) + 1
    BY <1>1, <2>1, FS_AddElement
  <2> QED BY <1>1, <1>5, <2>1, <2>2 DEF Own
<1>6. CASE pc[c] \in Owning /\ p \notin Owning
  <2>1. Owners' = Owners \ {c} /\ c \in Owners
    BY <1>1, <1>2, <1>3, <1>6
  <2>2. Cardinality(Owners \ {c}) = Cardinality(Owners) - 1
    BY <1>1, <2>1, FS_RemoveElement
  <2>3. Cardinality(Owners) # 0
    BY <1>1, <2>1, FS_EmptySet
  <2> QED BY <1>1, <1>6, <2>1, <2>2, <2>3 DEF Own
<1> QED BY <1>4, <1>5, <1>6

(* Permits pass between a semaphore and an owner: what the other semaphores   *)
(* and owners hold stays within m, and stays m where nothing is lost.         *)
LEMMA Balance ==
  ASSUME NEW a \in Nat, NEW b \in Nat, NEW e \in Nat, NEW f \in Nat, NEW g \in Nat,
         NEW h \in Nat, NEW x \in Nat, NEW y \in Nat, NEW m \in Nat,
         f + y = e + x, b + h = a + g
  PROVE  /\ a + e <= m /\ g + x <= h + y => b + f <= m
         /\ a + e = m /\ g + x = h + y => b + f = m
<1>1. (b + f) + (h + y) = (a + e) + (g + x)
  OBVIOUS
<1> QED BY <1>1

(* c moves, and one semaphore with it: the permit it gains there it owns, the *)
(* one it gives up is there again.                                            *)
LEMMA DealKeeps ==
  ASSUME Placed, SemInv, NEW c \in Clients, NEW p \in PCs, NEW i \in 1..Len(sems),
         NEW t \in Semaphores(Clients), Sound(t), NEW w \in Nat,
         pc' = [pc EXCEPT ![c] = p], sems' = [sems EXCEPT ![i] = t],
         waitsOn' = [waitsOn EXCEPT ![c] = w],
         Permits(t) + Own(p) <= Permits(sems[i]) + Own(pc[c]),
         cancels' = 0 => cancels = 0 /\ Permits(t) + Own(p) = Permits(sems[i]) + Own(pc[c]),
         p = "permit" => w = i /\ Served(t) = Served(sems[i]) \cup {c},
         p # "permit" => Served(t) = Served(sems[i]) \ {c},
         pc[c] = "permit" => waitsOn[c] = i
  PROVE  SemInv'
<1>1. SemTypes(sems) /\ waitsOn \in [Clients -> Nat] /\ PermitsAccountedFor
  BY DEF SemInv
<1>2. /\ SemTypes(sems') /\ Len(sems') = Len(sems)
      /\ \A k \in 1..Len(sems) : sems'[k] = IF k = i THEN t ELSE sems[k]
      /\ Unowned' + Permits(sems[i]) = Unowned + Permits(t) /\ Unowned' \in Nat
  BY <1>1, OneChanges
<1>3. /\ c \in Tasks /\ pc'[c] = p /\ \A d \in Clients : d # c => pc'[d] = pc[d]
      /\ waitsOn'[c] = w /\ \A d \in Clients : d # c => waitsOn'[d] = waitsOn[d]
      /\ waitsOn' \in [Clients -> Nat]
  BY <1>1 DEF Placed, Tasks
<1>4. \A d \in Clients : \A k \in 1..Len(sems) :
        d \in Served(sems[k]) <=> (pc[d] = "permit" /\ waitsOn[d] = k)
  BY DEF SemInv
<1>5. \A d \in Clients : \A k \in 1..Len(sems) :
        d \in Served(sems'[k]) <=> (pc'[d] = "permit" /\ waitsOn'[d] = k)
  <2> TAKE d \in Clients
  <2> TAKE k \in 1..Len(sems)
  <2>1. CASE k = i
    <3>1. sems'[k] = t
      BY <1>2, <2>1
    <3>2. CASE d = c
      BY <1>3, <2>1, <3>1, <3>2
    <3>3. CASE d # c
      <4>1. d \in Served(t) <=> d \in Served(sems[i])
        BY <3>3
      <4> QED BY <1>3, <1>4, <2>1, <3>1, <3>3, <4>1
    <3> QED BY <3>2, <3>3
  <2>2. CASE k # i
    <3>1. sems'[k] = sems[k]
      BY <1>2, <2>2
    <3>2. CASE d = c
      BY <1>3, <1>4, <2>2, <3>1, <3>2
    <3>3. CASE d # c
      BY <1>3, <1>4, <3>1, <3>3
    <3> QED BY <3>2, <3>3
  <2> QED BY <2>1, <2>2
<1>6. \A d \in Clients : pc'[d] = "permit" => waitsOn'[d] \in 1..Len(sems')
  BY <1>2, <1>3 DEF SemInv
<1>7. sems' # <<>>
  BY <1>1, <1>2 DEF SemTypes
<1>8. PermitsAccountedFor'
  <2>1. /\ Unowned + Cardinality(Owners) <= MaxConcurrent * Len(sems)
        /\ cancels = 0 => Unowned + Cardinality(Owners) = MaxConcurrent * Len(sems)
    BY <1>1, AccountIs
  <2>2. /\ Cardinality(Owners') \in Nat /\ Cardinality(Owners) \in Nat
        /\ Cardinality(Owners') + Own(pc[c]) = Cardinality(Owners) + Own(p)
    BY OwnersMove, OwnersCounted
  <2>3. Unowned \in Nat /\ Unowned' \in Nat
    <3>1. Cardinality(Idle) \in Nat /\ Cardinality(Promised) \in Nat
      BY <1>1, UnownedFinite
    <3> QED BY <1>2, <3>1 DEF Unowned
  <2> DEFINE a == Unowned
             b == Unowned'
             e == Cardinality(Owners)
             f == Cardinality(Owners')
             g == Permits(t)
             h == Permits(sems[i])
             m == MaxConcurrent * Len(sems)
  <2>4. Permits(t) \in Nat /\ Permits(sems[i]) \in Nat
    <3>1. sems[i] \in Semaphores(Clients) /\ Sound(sems[i])
      BY <1>1 DEF SemTypes
    <3> QED BY <3>1, FS_CardinalityType DEF Semaphores, Sound, Permits
  <2>5. m \in Nat
    <3>1. MaxConcurrent \in Nat /\ Len(sems) \in Nat
      BY <1>1, SizeAssumption DEF SemTypes
    <3> QED BY <3>1
  <2>6. MaxConcurrent * Len(sems') = m
    BY <1>2
  <2>7. /\ a \in Nat /\ b \in Nat /\ e \in Nat /\ f \in Nat /\ g \in Nat /\ h \in Nat
        /\ Own(p) \in Nat /\ Own(pc[c]) \in Nat
        /\ a + e <= m /\ (cancels = 0 => a + e = m)
        /\ f + Own(pc[c]) = e + Own(p) /\ b + h = a + g
        /\ g + Own(p) <= h + Own(pc[c])
        /\ cancels' = 0 => cancels = 0 /\ g + Own(p) = h + Own(pc[c])
    BY <1>2, <2>1, <2>2, <2>3, <2>4 DEF Own
  <2> HIDE DEF a, b, e, f, g, h, m
  <2>8. b + f <= m /\ (cancels' = 0 => b + f = m)
    <3>1. b + f <= m
      BY <2>5, <2>7, Balance
    <3>2. ASSUME cancels' = 0 PROVE b + f = m
      <4>1. a + e = m /\ g + Own(p) = h + Own(pc[c])
        BY <2>7, <3>2
      <4> QED BY <2>5, <2>7, <4>1, Balance
    <3> QED BY <3>1, <3>2
  <2>9. /\ Unowned' + Cardinality(Owners') <= MaxConcurrent * Len(sems')
        /\ cancels' = 0 => Unowned' + Cardinality(Owners') = MaxConcurrent * Len(sems')
    BY <2>6, <2>8 DEF b, f
  <2> QED BY <2>9 DEF PermitsAccountedFor, Unowned
<1> QED BY <1>2, <1>3, <1>5, <1>6, <1>7, <1>8 DEF SemInv

(* A task moves, and no semaphore with it.                                    *)
LEMMA StayKeeps ==
  ASSUME Placed, SemInv, NEW u \in Tasks, NEW p \in PCs, pc' = [pc EXCEPT ![u] = p],
         UNCHANGED permits, pc[u] # "permit", p # "permit",
         u \in Clients => Own(p) <= Own(pc[u]) /\ (cancels' = 0 => Own(p) = Own(pc[u])),
         cancels' = 0 => cancels = 0,
         sems = <<>> => browser' = 0 /\ p \notin Inner
  PROVE  SemInv'
<1>1. /\ sems' = sems /\ waitsOn' = waitsOn
      /\ pc'[u] = p /\ \A d \in Tasks : d # u => pc'[d] = pc[d]
      /\ \A d \in Clients : d \in Tasks
  BY DEF Placed, Tasks, permits
<1>2. SemTypes(sems') /\ waitsOn' \in [Clients -> Nat]
  BY <1>1 DEF SemInv
<1>3. /\ Idle' = Idle /\ Promised' = Promised
      /\ \A k \in 1..Len(sems) : Served(sems'[k]) = Served(sems[k])
  BY <1>1 DEF Idle, Promised
<1>4. \A d \in Clients : pc'[d] = "permit" <=> pc[d] = "permit"
  BY <1>1
<1>5. \A d \in Clients : \A k \in 1..Len(sems') :
        d \in Served(sems'[k]) <=> (pc'[d] = "permit" /\ waitsOn'[d] = k)
  BY <1>1, <1>3, <1>4 DEF SemInv
<1>6. \A d \in Clients : pc'[d] = "permit" => waitsOn'[d] \in 1..Len(sems')
  BY <1>1, <1>4 DEF SemInv
<1>7. sems' = <<>> => browser' = 0 /\ \A d \in Tasks : pc'[d] \notin Inner
  BY <1>1 DEF SemInv
<1>8. /\ Cardinality(Owners) \in Nat /\ Cardinality(Owners') \in Nat
      /\ Cardinality(Owners') <= Cardinality(Owners)
      /\ cancels' = 0 => Cardinality(Owners') = Cardinality(Owners)
  <2>1. CASE u \in Clients
    <3>1. /\ Cardinality(Owners') \in Nat /\ Cardinality(Owners) \in Nat
          /\ Cardinality(Owners') + Own(pc[u]) = Cardinality(Owners) + Own(p)
      BY <2>1, OwnersMove, OwnersCounted
    <3> QED BY <2>1, <3>1 DEF Own
  <2>2. CASE u \notin Clients
    <3>1. \A d \in Clients : pc'[d] = pc[d]
      BY <1>1, <2>2
    <3>2. Owners' = Owners
      BY <3>1 DEF Owners, Lent
    <3> QED BY <3>2, OwnersCounted
  <2> QED BY <2>1, <2>2
<1>9. PermitsAccountedFor'
  <2>1. SemTypes(sems) /\ PermitsAccountedFor
    BY DEF SemInv
  <2>2. Cardinality(Idle) \in Nat /\ Cardinality(Promised) \in Nat
    BY <2>1, UnownedFinite
  <2>3. MaxConcurrent \in Nat /\ Len(sems) \in Nat
    BY <2>1, SizeAssumption DEF SemTypes
  <2> DEFINE m == MaxConcurrent * Len(sems)
             a == Cardinality(Idle) + Cardinality(Promised)
             e == Cardinality(Owners)
             f == Cardinality(Owners')
  <2>4. /\ m \in Nat /\ a \in Nat /\ e \in Nat /\ f \in Nat /\ f <= e
        /\ a + e <= m /\ (cancels = 0 => a + e = m)
        /\ cancels' = 0 => cancels = 0 /\ f = e
    BY <1>8, <2>1, <2>2, <2>3 DEF PermitsAccountedFor
  <2>5. /\ Cardinality(Idle') + Cardinality(Promised') = a /\ MaxConcurrent * Len(sems') = m
    BY <1>1, <1>3
  <2> HIDE DEF m, a, e, f
  <2>6. a + f <= m /\ (cancels' = 0 => a + f = m)
    BY <2>4
  <2> QED BY <2>5, <2>6 DEF PermitsAccountedFor, f
<1> QED BY <1>2, <1>5, <1>6, <1>7, <1>9 DEF SemInv

(* Nothing moves.                                                             *)
LEMMA SameKeeps ==
  ASSUME SemInv, UNCHANGED <<permits, pc, cancels>>, sems = <<>> => browser' = 0
  PROVE  SemInv'
<1>1. sems' = sems /\ waitsOn' = waitsOn /\ pc' = pc /\ cancels' = cancels
  BY DEF permits
<1>2. PermitsAccountedFor'
  BY <1>1 DEF SemInv, PermitsAccountedFor, Idle, Promised, Owners, Lent
<1> QED BY <1>1, <1>2 DEF SemInv

(* startup() makes a new semaphore before it launches.                        *)
LEMMA BeginKeeps ==
  ASSUME Placed, SemInv, NEW u \in Tasks, pc' = [pc EXCEPT ![u] = "launch"],
         sems' = Append(sems, NewSemaphore(MaxConcurrent)),
         UNCHANGED <<waitsOn, cancels>>, pc[u] \notin Owning \cup {"permit"}
  PROVE  SemInv'
<1>1. /\ pc'[u] = "launch" /\ \A d \in Tasks : d # u => pc'[d] = pc[d]
      /\ \A d \in Clients : d \in Tasks
      /\ waitsOn' = waitsOn /\ waitsOn \in [Clients -> Nat]
  BY DEF Placed, Tasks, SemInv
<1>2. /\ SemTypes(sems') /\ Len(sems') = Len(sems) + 1
      /\ \A k \in 1..Len(sems) : sems'[k] = sems[k]
      /\ Served(sems'[Len(sems) + 1]) = {}
      /\ Unowned' = Unowned + MaxConcurrent /\ Len(sems) \in Nat
  <2>1. SemTypes(sems)
    BY DEF SemInv
  <2> QED BY <2>1, OneMore DEF SemTypes
<1>3. \A d \in Clients : pc'[d] = "permit" <=> pc[d] = "permit"
  BY <1>1
<1>4. \A d \in Clients : pc[d] = "permit" => waitsOn[d] \in 1..Len(sems)
  BY DEF SemInv
<1>5. \A d \in Clients : \A k \in 1..Len(sems') :
        d \in Served(sems'[k]) <=> (pc'[d] = "permit" /\ waitsOn'[d] = k)
  <2> TAKE d \in Clients
  <2> TAKE k \in 1..Len(sems')
  <2>1. CASE k \in 1..Len(sems)
    BY <1>1, <1>2, <1>3, <2>1 DEF SemInv
  <2>2. CASE k \notin 1..Len(sems)
    <3>1. k = Len(sems) + 1
      BY <1>2, <2>2
    <3>2. d \notin Served(sems'[k])
      BY <1>2, <3>1
    <3>3. pc[d] = "permit" => waitsOn[d] # k
      BY <1>4, <2>2
    <3> QED BY <1>1, <1>3, <3>2, <3>3
  <2> QED BY <2>1, <2>2
<1>6. \A d \in Clients : pc'[d] = "permit" => waitsOn'[d] \in 1..Len(sems')
  BY <1>1, <1>2, <1>3, <1>4
<1>7. sems' # <<>>
  BY <1>2 DEF SemTypes
<1>8. Owners' = Owners
  <2>1. \A d \in Clients : pc'[d] \in Owning <=> pc[d] \in Owning
    BY <1>1, OwningPoints
  <2>2. Owners' = {d \in Clients : pc'[d] \in Owning}
    BY DEF Owners, Lent, Owning, Busy
  <2> QED BY <2>1, <2>2, OwnersCounted
<1>9. PermitsAccountedFor'
  <2>1. SemTypes(sems) /\ PermitsAccountedFor
    BY DEF SemInv
  <2>2. Unowned \in Nat
    <3>1. Cardinality(Idle) \in Nat /\ Cardinality(Promised) \in Nat
      BY <2>1, UnownedFinite
    <3> QED BY <3>1 DEF Unowned
  <2>3. MaxConcurrent \in Nat
    BY SizeAssumption
  <2> DEFINE n == Len(sems)
             a == Unowned
             e == Cardinality(Owners)
  <2>4. /\ n \in Nat /\ a \in Nat /\ e \in Nat
        /\ a + e <= MaxConcurrent * n /\ (cancels = 0 => a + e = MaxConcurrent * n)
    BY <1>2, <2>1, <2>2, OwnersCounted, AccountIs
  <2>5. /\ Unowned' + Cardinality(Owners') = (a + MaxConcurrent) + e
        /\ Len(sems') = n + 1
    BY <1>2, <1>8
  <2> HIDE DEF n, a, e
  <2>6. MaxConcurrent * (n + 1) = MaxConcurrent * n + MaxConcurrent /\ MaxConcurrent * n \in Nat
    BY <2>3, <2>4
  <2>7. /\ (a + MaxConcurrent) + e <= MaxConcurrent * (n + 1)
        /\ cancels = 0 => (a + MaxConcurrent) + e = MaxConcurrent * (n + 1)
    BY <2>3, <2>4, <2>6
  <2>8. /\ Unowned' + Cardinality(Owners') <= MaxConcurrent * Len(sems')
        /\ cancels' = 0 => Unowned' + Cardinality(Owners') = MaxConcurrent * Len(sems')
    BY <2>5, <2>7
  <2> QED BY <2>8 DEF PermitsAccountedFor, Unowned
<1> QED BY <1>1, <1>2, <1>5, <1>6, <1>7, <1>9 DEF SemInv

-----------------------------------------------------------------------------
(* What the parts of acquire() and release() do with permits.                 *)
LEMMA Inside ==
  ASSUME SemInv, NEW u \in Tasks, browser # 0 \/ pc[u] \in Inner
  PROVE  Current \in 1..Len(sems)
BY DEF SemInv, SemTypes, Current

LEMMA Serving ==
  ASSUME SemInv, NEW c \in Clients, NEW i \in 1..Len(sems)
  PROVE  /\ sems[i] \in Semaphores(Clients) /\ Sound(sems[i])
         /\ waitsOn \in [Clients -> Nat] /\ Permits(sems[i]) \in Nat
         /\ c \in Queued(sems[i]) \cup sems[i].woken
              <=> (pc[c] = "permit" /\ waitsOn[c] = i)
<1>1. sems[i] \in Semaphores(Clients) /\ Sound(sems[i]) /\ waitsOn \in [Clients -> Nat]
  BY DEF SemInv, SemTypes
<1>2. Permits(sems[i]) \in Nat
  BY <1>1, FS_CardinalityType DEF Semaphores, Sound, Permits
<1> QED BY <1>1, <1>2 DEF SemInv, Served

LEMMA FetchOwns ==
  ASSUME NEW c \in Clients, NEW q, Fetch(c, q) \/ SecondGet(c, q)
  PROVE  \E p \in Owning : pc' = [pc EXCEPT ![c] = p]
BY OwningPoints DEF Fetch, SecondGet, Lend, Go

(* The semaphore's fast path, or a place in its line.                         *)
LEMMA PermitDeals ==
  ASSUME Placed, SemInv, NEW c \in Clients, pc[c] \notin Owning \cup {"permit"},
         Current \in 1..Len(sems), NEW q, Permit(c, q), UNCHANGED cancels
  PROVE  SemInv'
<1> DEFINE s == sems[Current]
<1>1. /\ s \in Semaphores(Clients) /\ Sound(s) /\ waitsOn \in [Clients -> Nat]
      /\ Permits(s) \in Nat /\ c \notin Queued(s) \cup s.woken
  BY Serving
<1>2. Own(pc[c]) = 0
  BY DEF Own
<1>3. CASE CanTake(s)
  <2>1. /\ sems' = [sems EXCEPT ![Current] = Take(s)] /\ waitsOn' = waitsOn
        /\ Fetch(c, q)
    BY <1>3 DEF Permit, OnSem
  <2>2. PICK p \in Owning : pc' = [pc EXCEPT ![c] = p]
    BY <2>1, FetchOwns
  <2>3. p \in PCs /\ p # "permit" /\ Own(p) = 1
    BY OwningPoints DEF Own
  <2>4. /\ Take(s) \in Semaphores(Clients) /\ Sound(Take(s))
        /\ Permits(Take(s)) = Permits(s) - 1
        /\ Served(Take(s)) = Served(s)
    BY <1>1, <1>3, TakeTakes DEF Served
  <2>5. waitsOn' = [waitsOn EXCEPT ![c] = waitsOn[c]] /\ waitsOn[c] \in Nat
    BY <1>1, <2>1
  <2>6. Served(Take(s)) = Served(s) \ {c}
    BY <1>1, <2>4 DEF Served
  <2> HIDE DEF s
  <2>7. Permits(Take(s)) + Own(p) = Permits(s) + Own(pc[c])
    BY <1>1, <1>2, <2>3, <2>4
  <2>8. Permits(Take(s)) + Own(p) <= Permits(s) + Own(pc[c])
    BY <1>1, <1>2, <2>7
  <2> QED BY <2>1, <2>2, <2>3, <2>4, <2>5, <2>6, <2>7, <2>8, DealKeeps DEF s
<1>4. CASE ~CanTake(s)
  <2>1. /\ sems' = [sems EXCEPT ![Current] = Enqueue(s, c)]
        /\ waitsOn' = [waitsOn EXCEPT ![c] = Current]
        /\ pc' = [pc EXCEPT ![c] = "permit"]
    BY <1>4 DEF Permit, OnSem, Go
  <2>2. "permit" \in PCs /\ Own("permit") = 0
    BY OwningPoints DEF Own
  <2>3. /\ Enqueue(s, c) \in Semaphores(Clients) /\ Sound(Enqueue(s, c))
        /\ Permits(Enqueue(s, c)) = Permits(s)
        /\ Served(Enqueue(s, c)) = Served(s) \cup {c}
    BY <1>1, EnqueueKeeps DEF Served
  <2>4. Current \in Nat
    OBVIOUS
  <2> HIDE DEF s
  <2>5. Permits(Enqueue(s, c)) + Own("permit") = Permits(s) + Own(pc[c])
    BY <1>2, <2>2, <2>3
  <2>6. Permits(Enqueue(s, c)) + Own("permit") <= Permits(s) + Own(pc[c])
    BY <1>1, <1>2, <2>5
  <2> QED BY <2>1, <2>2, <2>3, <2>4, <2>5, <2>6, DealKeeps DEF s
<1> QED BY <1>3, <1>4

(* A woken client has the permit it was handed.                               *)
LEMMA GrantDeals ==
  ASSUME Placed, SemInv, NEW c \in Clients, PermitGranted(c)
  PROVE  SemInv'
<1> DEFINE i == waitsOn[c]
           s == sems[i]
           t == Resume(s, c)
<1>1. pc[c] = "permit" /\ c \in s.woken /\ UNCHANGED cancels
  BY DEF PermitGranted, At, bounds
<1>2. i \in 1..Len(sems)
  BY <1>1 DEF SemInv
<1>3. s \in Semaphores(Clients) /\ Sound(s) /\ Permits(s) \in Nat
  BY <1>2, Serving
<1>4. /\ sems' = [sems EXCEPT ![i] = t] /\ waitsOn' = [waitsOn EXCEPT ![c] = 0]
      /\ Fetch(c, queue)
  BY DEF PermitGranted, OnSem
<1>5. PICK p \in Owning : pc' = [pc EXCEPT ![c] = p]
  BY <1>4, FetchOwns
<1>6. p \in PCs /\ p # "permit" /\ Own(p) = 1 /\ Own(pc[c]) = 0 /\ 0 \in Nat
  BY <1>1, OwningPoints DEF Own
<1>7. /\ t \in Semaphores(Clients) /\ Sound(t) /\ Permits(t) = Permits(s) - 1
      /\ Served(t) = Served(s) \ {c}
  BY <1>1, <1>3, ResumeTakes DEF Served
<1> HIDE DEF t, s, i
<1>8. Permits(t) + Own(p) = Permits(s) + Own(pc[c])
  BY <1>3, <1>6, <1>7
<1>9. Permits(t) + Own(p) <= Permits(s) + Own(pc[c])
  BY <1>3, <1>6, <1>8
<1> QED BY <1>1, <1>2, <1>4, <1>5, <1>6, <1>7, <1>8, <1>9, DealKeeps DEF s, i

(* A client that stops waiting leaves no permit behind.                       *)
LEMMA LeaveDeals ==
  ASSUME Placed, SemInv, NEW c \in Clients, pc[c] = "permit", LeaveSem(c),
         pc' = [pc EXCEPT ![c] = "idle"], cancels' = 0 => cancels = 0
  PROVE  SemInv'
<1> DEFINE i == waitsOn[c]
           s == sems[i]
           r == IF IsWaiting(s, c) THEN Withdraw(s, c) ELSE s
           t == GiveBack(r, c)
<1>1. i \in 1..Len(sems)
  BY DEF SemInv
<1>2. s \in Semaphores(Clients) /\ Sound(s) /\ Permits(s) \in Nat
  BY <1>1, Serving
<1>3. sems' = [sems EXCEPT ![i] = t] /\ waitsOn' = [waitsOn EXCEPT ![c] = 0]
  BY DEF LeaveSem, OnSem
<1>4. /\ "idle" \in PCs /\ "idle" # "permit" /\ Own("idle") = 0 /\ Own(pc[c]) = 0 /\ 0 \in Nat
  BY OwningPoints, ClientPoints DEF Own
<1>5. /\ r \in Semaphores(Clients) /\ Sound(r) /\ Permits(r) = Permits(s)
      /\ Queued(r) = Queued(s) \ {c} /\ r.woken = s.woken
  <2>1. CASE IsWaiting(s, c)
    BY <1>2, <2>1, WithdrawKeeps
  <2>2. CASE ~IsWaiting(s, c)
    <3>1. c \notin Queued(s)
      BY <2>2 DEF IsWaiting, Queued
    <3> QED BY <1>2, <2>2, <3>1
  <2> QED BY <2>1, <2>2
<1> HIDE DEF r
<1>6. /\ t \in Semaphores(Clients) /\ Sound(t) /\ Permits(t) = Permits(r)
      /\ Queued(t) \cup t.woken = (Queued(r) \cup r.woken) \ {c}
  BY <1>5, GiveBackKeeps
<1>7. Served(t) = Served(s) \ {c}
  BY <1>5, <1>6 DEF Served
<1> HIDE DEF t, s, i
<1>8. Permits(t) + Own("idle") = Permits(s) + Own(pc[c])
  BY <1>4, <1>5, <1>6
<1>9. Permits(t) + Own("idle") <= Permits(s) + Own(pc[c])
  BY <1>2, <1>4, <1>8
<1> QED BY <1>1, <1>3, <1>4, <1>6, <1>7, <1>8, <1>9, DealKeeps DEF s, i

(* release() of the semaphore of today, by a client that owns a permit of     *)
(* today's or of an earlier one.                                              *)
LEMMA ReleaseDeals ==
  ASSUME Placed, SemInv, NEW c \in Clients, pc[c] \in Owning,
         OnSem(Current, Release(sems[Current])), UNCHANGED waitsOn,
         pc' = [pc EXCEPT ![c] = "idle"], cancels' = 0 => cancels = 0
  PROVE  SemInv'
<1> DEFINE i == Current
           s == sems[i]
           t == Release(s)
<1>1. i \in 1..Len(sems) /\ pc[c] # "permit"
  BY Inside, OwningPoints DEF Tasks
<1>2. /\ s \in Semaphores(Clients) /\ Sound(s) /\ Permits(s) \in Nat
      /\ waitsOn \in [Clients -> Nat] /\ c \notin Served(s)
  BY <1>1, Serving DEF Served
<1>3. "idle" \in PCs /\ "idle" # "permit" /\ Own("idle") = 0 /\ Own(pc[c]) = 1
  BY OwningPoints, ClientPoints DEF Own
<1>4. /\ t \in Semaphores(Clients) /\ Sound(t) /\ Permits(t) = Permits(s) + 1
      /\ Served(t) = Served(s)
  BY <1>2, ReleaseAdds DEF Serves, Served
<1>5. Served(t) = Served(s) \ {c}
  BY <1>2, <1>4
<1>6. waitsOn' = [waitsOn EXCEPT ![c] = waitsOn[c]] /\ waitsOn[c] \in Nat
  BY <1>2
<1>7. sems' = [sems EXCEPT ![i] = t]
  BY DEF OnSem
<1> HIDE DEF t, s, i
<1>8. Permits(t) + Own("idle") = Permits(s) + Own(pc[c])
  BY <1>2, <1>3, <1>4
<1>9. Permits(t) + Own("idle") <= Permits(s) + Own(pc[c])
  BY <1>2, <1>3, <1>8
<1>10. /\ cancels' = 0 => cancels = 0 /\ Permits(t) + Own("idle") = Permits(sems[i]) + Own(pc[c])
       /\ Permits(t) + Own("idle") <= Permits(sems[i]) + Own(pc[c])
       /\ Served(t) = Served(sems[i]) \ {c}
       /\ t \in Semaphores(Clients) /\ Sound(t)
  BY <1>4, <1>5, <1>8, <1>9 DEF s
<1> QED BY <1>1, <1>3, <1>6, <1>7, <1>10, DealKeeps

LEMMA OutsideKeeps ==
  ASSUME Placed, SemInv, NEW u \in Tasks, NEW p \in PCs, pc' = [pc EXCEPT ![u] = p],
         UNCHANGED <<permits, cancels>>, pc[u] \notin Owning \cup {"permit"},
         p \notin Owning \cup {"permit"},
         sems = <<>> => browser' = 0 /\ p \notin Inner
  PROVE  SemInv'
<1>1. Own(p) = 0 /\ Own(pc[u]) = 0
  BY DEF Own
<1>2. UNCHANGED permits /\ cancels' = cancels /\ pc[u] # "permit" /\ p # "permit"
  OBVIOUS
<1>3. Own(p) <= Own(pc[u]) /\ (cancels' = 0 => Own(p) = Own(pc[u]))
  BY <1>1
<1> QED BY <1>2, <1>3, StayKeeps

LEMMA StartedDeals ==
  ASSUME Placed, SemInv, NEW u \in Tasks, pc[u] \notin Owning \cup {"permit"},
         Current \in 1..Len(sems), NEW q, Started(u, q), UNCHANGED cancels
  PROVE  SemInv'
<1>1. CASE u \in Clients
  <2>1. Permit(u, q)
    BY <1>1, TaskAssumption DEF Started
  <2> QED BY <1>1, <2>1, PermitDeals
<1>2. CASE u \notin Clients
  <2>1. PICK p \in {"off", "up"} : pc' = [pc EXCEPT ![u] = p]
    BY <1>2 DEF Started, Go
  <2>2. UNCHANGED permits /\ sems # <<>>
    BY <1>2 DEF Started, Current
  <2>3. p \in PCs /\ p \notin Owning \cup {"permit"}
    BY OwningPoints DEF PCs
  <2> QED BY <2>1, <2>2, <2>3, OutsideKeeps
<1> QED BY <1>1, <1>2

LEMMA AbortedDeals ==
  ASSUME Placed, SemInv, NEW u \in Tasks, pc[u] \in {"launch", "fill"}, Aborted(u),
         UNCHANGED <<permits, cancels>>
  PROVE  SemInv'
<1>1. PICK p \in {"idle", "off", "up"} : pc' = [pc EXCEPT ![u] = p]
  <2>1. CASE u \in Clients
    <3>1. u \notin Restarters
      BY <2>1, TaskAssumption
    <3>2. pc' = [pc EXCEPT ![u] = "idle"]
      BY <2>1, <3>1 DEF Aborted, Go
    <3> QED BY <3>2
  <2>2. CASE u \in Restarters
    <3>1. u \notin Clients
      BY <2>2, TaskAssumption
    <3>2. pc' = [pc EXCEPT ![u] = "off"]
      BY <2>2, <3>1 DEF Aborted, Go
    <3> QED BY <3>2
  <2>3. CASE u = App
    BY <2>3, TaskAssumption DEF Aborted, Go
  <2> QED BY <2>1, <2>2, <2>3 DEF Tasks
<1>2. p \in PCs /\ p \notin Owning \cup {"permit"}
  BY OwningPoints DEF PCs
<1>3. pc[u] \notin Owning \cup {"permit"} /\ sems # <<>>
  BY OwningPoints DEF SemInv
<1> QED BY <1>1, <1>2, <1>3, OutsideKeeps

LEMMA StartupDeals ==
  ASSUME Placed, SemInv, NEW u \in Tasks, pc[u] \notin Owning \cup {"permit"}, NEW locked,
         Startup(u, locked), UNCHANGED cancels
  PROVE  SemInv'
<1>1. CASE browser # 0
  BY <1>1, Inside, StartedDeals DEF Startup
<1>2. CASE browser = 0
  BY <1>2, BeginKeeps DEF Startup, Go
<1> QED BY <1>1, <1>2

LEMMA EnterStartupDeals ==
  ASSUME Placed, SemInv, NEW u \in Tasks, pc[u] \notin Owning \cup {"permit"},
         EnterStartup(u), UNCHANGED <<browser, cancels>>
  PROVE  SemInv'
<1>1. CASE line = <<>>
  BY <1>1, StartupDeals DEF EnterStartup
<1>2. CASE line # <<>>
  <2>1. pc' = [pc EXCEPT ![u] = "startLock"] /\ UNCHANGED permits
    BY <1>2 DEF EnterStartup, Go
  <2>2. "startLock" \in PCs /\ "startLock" \notin Owning \cup {"permit"} /\ "startLock" \notin Inner
    BY OwningPoints DEF PCs
  <2>3. sems = <<>> => browser' = 0
    BY DEF SemInv
  <2> QED BY <2>1, <2>2, <2>3, OutsideKeeps
<1> QED BY <1>1, <1>2

(* The steps of shutdown(), which no permit concerns.                         *)
LEMMA StoppingKeeps ==
  ASSUME Placed, SemInv, NEW u \in Tasks, pc[u] \notin Inner,
         NEW p \in {"stopLock", "closeContexts", "closeBrowser", "stopDriver", "down", "sleep"},
         pc' = [pc EXCEPT ![u] = p], UNCHANGED <<permits, cancels>>,
         browser' = browser \/ browser' = 0
  PROVE  SemInv'
<1>1. p \in PCs /\ p \notin Inner /\ p \notin Owning \cup {"permit"}
      /\ pc[u] \notin Owning \cup {"permit"}
  BY OwningPoints DEF PCs
<1>2. sems = <<>> => browser' = 0
  BY DEF SemInv
<1> QED BY <1>1, <1>2, OutsideKeeps

LEMMA EnterShutdownKeeps ==
  ASSUME Placed, SemInv, NEW u \in Tasks, pc[u] \notin Inner, EnterShutdown(u),
         UNCHANGED <<permits, browser, cancels>>
  PROVE  SemInv'
<1>1. \E p \in {"stopLock", "closeContexts", "closeBrowser", "stopDriver", "down", "sleep"} :
        pc' = [pc EXCEPT ![u] = p]
  BY DEF EnterShutdown, Shutdown, Stopped, Go
<1> QED BY <1>1, StoppingKeeps

LEMMA LockStepDeals ==
  ASSUME LockInv, SemInv, NEW u \in Tasks, LockStep(u)
  PROVE  SemInv'
<1> USE DEF At
<1>1. Placed
  BY DEF LockInv
<1>2. CASE StartLockGranted(u)
  <2>1. pc[u] \notin Owning \cup {"permit"} /\ Startup(u, line) /\ UNCHANGED cancels
    BY <1>2, OwningPoints DEF StartLockGranted, bounds
  <2> QED BY <1>1, <2>1, StartupDeals
<1>3. CASE Launched(u)
  <2>1. /\ pc[u] = "launch" /\ pc' = [pc EXCEPT ![u] = "fill"] /\ UNCHANGED <<permits, cancels>>
    BY <1>3 DEF Launched, Go, bounds
  <2>2. sems # <<>> /\ pc[u] \notin Owning \cup {"permit"}
        /\ "fill" \in PCs /\ "fill" \notin Owning \cup {"permit"}
    BY <2>1, OwningPoints DEF SemInv
  <2> QED BY <1>1, <2>1, <2>2, OutsideKeeps
<1>4. CASE LaunchFails(u)
  BY <1>1, <1>4, AbortedDeals DEF LaunchFails, Fault
<1>5. CASE FillNext(u)
  <2>1. pc[u] = "fill" /\ UNCHANGED cancels /\ browser' = browser
    BY <1>5 DEF FillNext, bounds, chromium
  <2>2. pc[u] \in Inner /\ pc[u] \notin Owning \cup {"permit"}
    BY <2>1, OwningPoints
  <2>3. CASE filled' = PoolSize
    <3>1. Current \in 1..Len(sems)
      BY <2>2, Inside
    <3>2. \E q : Started(u, q)
      BY <1>5, <2>3 DEF FillNext
    <3> QED BY <1>1, <2>1, <2>2, <3>1, <3>2, StartedDeals
  <2>4. CASE filled' # PoolSize
    <3>1. UNCHANGED <<permits, pc>>
      BY <1>5, <2>4 DEF FillNext
    <3>2. sems # <<>>
      BY <2>2 DEF SemInv
    <3> QED BY <2>1, <3>1, <3>2, SameKeeps
  <2> QED BY <2>3, <2>4
<1>6. CASE FillFails(u)
  BY <1>1, <1>6, AbortedDeals DEF FillFails, Raises, Fault, bounds
<1>7. CASE StopLockGranted(u)
  <2>1. \E p \in {"stopLock", "closeContexts", "closeBrowser", "stopDriver", "down", "sleep"} :
          pc' = [pc EXCEPT ![u] = p]
    BY <1>7 DEF StopLockGranted, Shutdown, Stopped, Go
  <2>2. pc[u] \notin Inner /\ UNCHANGED <<permits, cancels>> /\ browser' = browser
    BY <1>7, OwningPoints DEF StopLockGranted, bounds, chromium
  <2> QED BY <1>1, <2>1, <2>2, StoppingKeeps
<1>8. CASE ContextsClosed(u)
  <2>1. pc[u] \notin Inner /\ UNCHANGED <<permits, cancels>> /\ browser' = browser
    BY <1>8, OwningPoints DEF ContextsClosed, bounds, chromium
  <2> QED BY <1>1, <1>8, <2>1, StoppingKeeps DEF ContextsClosed, Go
<1>9. CASE BrowserClosed(u)
  <2>1. pc[u] \notin Inner /\ UNCHANGED <<permits, cancels>> /\ browser' = browser
    BY <1>9, OwningPoints DEF BrowserClosed, bounds
  <2> QED BY <1>1, <1>9, <2>1, StoppingKeeps DEF BrowserClosed, Go
<1>10. CASE DriverStopped(u)
  <2>1. \E p \in {"stopLock", "closeContexts", "closeBrowser", "stopDriver", "down", "sleep"} :
          pc' = [pc EXCEPT ![u] = p]
    BY <1>10 DEF DriverStopped, Stopped, Go
  <2>2. pc[u] \notin Inner /\ UNCHANGED <<permits, cancels>> /\ browser' = 0
    BY <1>10, OwningPoints DEF DriverStopped, bounds
  <2> QED BY <1>1, <2>1, <2>2, StoppingKeeps
<1> QED BY <1>2, <1>3, <1>4, <1>5, <1>6, <1>7, <1>8, <1>9, <1>10 DEF LockStep

LEMMA RestartStepDeals ==
  ASSUME LockInv, SemInv, NEW r \in Restarters, RestartStep(r)
  PROVE  SemInv'
<1> USE DEF At
<1>1. Placed /\ r \in Tasks
  BY DEF LockInv, Tasks
<1>2. CASE RestartRuns(r)
  <2>1. pc[r] \notin Inner /\ UNCHANGED <<permits, cancels>> /\ browser' = browser
    BY <1>2, OwningPoints DEF RestartRuns, bounds, chromium
  <2>2. CASE attempts >= MaxAttempts
    <3>1. UNCHANGED pc
      BY <1>2, <2>2 DEF RestartRuns
    <3>2. sems = <<>> => browser' = 0
      BY <2>1 DEF SemInv
    <3> QED BY <2>1, <3>1, <3>2, SameKeeps
  <2>3. CASE ~(attempts >= MaxAttempts)
    BY <1>1, <1>2, <2>1, <2>3, EnterShutdownKeeps DEF RestartRuns
  <2> QED BY <2>2, <2>3
<1>3. CASE Slept(r)
  <2>1. pc[r] \notin Owning \cup {"permit"} /\ UNCHANGED <<browser, cancels>> /\ EnterStartup(r)
    BY <1>3, OwningPoints DEF Slept, bounds, chromium
  <2> QED BY <1>1, <2>1, EnterStartupDeals
<1> QED BY <1>2, <1>3 DEF RestartStep

(* A client that owns a permit goes on owning it.                             *)
LEMMA OwnerKeeps ==
  ASSUME Placed, SemInv, NEW c \in Clients, pc[c] \in Owning,
         \E p \in Owning : pc' = [pc EXCEPT ![c] = p], UNCHANGED <<permits, cancels>>
  PROVE  SemInv'
<1>1. PICK p \in Owning : pc' = [pc EXCEPT ![c] = p]
  OBVIOUS
<1>2. p \in PCs /\ p # "permit" /\ pc[c] # "permit" /\ c \in Tasks /\ pc[c] \in Inner
  BY OwningPoints DEF Tasks
<1>3. Own(p) <= Own(pc[c]) /\ (cancels' = 0 => Own(p) = Own(pc[c]))
  BY DEF Own
<1>4. UNCHANGED permits /\ cancels' = cancels /\ sems # <<>>
  BY <1>2 DEF SemInv
<1> QED BY <1>1, <1>2, <1>3, <1>4, StayKeeps

LEMMA ClientStepDeals ==
  ASSUME LockInv, SemInv, NEW c \in Clients, ClientStep(c)
  PROVE  SemInv'
<1> USE DEF At
<1>1. Placed /\ c \in Tasks
  BY DEF LockInv, Tasks
<1>2. CASE PermitGranted(c)
  BY <1>1, <1>2, GrantDeals
<1>3. CASE PermitTimeout(c)
  BY <1>1, <1>3, LeaveDeals DEF PermitTimeout, Go, bounds
<1>4. CASE ContextArrives(c)
  <2>1. pc[c] \in Owning /\ UNCHANGED <<permits, cancels>>
    BY <1>4, OwningPoints DEF ContextArrives, bounds
  <2>2. \E p \in Owning : pc' = [pc EXCEPT ![c] = p]
    BY <1>4, FetchOwns DEF ContextArrives
  <2> QED BY <1>1, <2>1, <2>2, OwnerKeeps
<1>5. CASE ContextTimeout(c)
  <2>1. /\ pc[c] \in Owning /\ OnSem(Current, Release(sems[Current])) /\ UNCHANGED waitsOn
        /\ pc' = [pc EXCEPT ![c] = "idle"] /\ cancels' = cancels
    BY <1>5, OwningPoints DEF ContextTimeout, Go, bounds
  <2> QED BY <1>1, <2>1, ReleaseDeals
<1>6. CASE UseEnds(c)
  <2>1. pc[c] \in Owning /\ UNCHANGED <<permits, cancels>>
    BY <1>6, OwningPoints DEF UseEnds, bounds
  <2>2. \E p \in Owning : pc' = [pc EXCEPT ![c] = p]
    BY <1>6, OwningPoints DEF UseEnds, Go
  <2> QED BY <1>1, <2>1, <2>2, OwnerKeeps
<1>7. ASSUME NEW q, Finish(c, q), pc[c] \in Owning, UNCHANGED <<waitsOn, cancels>>
      PROVE  SemInv'
  BY <1>1, <1>7, ReleaseDeals DEF Finish, Go
<1>8. CASE CleanOk(c)
  <2>1. pc[c] \in Owning /\ UNCHANGED <<waitsOn, cancels>>
    BY <1>8, OwningPoints DEF CleanOk, bounds
  <2> QED BY <1>7, <1>8, <2>1 DEF CleanOk
<1>9. CASE CleanFails(c)
  <2>1. pc[c] \in Owning /\ UNCHANGED <<permits, cancels>>
    BY <1>9, OwningPoints DEF CleanFails, Raises, Fault, bounds
  <2>2. \E p \in Owning : pc' = [pc EXCEPT ![c] = p]
    BY <1>9, OwningPoints DEF CleanFails, Go
  <2> QED BY <1>1, <2>1, <2>2, OwnerKeeps
<1>10. ASSUME NEW q, Recycled(c, q), UNCHANGED <<waitsOn, cancels>>
       PROVE  SemInv'
  <2>1. CASE pc[c] \in {"swapClose", "swapCreate"} /\ SecondGet(c, q) /\ UNCHANGED sems
    <3>1. pc[c] \in Owning /\ UNCHANGED <<permits, cancels>>
      BY <1>10, <2>1, OwningPoints DEF permits
    <3> QED BY <1>1, <2>1, <3>1, FetchOwns, OwnerKeeps
  <2>2. CASE pc[c] \in {"dropClose", "dropCreate"} /\ Finish(c, q)
    BY <1>7, <1>10, <2>2, OwningPoints
  <2> QED BY <1>10, <2>1, <2>2 DEF Recycled
<1>11. CASE OldClosed(c)
  <2>1. pc[c] \in Owning /\ UNCHANGED <<waitsOn, cancels>>
    BY <1>11, OwningPoints DEF OldClosed, bounds
  <2>2. CASE browser # 0 /\ ~shut
    <3>1. UNCHANGED <<permits, cancels>>
      BY <1>11, <2>1, <2>2 DEF OldClosed, permits
    <3>2. \E p \in Owning : pc' = [pc EXCEPT ![c] = p]
      BY <1>11, <2>2, OwningPoints DEF OldClosed, Go
    <3> QED BY <1>1, <2>1, <3>1, <3>2, OwnerKeeps
  <2>3. CASE ~(browser # 0 /\ ~shut)
    BY <1>10, <1>11, <2>1, <2>3 DEF OldClosed
  <2> QED BY <2>2, <2>3
<1>12. CASE NewCreated(c)
  <2>1. UNCHANGED <<waitsOn, cancels>> /\ \E q : Recycled(c, q)
    BY <1>12 DEF NewCreated, bounds
  <2> QED BY <1>10, <2>1
<1>13. CASE NewFails(c)
  <2>1. UNCHANGED <<waitsOn, cancels>> /\ \E q : Recycled(c, q)
    BY <1>13 DEF NewFails, Raises, Fault, bounds
  <2> QED BY <1>10, <2>1
<1> QED BY <1>2, <1>3, <1>4, <1>5, <1>6, <1>8, <1>9, <1>11, <1>12, <1>13 DEF ClientStep

(* A cancelled client may take its permit with it, but brings none.           *)
LEMMA CancelDeals ==
  ASSUME LockInv, HoldInv, SemInv, NEW c \in Clients, Cancel(c)
  PROVE  SemInv'
<1> USE DEF At
<1>1. Placed /\ c \in Tasks /\ cancels' # 0 /\ pc' = [pc EXCEPT ![c] = "idle"]
  BY DEF LockInv, Tasks, HoldInv, Cancel, Finish, Go
<1>2. CASE pc[c] \in Releasing /\ Finish(c, queue) /\ UNCHANGED waitsOn
  <2>1. pc[c] \in Owning
    BY <1>2 DEF Owning, Busy
  <2> QED BY <1>1, <1>2, <2>1, ReleaseDeals DEF Finish
<1>3. CASE pc[c] = "permit" /\ LeaveSem(c)
  BY <1>1, <1>3, LeaveDeals
<1>4. CASE pc[c] \in Waiting /\ pc[c] # "permit" /\ UNCHANGED permits
  <2>1. "idle" \in PCs /\ "idle" # "permit" /\ "idle" \notin Inner /\ Own("idle") = 0
    BY OwningPoints, ClientPoints DEF Own
  <2>2. Own("idle") <= Own(pc[c])
    BY <2>1 DEF Own
  <2>3. sems = <<>> => browser' = 0
    BY DEF SemInv, Cancel, Abandoned, chromium
  <2> QED BY <1>1, <1>4, <2>1, <2>2, <2>3, StayKeeps
<1>5. \/ pc[c] \in Releasing /\ Finish(c, queue) /\ UNCHANGED waitsOn
      \/ pc[c] = "permit" /\ LeaveSem(c)
      \/ pc[c] \in Waiting /\ pc[c] # "permit" /\ UNCHANGED permits
  BY DEF Cancel
<1> QED BY <1>2, <1>3, <1>4, <1>5

LEMMA SemInvHolds == Spec => []SemInv
<1>1. Init => SemInv
  <2> SUFFICES ASSUME Init PROVE SemInv
    OBVIOUS
  <2>1. \A u \in Tasks : pc[u] \in {"idle", "off", "boot"}
    BY TaskAssumption DEF Init, Tasks
  <2>2. \A u \in Tasks : pc[u] \notin Inner
    BY <2>1, OwningPoints
  <2>3. sems = <<>> /\ Len(sems) = 0 /\ SemTypes(sems)
    BY DEF Init, SemTypes
  <2>4. Owners = {}
    BY <2>2, OwnersCounted, OwningPoints DEF Tasks
  <2>5. Idle = {} /\ Promised = {}
    BY <2>3 DEF Idle, Promised, Tagged
  <2>6. PermitsAccountedFor
    <3>1. Cardinality(Idle) = 0 /\ Cardinality(Promised) = 0 /\ Cardinality(Owners) = 0
      BY <2>4, <2>5, FS_EmptySet
    <3>2. MaxConcurrent * Len(sems) = 0
      BY <2>3, SizeAssumption
    <3> QED BY <3>1, <3>2 DEF PermitsAccountedFor
  <2>7. \A c \in Clients : pc[c] # "permit"
    BY <2>2, OwningPoints DEF Tasks
  <2> QED BY <2>2, <2>3, <2>6, <2>7 DEF Init, SemInv
<1>2. LockInv /\ HoldInv /\ SemInv /\ [Next]_vars => SemInv'
  <2> SUFFICES ASSUME LockInv, HoldInv, SemInv, [Next]_vars PROVE SemInv'
    OBVIOUS
  <2> USE DEF At
  <2>0. Placed
    BY DEF LockInv
  <2>1. ASSUME NEW u \in Tasks, LockStep(u) PROVE SemInv'
    BY <2>1, LockStepDeals
  <2>2. ASSUME NEW r \in Restarters, RestartStep(r) PROVE SemInv'
    BY <2>2, RestartStepDeals
  <2>3. ASSUME NEW c \in Clients, ClientStep(c) PROVE SemInv'
    BY <2>3, ClientStepDeals
  <2>4. ASSUME NEW c \in Clients, Acquire(c) PROVE SemInv'
    <3>1. c \in Tasks /\ pc[c] \notin Owning \cup {"permit"} /\ UNCHANGED <<browser, cancels>>
      BY <2>4, OwningPoints DEF Acquire, Tasks, bounds, chromium
    <3>2. CASE browser = 0 \/ shut
      BY <2>0, <2>4, <3>1, <3>2, EnterStartupDeals DEF Acquire
    <3>3. CASE ~(browser = 0 \/ shut)
      <4>1. Permit(c, queue) /\ Current \in 1..Len(sems)
        BY <2>4, <3>1, <3>3, Inside DEF Acquire
      <4> QED BY <2>0, <3>1, <4>1, PermitDeals
    <3> QED BY <3>2, <3>3
  <2>5. ASSUME NEW c \in Clients, Cancel(c) PROVE SemInv'
    BY <2>5, CancelDeals
  <2>6. CASE Boot
    <3>1. App \in Tasks /\ pc[App] \notin Owning \cup {"permit"} /\ EnterStartup(App)
          /\ UNCHANGED <<browser, cancels>>
      BY <2>6, OwningPoints DEF Boot, Tasks, bounds, chromium
    <3> QED BY <2>0, <3>1, EnterStartupDeals
  <2>7. CASE AppStops
    <3>1. App \in Tasks /\ pc[App] \notin Inner /\ EnterShutdown(App)
          /\ UNCHANGED <<permits, browser, cancels>>
      BY <2>7, OwningPoints DEF AppStops, Tasks, bounds, chromium
    <3> QED BY <2>0, <3>1, EnterShutdownKeeps
  <2>8. CASE Crash \/ UNCHANGED vars
    <3>1. UNCHANGED <<permits, pc, cancels, browser>>
      BY <2>8 DEF Crash, Fault, vars, chromium, bounds
    <3>2. sems = <<>> => browser' = 0
      BY <3>1 DEF SemInv
    <3> QED BY <3>1, <3>2, SameKeeps
  <2> QED BY <2>1, <2>2, <2>3, <2>4, <2>5, <2>6, <2>7, <2>8 DEF Next
<1> QED BY <1>1, <1>2, LockInvHolds, HoldInvHolds, PTL DEF Spec

(* Of the permits of all the semaphores startup() ever made, none is          *)
(* invented, and none is lost unless a scrape was cancelled inside acquire(). *)
THEOREM PermitsKept == Spec => []PermitsAccountedFor
BY SemInvHolds, PTL DEF SemInv

-----------------------------------------------------------------------------
(* The type of the state.                                                     *)
CounterInv ==
  /\ shut \in BOOLEAN /\ errors \in 0..(PoolSize - 1)
  /\ attempts \in 0..MaxAttempts /\ due \in Nat
  /\ faults \in 0..MaxFaults /\ cancels \in 0..MaxCancels

(* Whoever fills the pool has room for one more context.                      *)
FillInv ==
  /\ filled \in 0..PoolSize
  /\ \A u \in Tasks : pc[u] = "fill" => filled < PoolSize

Ticks ==
  /\ shut' = shut \/ shut' \in BOOLEAN
  /\ errors' = errors \/ Bump
  /\ attempts' = attempts \/ attempts' = 0 \/ (~(attempts >= MaxAttempts) /\ attempts' = attempts + 1)
  /\ due' = due \/ due' = due + 1 \/ (due > 0 /\ due' = due - 1)
  /\ \/ UNCHANGED bounds
     \/ Fault
     \/ cancels < MaxCancels /\ cancels' = cancels + 1 /\ faults' = faults

LEMMA TicksKeep ==
  ASSUME CounterInv, Ticks
  PROVE  CounterInv'
<1>1. PoolSize \in Nat \ {0} /\ MaxAttempts \in Nat /\ MaxFaults \in Nat /\ MaxCancels \in Nat
  BY SizeAssumption
<1>2. errors' \in 0..(PoolSize - 1)
  BY <1>1 DEF CounterInv, Ticks, Bump
<1>3. attempts' \in 0..MaxAttempts /\ due' \in Nat /\ shut' \in BOOLEAN
  BY <1>1 DEF CounterInv, Ticks
<1>4. faults' \in 0..MaxFaults /\ cancels' \in 0..MaxCancels
  BY <1>1 DEF CounterInv, Ticks, Fault, bounds
<1> QED BY <1>2, <1>3, <1>4 DEF CounterInv

LEMMA FillStays ==
  ASSUME Placed, FillInv, NEW u \in Tasks, NEW p \in PCs, p # "fill",
         pc' = [pc EXCEPT ![u] = p], filled' = filled
  PROVE  FillInv'
BY DEF Placed, FillInv

LEMMA StartupTicks ==
  ASSUME NEW u \in Tasks, NEW locked, Startup(u, locked)
  PROVE  /\ shut' = shut \/ shut' \in BOOLEAN
         /\ attempts' = attempts \/ attempts' = 0
         /\ \E p \in PCs : p # "fill" /\ pc' = [pc EXCEPT ![u] = p]
<1>1. CASE browser # 0
  <2>1. Started(u, queue) /\ shut' = shut
    BY <1>1 DEF Startup
  <2>2. attempts' = attempts \/ attempts' = 0
    BY <2>1 DEF Started
  <2>3. \E p \in PCs : p # "fill" /\ pc' = [pc EXCEPT ![u] = p]
    BY <2>1, StartedLeaves, Points DEF Leaves
  <2> QED BY <2>1, <2>2, <2>3
<1>2. CASE browser = 0
  BY <1>2, ClientPoints DEF Startup, Go
<1> QED BY <1>1, <1>2

LEMMA EnterStartupTicks ==
  ASSUME NEW u \in Tasks, EnterStartup(u)
  PROVE  /\ shut' = shut \/ shut' \in BOOLEAN
         /\ attempts' = attempts \/ attempts' = 0
         /\ \E p \in PCs : p # "fill" /\ pc' = [pc EXCEPT ![u] = p]
<1>1. CASE line = <<>>
  BY <1>1, StartupTicks DEF EnterStartup
<1>2. CASE line # <<>>
  BY <1>2, ClientPoints DEF EnterStartup, Go
<1> QED BY <1>1, <1>2

LEMMA ShutdownTicks ==
  ASSUME NEW u \in Tasks, (\E locked : Shutdown(u, locked)) \/ EnterShutdown(u)
  PROVE  /\ shut' = shut \/ shut' \in BOOLEAN
         /\ \E p \in PCs : p # "fill" /\ pc' = [pc EXCEPT ![u] = p]
BY DEF EnterShutdown, Shutdown, Stopped, Go, PCs

LEMMA LockStepTicks ==
  ASSUME LockInv, FillInv, NEW u \in Tasks, LockStep(u)
  PROVE  Ticks /\ FillInv'
<1> USE DEF At
<1>1. Placed
  BY DEF LockInv
<1>2. CASE StartLockGranted(u)
  <2>1. Startup(u, line) /\ UNCHANGED <<filled, errors, due, bounds>>
    BY <1>2 DEF StartLockGranted
  <2> QED BY <1>1, <2>1, StartupTicks, FillStays DEF Ticks
<1>3. CASE Launched(u)
  <2>1. filled' = 0 /\ UNCHANGED <<shut, restart, bounds>>
    BY <1>3 DEF Launched
  <2>2. FillInv'
    BY <2>1, SizeAssumption DEF FillInv
  <2> QED BY <2>1, <2>2 DEF Ticks, restart
<1>4. ASSUME Aborted(u), UNCHANGED <<shut, filled, restart>>, UNCHANGED bounds \/ Fault
      PROVE  Ticks /\ FillInv'
  <2>1. \E p \in PCs : p # "fill" /\ pc' = [pc EXCEPT ![u] = p]
    BY <1>4, AbortedLeaves, Points DEF Leaves
  <2> QED BY <1>1, <1>4, <2>1, FillStays DEF Ticks, restart
<1>5. CASE LaunchFails(u)
  BY <1>4, <1>5 DEF LaunchFails
<1>6. CASE FillFails(u)
  BY <1>4, <1>6 DEF FillFails, Raises
<1>7. CASE FillNext(u)
  <2>1. /\ pc[u] = "fill" /\ filled' = filled + 1 /\ UNCHANGED <<shut, errors, due, bounds>>
    BY <1>7 DEF FillNext
  <2>2. filled \in 0..PoolSize /\ filled < PoolSize /\ PoolSize \in Nat
    BY <2>1, SizeAssumption DEF FillInv
  <2>3. filled' \in 0..PoolSize
    BY <2>1, <2>2
  <2>4. CASE filled' = PoolSize
    <3>1. \E q : Started(u, q)
      BY <1>7, <2>4 DEF FillNext
    <3>2. attempts' = attempts \/ attempts' = 0
      BY <3>1 DEF Started
    <3>3. PICK p \in PCs : p # "fill" /\ pc' = [pc EXCEPT ![u] = p]
      BY <3>1, StartedLeaves, Points DEF Leaves
    <3>4. \A v \in Tasks : pc[v] \in Locked => v = u
      BY <1>1, <2>1, LockedFirst, Points DEF LockInv, LockOK, Placed
    <3>5. \A v \in Tasks : pc'[v] # "fill"
      BY <1>1, <3>3, <3>4, Points DEF Placed
    <3> QED BY <2>1, <2>3, <3>2, <3>5 DEF Ticks, FillInv
  <2>5. CASE filled' # PoolSize
    <3>1. UNCHANGED <<pc, attempts>>
      BY <1>7, <2>5 DEF FillNext
    <3>2. filled' < PoolSize
      BY <2>2, <2>3, <2>5
    <3> QED BY <2>1, <2>3, <3>1, <3>2 DEF Ticks, FillInv
  <2> QED BY <2>4, <2>5
<1>8. CASE StopLockGranted(u)
  <2>1. Shutdown(u, line) /\ UNCHANGED <<filled, restart, bounds>>
    BY <1>8 DEF StopLockGranted
  <2> QED BY <1>1, <2>1, ShutdownTicks, FillStays DEF Ticks, restart
<1>9. ASSUME UNCHANGED <<shut, filled, restart, bounds>>,
             \E p \in {"closeBrowser", "stopDriver", "down", "sleep"} : pc' = [pc EXCEPT ![u] = p]
      PROVE  Ticks /\ FillInv'
  <2>1. \E p \in PCs : p # "fill" /\ pc' = [pc EXCEPT ![u] = p]
    BY <1>9 DEF PCs
  <2> QED BY <1>1, <1>9, <2>1, FillStays DEF Ticks, restart
<1>10. CASE ContextsClosed(u)
  BY <1>9, <1>10 DEF ContextsClosed, Go
<1>11. CASE BrowserClosed(u)
  BY <1>9, <1>11 DEF BrowserClosed, Go
<1>12. CASE DriverStopped(u)
  <2>1. \E p \in {"closeBrowser", "stopDriver", "down", "sleep"} : pc' = [pc EXCEPT ![u] = p]
    BY <1>12 DEF DriverStopped, Stopped, Go
  <2> QED BY <1>9, <1>12, <2>1 DEF DriverStopped
<1> QED BY <1>2, <1>3, <1>5, <1>6, <1>7, <1>8, <1>10, <1>11, <1>12 DEF LockStep

LEMMA ClientStepTicks ==
  ASSUME LockInv, FillInv, NEW c \in Clients, ClientStep(c)
  PROVE  Ticks /\ FillInv'
<1> USE DEF At
<1>1. Placed /\ c \in Tasks
  BY DEF LockInv, Tasks
<1>2. FillInv'
  <2>1. filled' = filled
    BY DEF ClientStep, PermitGranted, PermitTimeout, ContextArrives, ContextTimeout, UseEnds,
           CleanOk, CleanFails, OldClosed, NewCreated, NewFails
  <2>2. \E p \in PCs : p # "fill" /\ pc' = [pc EXCEPT ![c] = p]
    BY ClientMoves, Points DEF Leaves
  <2> QED BY <1>1, <2>1, <2>2, FillStays
<1>3. CASE PermitGranted(c) \/ PermitTimeout(c)
  BY <1>2, <1>3 DEF PermitGranted, PermitTimeout, Ticks, restart
<1>4. CASE ContextArrives(c) \/ ContextTimeout(c)
  BY <1>2, <1>4 DEF ContextArrives, ContextTimeout, Ticks, restart
<1>5. CASE UseEnds(c) \/ CleanOk(c) \/ OldClosed(c) \/ NewCreated(c)
  BY <1>2, <1>5 DEF UseEnds, CleanOk, OldClosed, NewCreated, Ticks, restart
<1>6. CASE CleanFails(c)
  BY <1>2, <1>6 DEF CleanFails, Raises, Ticks, restart
<1>7. CASE NewFails(c)
  BY <1>2, <1>7 DEF NewFails, Raises, Ticks
<1> QED BY <1>2, <1>3, <1>4, <1>5, <1>6, <1>7 DEF ClientStep

LEMMA TypesHold == Spec => [](CounterInv /\ FillInv)
<1>1. Init => CounterInv /\ FillInv
  <2> SUFFICES ASSUME Init PROVE CounterInv /\ FillInv
    OBVIOUS
  <2>1. CounterInv
    BY SizeAssumption DEF Init, CounterInv
  <2>2. \A u \in Tasks : pc[u] # "fill"
    BY TaskAssumption DEF Init, Tasks
  <2> QED BY <2>1, <2>2, SizeAssumption DEF Init, FillInv
<1>2. LockInv /\ CounterInv /\ FillInv /\ [Next]_vars => CounterInv' /\ FillInv'
  <2> SUFFICES ASSUME LockInv, CounterInv, FillInv, [Next]_vars PROVE Ticks /\ FillInv'
    BY TicksKeep
  <2> USE DEF At
  <2>0. Placed
    BY DEF LockInv
  <2>1. ASSUME NEW u \in Tasks, LockStep(u) PROVE Ticks /\ FillInv'
    BY <2>1, LockStepTicks
  <2>2. ASSUME NEW r \in Restarters, RestartStep(r) PROVE Ticks /\ FillInv'
    <3>1. r \in Tasks
      BY DEF Tasks
    <3>2. CASE RestartRuns(r)
      <4>1. CASE attempts >= MaxAttempts
        BY <3>2, <4>1 DEF RestartRuns, Ticks, FillInv
      <4>2. CASE ~(attempts >= MaxAttempts)
        <5>1. EnterShutdown(r) /\ attempts' = attempts + 1 /\ due > 0 /\ due' = due - 1
              /\ UNCHANGED <<filled, errors, bounds>>
          BY <3>2, <4>2 DEF RestartRuns
        <5> QED BY <2>0, <3>1, <4>2, <5>1, ShutdownTicks, FillStays DEF Ticks
      <4> QED BY <4>1, <4>2
    <3>3. CASE Slept(r)
      <4>1. EnterStartup(r) /\ UNCHANGED <<filled, errors, due, bounds>>
        BY <3>3 DEF Slept
      <4> QED BY <2>0, <3>1, <4>1, EnterStartupTicks, FillStays DEF Ticks
    <3> QED BY <2>2, <3>2, <3>3 DEF RestartStep
  <2>3. ASSUME NEW c \in Clients, ClientStep(c) PROVE Ticks /\ FillInv'
    BY <2>3, ClientStepTicks
  <2>4. ASSUME NEW c \in Clients, Acquire(c) PROVE Ticks /\ FillInv'
    <3>1. c \in Tasks /\ UNCHANGED <<filled, errors, due, bounds>>
      BY <2>4 DEF Acquire, Tasks
    <3>2. CASE browser = 0 \/ shut
      BY <2>0, <2>4, <3>1, <3>2, EnterStartupTicks, FillStays DEF Acquire, Ticks
    <3>3. CASE ~(browser = 0 \/ shut)
      <4>1. Permit(c, queue) /\ UNCHANGED <<shut, attempts>>
        BY <2>4, <3>3 DEF Acquire
      <4>2. \E p \in PCs : p # "fill" /\ pc' = [pc EXCEPT ![c] = p]
        BY <4>1, PermitLeaves, Points DEF Leaves
      <4> QED BY <2>0, <3>1, <4>1, <4>2, FillStays DEF Ticks
    <3> QED BY <3>2, <3>3
  <2>5. ASSUME NEW c \in Clients, Cancel(c) PROVE Ticks /\ FillInv'
    <3>1. c \in Tasks /\ pc' = [pc EXCEPT ![c] = "idle"] /\ filled' = filled /\ "idle" \in PCs
      BY <2>5, ClientPoints DEF Cancel, Finish, Go, Tasks
    <3>2. Ticks
      BY <2>5 DEF Cancel, Ticks, restart
    <3> QED BY <2>0, <3>1, <3>2, FillStays
  <2>6. CASE Boot
    <3>1. App \in Tasks /\ EnterStartup(App) /\ UNCHANGED <<filled, errors, due, bounds>>
      BY <2>6 DEF Boot, Tasks
    <3> QED BY <2>0, <3>1, EnterStartupTicks, FillStays DEF Ticks
  <2>7. CASE AppStops
    <3>1. App \in Tasks /\ EnterShutdown(App) /\ UNCHANGED <<filled, restart, bounds>>
      BY <2>7 DEF AppStops, Tasks
    <3> QED BY <2>0, <3>1, ShutdownTicks, FillStays DEF Ticks, restart
  <2>8. CASE Crash
    BY <2>8 DEF Crash, Ticks, restart, FillInv
  <2>9. CASE UNCHANGED vars
    BY <2>9 DEF vars, Ticks, restart, FillInv
  <2> QED BY <2>1, <2>2, <2>3, <2>4, <2>5, <2>6, <2>7, <2>8, <2>9 DEF Next
<1> QED BY <1>1, <1>2, LockInvHolds, PTL DEF Spec

(* Every variable keeps its type: among them the pool's counters stay within  *)
(* PoolSize and MAX_RESTART_ATTEMPTS.                                         *)
THEOREM TypeCorrect == Spec => []TypeOK
<1>1. LockInv /\ HoldInv /\ SemInv /\ CounterInv /\ FillInv => TypeOK
  <2> SUFFICES ASSUME LockInv, HoldInv, SemInv, CounterInv, FillInv PROVE TypeOK
    OBVIOUS
  <2>1. /\ browser \in Nat /\ live \subseteq Nat /\ launches \in Nat
        /\ pc \in [Tasks -> PCs] /\ line \in Seq(Tasks)
    BY DEF LockInv, OneBrowser, Placed, LockOK, InLine
  <2>2. /\ all \subseteq Context /\ queue \in Seq(Context)
        /\ holding \in [Clients -> Context \cup {None}] /\ on \in [Clients -> Nat]
    BY DEF HoldInv, Circulate
  <2>3. active \in Nat
    <3>1. Lent \in SUBSET Clients
      BY DEF Lent
    <3> QED BY <3>1, TaskAssumption, FS_Subset, FS_CardinalityType DEF HoldInv, ActiveExact
  <2>4. /\ sems \in Seq([value : Nat, waiting : Seq(Clients), woken : SUBSET Clients])
        /\ waitsOn \in [Clients -> Nat]
    BY DEF SemInv, SemTypes, Semaphores
  <2> QED BY <2>1, <2>2, <2>3, <2>4 DEF TypeOK, CounterInv, FillInv
<1> QED BY <1>1, LockInvHolds, HoldInvHolds, SemInvHolds, TypesHold, PTL
=============================================================================
