------------------------- MODULE CrawlManagerProofs -------------------------
(* Theorems about CrawlManager for every set of jobs, every web and every     *)
(* limit.                                                                     *)
EXTENDS CrawlManager, AsyncSemaphoreProofs

-----------------------------------------------------------------------------
(* Types.                                                                    *)

InFlight == {"validate", "robots", "permit", "scrape"}

(* A job that exists has parameters, and one at work has a page.             *)
Shape ==
  \A j \in Jobs :
    /\ (pc[j] = "absent") = (status[j] = "absent")
    /\ pc[j] # "absent" => job[j] \in Parameters
    /\ pc[j] \in InFlight => current[j] \in Entry
    /\ cancelling[j] => pc[j] \notin {"absent", "done"} /\ status[j] = "cancelled"

(* Who waits for a permit or was handed one is suspended in acquire(); a     *)
(* task that is being cancelled has left the queue.                          *)
SemOK ==
  /\ Sound(sem)
  /\ \A j \in Queued(sem) : pc[j] = "permit" /\ ~cancelling[j]
  /\ \A j \in sem.woken : pc[j] = "permit"
  /\ PermitsConserved

Inv == TypeOK /\ Shape /\ SemOK

(* What the crawl loop leaves behind when it suspends or ends.               *)
LEMMA ContinueType ==
  ASSUME TypeOK, Shape, NEW j \in Jobs, pc[j] # "absent",
         NEW queue \in Seq(Entry), NEW count \in Nat,
         Continue(j, queue, count)
  PROVE  /\ status' \in [Jobs -> Statuses]
         /\ visited' \in [Jobs -> SUBSET Urls]
         /\ frontier' \in [Jobs -> Seq(Entry)]
         /\ current' \in [Jobs -> Entry \cup {None}]
         /\ pc' \in [Jobs -> PCs]
         /\ log' \in [Jobs -> Seq(Entry)]
         /\ \A i \in Jobs \ {j} : /\ pc'[i] = pc[i]
                                  /\ status'[i] = status[i]
                                  /\ current'[i] = current[i]
         /\ pc'[j] \in {"validate", "done"}
         /\ status'[j] \in {"running", "completed"}
         /\ pc'[j] = "validate" => current'[j] \in Entry
<1>1. CASE Advance(j, queue, count)
  <2>1. PICK i \in Fresh(j, queue) :
          LET page == [url |-> Defrag[queue[i].url], depth |-> queue[i].depth]
          IN  /\ current' = [current EXCEPT ![j] = page]
              /\ visited' = [visited EXCEPT ![j] = @ \cup {page.url}]
              /\ frontier' = [frontier EXCEPT ![j] =
                                SubSeq(queue, i + 1, Len(queue))]
              /\ log' = [log EXCEPT ![j] = Append(@, page)]
    BY <1>1 DEF Advance
  <2> DEFINE page == [url |-> Defrag[queue[i].url], depth |-> queue[i].depth]
  <2>2. i \in 1..Len(queue) /\ queue[i] \in Entry
    BY DEF Fresh
  <2>3. page \in Entry /\ page.url \in Urls
    BY <2>2, UrlAssumption DEF Entry
  <2>4. SubSeq(queue, i + 1, Len(queue)) \in Seq(Entry)
    <3>1. \A k \in (i + 1)..Len(queue) : queue[k] \in Entry
      BY <2>2
    <3>2. i + 1 \in Int /\ Len(queue) \in Int
      BY <2>2
    <3> QED BY <3>1, <3>2, SubSeqProperties
  <2>5. Append(log[j], page) \in Seq(Entry)
    BY <2>3 DEF TypeOK
  <2> HIDE DEF page
  <2>6. /\ current' = [current EXCEPT ![j] = page]
        /\ visited' = [visited EXCEPT ![j] = @ \cup {page.url}]
        /\ frontier' = [frontier EXCEPT ![j] =
                          SubSeq(queue, i + 1, Len(queue))]
        /\ log' = [log EXCEPT ![j] = Append(@, page)]
    BY <2>1 DEF page
  <2>7. /\ status' = [status EXCEPT ![j] = "running"]
        /\ pc' = [pc EXCEPT ![j] = "validate"]
    BY <1>1 DEF Advance
  <2>8. frontier' \in [Jobs -> Seq(Entry)] /\ log' \in [Jobs -> Seq(Entry)]
    BY <2>4, <2>5, <2>6 DEF TypeOK
  <2> QED BY <2>3, <2>6, <2>7, <2>8 DEF TypeOK, Statuses, PCs
<1>2. CASE Complete(j, queue, count)
  <2>1. frontier' \in [Jobs -> Seq(Entry)]
    BY <1>2 DEF Complete, TypeOK
  <2> QED BY <1>2, <2>1 DEF Complete, TypeOK, Statuses, PCs
<1> QED BY <1>1, <1>2 DEF Continue

-----------------------------------------------------------------------------
(* Permits.                                                                  *)

Holds(point) == IF point = "scrape" THEN 1 ELSE 0

(* One task moves: the number of tasks inside `async with` follows it.       *)
LEMMA ScrapingMoves ==
  ASSUME TypeOK, NEW j \in Jobs, pc' \in [Jobs -> PCs],
         \A i \in Jobs \ {j} : pc'[i] = pc[i]
  PROVE  /\ Cardinality(Scraping) \in Nat
         /\ Cardinality(Scraping') \in Nat
         /\ Cardinality(Scraping') + Holds(pc[j])
              = Cardinality(Scraping) + Holds(pc'[j])
<1> DEFINE others == {i \in Jobs \ {j} : pc[i] = "scrape"}
<1>1. IsFiniteSet(others) /\ j \notin others
  BY JobsAssumption, FS_Subset
<1>2. Scraping = IF pc[j] = "scrape" THEN others \cup {j} ELSE others
  BY DEF Scraping
<1>3. Scraping' = IF pc'[j] = "scrape" THEN others \cup {j} ELSE others
  BY DEF Scraping
<1> HIDE DEF others
<1>4. /\ Cardinality(others) \in Nat
      /\ Cardinality(others \cup {j}) = Cardinality(others) + 1
  BY <1>1, FS_AddElement, FS_CardinalityType
<1>5. Cardinality(Scraping) = Cardinality(others) + Holds(pc[j])
  BY <1>2, <1>4 DEF Holds
<1>6. Cardinality(Scraping') = Cardinality(others) + Holds(pc'[j])
  BY <1>3, <1>4 DEF Holds
<1> QED BY <1>4, <1>5, <1>6 DEF Holds

(* One task moves and takes its permit, or its promise, along.               *)
LEMMA SemStep ==
  ASSUME Inv, NEW j \in Jobs, pc' \in [Jobs -> PCs],
         \A i \in Jobs \ {j} : pc'[i] = pc[i] /\ cancelling'[i] = cancelling[i],
         sem' \in Semaphores(Jobs),
         Sound(sem'),
         Queued(sem') \subseteq Queued(sem) \cup {j},
         Queued(sem') \cup sem'.woken \subseteq Queued(sem) \cup sem.woken \cup {j},
         j \in Queued(sem') => pc'[j] = "permit" /\ ~cancelling'[j],
         j \in sem'.woken => pc'[j] = "permit",
         Permits(sem') + Holds(pc'[j]) = Permits(sem) + Holds(pc[j])
  PROVE  SemOK'
<1>1. sem \in Semaphores(Jobs) /\ Sound(sem)
  BY DEF Inv, TypeOK, SemOK, Semaphores
<1>2. Permits(sem) \in Nat /\ Permits(sem') \in Nat
  BY <1>1, FS_CardinalityType DEF Permits, Semaphores, Sound
<1>3. /\ Cardinality(Scraping) \in Nat
      /\ Cardinality(Scraping') \in Nat
      /\ Cardinality(Scraping') + Holds(pc[j])
           = Cardinality(Scraping) + Holds(pc'[j])
  BY ScrapingMoves DEF Inv
<1>4. Permits(sem) + Cardinality(Scraping) = MaxConcurrency
  BY DEF Inv, SemOK, PermitsConserved, Permits
<1>5. Permits(sem') + Cardinality(Scraping') = MaxConcurrency
  BY <1>2, <1>3, <1>4 DEF Holds
<1>6. PermitsConserved'
  BY <1>5 DEF PermitsConserved, Permits
<1>7. Queued(sem) \subseteq Jobs /\ sem.woken \subseteq Jobs
  BY <1>1 DEF Queued, Semaphores
<1>8. \A i \in Queued(sem') : pc'[i] = "permit" /\ ~cancelling'[i]
  BY <1>7 DEF Inv, SemOK
<1>9. \A i \in sem'.woken : pc'[i] = "permit"
  BY <1>7 DEF Inv, SemOK
<1> QED BY <1>6, <1>8, <1>9 DEF SemOK, Queued

(* One task that neither waits nor scrapes moves; the semaphore does not.    *)
LEMMA SemStays ==
  ASSUME Inv, NEW j \in Jobs, pc' \in [Jobs -> PCs],
         pc[j] \notin {"permit", "scrape"}, pc'[j] # "scrape",
         \A i \in Jobs \ {j} : pc'[i] = pc[i] /\ cancelling'[i] = cancelling[i],
         sem' = sem
  PROVE  SemOK'
<1>1. sem \in Semaphores(Jobs) /\ Sound(sem)
  BY DEF Inv, TypeOK, SemOK, Semaphores
<1>2. j \notin Queued(sem) /\ j \notin sem.woken
  BY DEF Inv, SemOK
<1>3. Holds(pc'[j]) = Holds(pc[j])
  BY DEF Holds
<1> QED BY <1>1, <1>2, <1>3, SemStep

(* A scrape ends, well or badly, and its task goes on without a permit.      *)
LEMMA SemReleased ==
  ASSUME Inv, NEW j \in Jobs, pc' \in [Jobs -> PCs],
         pc[j] = "scrape", pc'[j] # "scrape",
         \A i \in Jobs \ {j} : pc'[i] = pc[i] /\ cancelling'[i] = cancelling[i],
         sem' = Release(sem)
  PROVE  SemOK' /\ sem' \in Semaphores(Jobs)
<1>1. sem \in Semaphores(Jobs) /\ Sound(sem)
  BY DEF Inv, TypeOK, SemOK, Semaphores
<1>2. /\ sem' \in Semaphores(Jobs)
      /\ Sound(sem')
      /\ Permits(sem') = Permits(sem) + 1
      /\ Queued(sem') \cup sem'.woken = Queued(sem) \cup sem.woken
      /\ Queued(sem') \subseteq Queued(sem)
  BY <1>1, ReleaseAdds DEF Serves
<1>3. j \notin Queued(sem) /\ j \notin sem.woken
  BY DEF Inv, SemOK
<1>4. Permits(sem) \in Nat
  BY <1>1, FS_CardinalityType DEF Permits, Semaphores, Sound
<1>5. Permits(sem') + Holds(pc'[j]) = Permits(sem) + Holds(pc[j])
  BY <1>2, <1>4 DEF Holds
<1> QED BY <1>2, <1>3, <1>5, SemStep

-----------------------------------------------------------------------------
(* Inv is inductive.                                                         *)

LEMMA InvInit == Init => Inv
<1> SUFFICES ASSUME Init PROVE Inv
  OBVIOUS
<1>1. sem = [value |-> MaxConcurrency, waiting |-> <<>>, woken |-> {}]
  BY DEF Init, NewSemaphore
<1>2. TypeOK
  BY <1>1, LimitAssumption DEF Init, TypeOK, Statuses, PCs, NoJob, Entry
<1>3. Shape
  BY DEF Init, Shape, InFlight
<1>4. Queued(sem) = {} /\ sem.woken = {} /\ Sound(sem)
  BY <1>1, FS_EmptySet DEF Queued, Sound
<1>5. Scraping = {}
  BY DEF Init, Scraping
<1>6. PermitsConserved
  BY <1>1, <1>5, FS_EmptySet, LimitAssumption DEF PermitsConserved
<1> QED BY <1>2, <1>3, <1>4, <1>6 DEF Inv, SemOK

LEMMA CreateType ==
  ASSUME Inv, NEW j \in Jobs, NEW seed \in Urls,
         NEW p \in AskedPages, NEW d \in AskedDepths, CreateJob(j, seed, p, d)
  PROVE  Inv'
<1> DEFINE new == [seed |-> seed, max_pages |-> OrDefault(p, MaxPagesDefault),
                   max_depth |-> OrDefault(d, MaxDepthDefault)]
<1>1. new \in Parameters
  BY LimitAssumption DEF OrDefault, Parameters
<1> HIDE DEF new
<1>2. /\ status' = [status EXCEPT ![j] = "queued"]
      /\ job' = [job EXCEPT ![j] = new]
      /\ pc' = [pc EXCEPT ![j] = "created"]
      /\ UNCHANGED <<progress, walk, cancelling, sem, denied>>
  BY DEF CreateJob, new
<1>3. job' \in [Jobs -> {NoJob} \cup Parameters]
  BY <1>1, <1>2 DEF Inv, TypeOK
<1>4. TypeOK'
  BY <1>2, <1>3 DEF Inv, TypeOK, progress, walk, Statuses, PCs
<1>5. pc[j] = "absent"
  BY DEF CreateJob, Inv, Shape
<1>6. Shape'
  <2> SUFFICES ASSUME NEW i \in Jobs
               PROVE  /\ (pc'[i] = "absent") = (status'[i] = "absent")
                      /\ pc'[i] # "absent" => job'[i] \in Parameters
                      /\ pc'[i] \in InFlight => current'[i] \in Entry
                      /\ cancelling'[i] => /\ pc'[i] \notin {"absent", "done"}
                                           /\ status'[i] = "cancelled"
    BY DEF Shape
  <2>1. CASE i = j
    BY <1>1, <1>2, <1>5, <2>1 DEF Inv, TypeOK, InFlight, Shape
  <2>2. CASE i # j
    BY <1>2, <2>2 DEF Inv, TypeOK, Shape, walk
  <2> QED BY <2>1, <2>2
<1>7. SemOK'
  <2>1. /\ \A i \in Jobs \ {j} : pc'[i] = pc[i] /\ cancelling'[i] = cancelling[i]
        /\ pc'[j] = "created"
        /\ sem' = sem
    BY <1>2 DEF Inv, TypeOK
  <2>2. pc' \in [Jobs -> PCs]
    BY <1>4 DEF TypeOK
  <2> QED BY <1>5, <2>1, <2>2, SemStays
<1> QED BY <1>4, <1>6, <1>7 DEF Inv

(* A step that resumes the crawl loop outside `async with`, or leaves it.    *)
LEMMA ResumeLoop ==
  ASSUME Inv, NEW j \in Jobs, pc[j] \in {"created", "validate", "robots", "scrape"},
         NEW queue \in Seq(Entry), NEW count \in Nat,
         Continue(j, queue, count),
         ~cancelling[j],
         job' = job, cancelling' = cancelling,
         sem' = IF pc[j] = "scrape" THEN Release(sem) ELSE sem,
         pages' \in [Jobs -> Seq(Urls)],
         crawled' \in [Jobs -> Nat],
         failed' \in [Jobs -> Nat],
         links' \in [Jobs -> SUBSET [from : Urls, depth : Nat, to : Urls]],
         denied' \in [Jobs -> SUBSET Urls]
  PROVE  Inv'
<1>1. /\ status' \in [Jobs -> Statuses]
      /\ visited' \in [Jobs -> SUBSET Urls]
      /\ frontier' \in [Jobs -> Seq(Entry)]
      /\ current' \in [Jobs -> Entry \cup {None}]
      /\ pc' \in [Jobs -> PCs]
      /\ log' \in [Jobs -> Seq(Entry)]
      /\ \A i \in Jobs \ {j} : /\ pc'[i] = pc[i]
                               /\ status'[i] = status[i]
                               /\ current'[i] = current[i]
      /\ pc'[j] \in {"validate", "done"}
      /\ status'[j] \in {"running", "completed"}
      /\ pc'[j] = "validate" => current'[j] \in Entry
  BY ContinueType DEF Inv
<1>2. SemOK' /\ sem' \in Semaphores(Jobs)
  <2>1. \A i \in Jobs \ {j} : pc'[i] = pc[i] /\ cancelling'[i] = cancelling[i]
    BY <1>1
  <2>2. CASE pc[j] = "scrape"
    BY <1>1, <2>1, <2>2, SemReleased
  <2>3. CASE pc[j] # "scrape"
    <3>1. sem \in Semaphores(Jobs)
      BY DEF Inv, TypeOK, Semaphores
    <3> QED BY <1>1, <2>1, <2>3, <3>1, SemStays
  <2> QED BY <2>2, <2>3
<1>3. TypeOK'
  BY <1>1, <1>2 DEF Inv, TypeOK, Semaphores
<1>4. Shape'
  <2> SUFFICES ASSUME NEW i \in Jobs
               PROVE  /\ (pc'[i] = "absent") = (status'[i] = "absent")
                      /\ pc'[i] # "absent" => job'[i] \in Parameters
                      /\ pc'[i] \in InFlight => current'[i] \in Entry
                      /\ cancelling'[i] => /\ pc'[i] \notin {"absent", "done"}
                                           /\ status'[i] = "cancelled"
    BY DEF Shape
  <2>1. CASE i = j
    BY <1>1, <2>1 DEF Inv, Shape, InFlight
  <2>2. CASE i # j
    BY <1>1, <2>2 DEF Inv, Shape
  <2> QED BY <2>1, <2>2
<1> QED BY <1>2, <1>3, <1>4 DEF Inv

(* The links a page adds to the frontier, in the order the page lists them.  *)
Appended(j, found, kept) ==
  [i \in 1..Cardinality(Kept(j, found)) |->
     [url |-> Defrag[found[kept[i]]], depth |-> current[j].depth + 1]]

LEMMA AppendedType ==
  ASSUME Inv, NEW j \in Jobs, pc[j] = "scrape",
         NEW found \in PageLinks[current[j].url],
         NEW kept \in Enumerations(Kept(j, found))
  PROVE  /\ current[j] \in Entry
         /\ found \in Seq(Urls)
         /\ Cardinality(Kept(j, found)) \in Nat
         /\ Appended(j, found, kept) \in Seq(Entry)
         /\ frontier[j] \o Appended(j, found, kept) \in Seq(Entry)
<1> DEFINE n == Cardinality(Kept(j, found))
<1>1. current[j] \in Entry
  BY DEF Inv, Shape, InFlight
<1>2. found \in Seq(Urls)
  BY <1>1, UrlAssumption DEF Entry
<1>3. Kept(j, found) \subseteq 1..Len(found) /\ IsFiniteSet(1..Len(found))
  BY <1>2, FS_Interval DEF Kept
<1>4. n \in Nat
  BY <1>3, FS_Subset, FS_CardinalityType
<1>5. kept \in [1..n -> Kept(j, found)]
  BY DEF Enumerations
<1> HIDE DEF n
<1>6. ASSUME NEW i \in 1..n
      PROVE  [url |-> Defrag[found[kept[i]]], depth |-> current[j].depth + 1]
               \in Entry
  <2>1. kept[i] \in 1..Len(found)
    BY <1>3, <1>5
  <2>2. Defrag[found[kept[i]]] \in Urls
    BY <1>2, <2>1, UrlAssumption
  <2> QED BY <1>1, <2>2 DEF Entry
<1>7. Appended(j, found, kept) \in Seq(Entry)
  BY <1>4, <1>6, IsASeq DEF Appended, n
<1>8. frontier[j] \in Seq(Entry)
  BY DEF Inv, TypeOK
<1> QED BY <1>1, <1>2, <1>4, <1>7, <1>8, ConcatProperties DEF n

LEMMA StepInv ==
  ASSUME Inv, NEW j \in Jobs, Step(j)
  PROVE  Inv'
<1>0. /\ frontier[j] \in Seq(Entry)
      /\ crawled[j] \in Nat
      /\ sem \in Semaphores(Jobs)
      /\ Sound(sem)
      /\ Permits(sem) \in Nat
  <2>1. sem \in Semaphores(Jobs) /\ Sound(sem)
    BY DEF Inv, TypeOK, SemOK, Semaphores
  <2>2. Permits(sem) \in Nat
    BY <2>1, FS_CardinalityType DEF Permits, Semaphores, Sound
  <2> QED BY <2>1, <2>2 DEF Inv, TypeOK
<1>1. CASE Start(j)
  <2> DEFINE queue == <<[url |-> job[j].seed, depth |-> 0]>>
  <2>1. job[j] \in Parameters
    BY <1>1 DEF Start, At, Inv, Shape
  <2>2. queue \in Seq(Entry)
    BY <2>1 DEF Parameters, Entry
  <2>3. /\ pc[j] = "created" /\ ~cancelling[j] /\ Continue(j, queue, 0)
        /\ UNCHANGED <<parameters, progress, cancelling, sem, denied>>
    BY <1>1 DEF Start, At
  <2> HIDE DEF queue
  <2> QED BY <2>2, <2>3, ResumeLoop DEF parameters, progress, Inv, TypeOK
<1>2. CASE ValidateOk(j)
  <2>1. /\ pc[j] = "validate" /\ pc' = [pc EXCEPT ![j] = "robots"]
        /\ UNCHANGED <<status, parameters, progress, walk, cancelling, sem, denied>>
    BY <1>2 DEF ValidateOk, At
  <2>2. TypeOK'
    BY <2>1 DEF Inv, TypeOK, PCs, parameters, progress, walk
  <2>3. Shape'
    BY <2>1 DEF Inv, TypeOK, Shape, InFlight, parameters, walk
  <2>4. SemOK'
    <3>1. /\ \A i \in Jobs \ {j} : pc'[i] = pc[i] /\ cancelling'[i] = cancelling[i]
          /\ pc' \in [Jobs -> PCs] /\ pc'[j] = "robots" /\ sem' = sem
      BY <2>1 DEF Inv, TypeOK, PCs
    <3> QED BY <2>1, <3>1, SemStays
  <2> QED BY <2>2, <2>3, <2>4 DEF Inv
<1>3. CASE ValidateBlocked(j)
  <2>1. /\ pc[j] = "validate" /\ ~cancelling[j] /\ Continue(j, frontier[j], crawled[j])
        /\ UNCHANGED <<parameters, progress, cancelling, sem, denied>>
    BY <1>3 DEF ValidateBlocked, At
  <2> QED BY <1>0, <2>1, ResumeLoop DEF parameters, progress, Inv, TypeOK
<1>4. CASE RobotsDeny(j)
  <2>1. /\ pc[j] = "robots" /\ ~cancelling[j] /\ Continue(j, frontier[j], crawled[j])
        /\ denied' = [denied EXCEPT ![j] = @ \cup {current[j].url}]
        /\ UNCHANGED <<parameters, progress, cancelling, sem>>
    BY <1>4 DEF RobotsDeny, At
  <2>2. current[j] \in Entry
    BY <2>1 DEF Inv, Shape, InFlight
  <2>3. denied' \in [Jobs -> SUBSET Urls]
    BY <2>1, <2>2 DEF Inv, TypeOK, Entry
  <2> QED BY <1>0, <2>1, <2>3, ResumeLoop DEF parameters, progress, Inv, TypeOK
<1>5. CASE RobotsRaise(j)
  <2>1. /\ pc[j] = "robots" /\ ~cancelling[j]
        /\ status' = [status EXCEPT ![j] = "failed"]
        /\ pc' = [pc EXCEPT ![j] = "done"]
        /\ UNCHANGED <<parameters, progress, walk, cancelling, sem, denied>>
    BY <1>5 DEF RobotsRaise, At
  <2>2. TypeOK'
    BY <2>1 DEF Inv, TypeOK, PCs, Statuses, parameters, progress, walk
  <2>3. Shape'
    BY <2>1 DEF Inv, TypeOK, Shape, InFlight, parameters, walk
  <2>4. SemOK'
    <3>1. /\ \A i \in Jobs \ {j} : pc'[i] = pc[i] /\ cancelling'[i] = cancelling[i]
          /\ pc' \in [Jobs -> PCs] /\ pc'[j] = "done" /\ sem' = sem
      BY <2>1 DEF Inv, TypeOK, PCs
    <3> QED BY <2>1, <3>1, SemStays
  <2> QED BY <2>2, <2>3, <2>4 DEF Inv
<1>6. CASE RobotsAllow(j)
  <2>0. /\ pc[j] = "robots" /\ ~cancelling[j]
        /\ UNCHANGED <<status, parameters, progress, walk, cancelling, denied>>
        /\ current[j] \in Entry
        /\ j \notin Queued(sem) \cup sem.woken
    BY <1>6 DEF RobotsAllow, At, Inv, Shape, InFlight, SemOK
  <2>1. CASE CanTake(sem)
    <3>1. sem' = Take(sem) /\ pc' = [pc EXCEPT ![j] = "scrape"]
      BY <1>6, <2>1 DEF RobotsAllow
    <3>2. /\ sem' \in Semaphores(Jobs)
          /\ Sound(sem')
          /\ Permits(sem') = Permits(sem) - 1
          /\ Queued(sem') = Queued(sem)
          /\ sem'.woken = sem.woken
      BY <1>0, <2>1, <3>1, TakeTakes
    <3>3. /\ \A i \in Jobs \ {j} : pc'[i] = pc[i] /\ cancelling'[i] = cancelling[i]
          /\ pc' \in [Jobs -> PCs] /\ pc'[j] = "scrape"
      BY <2>0, <3>1 DEF Inv, TypeOK, PCs
    <3>4. Permits(sem') + Holds(pc'[j]) = Permits(sem) + Holds(pc[j])
      BY <1>0, <2>0, <3>2, <3>3 DEF Holds
    <3>5. SemOK'
      BY <2>0, <3>2, <3>3, <3>4, SemStep
    <3>6. TypeOK'
      BY <2>0, <3>2, <3>3 DEF Inv, TypeOK, Semaphores, parameters, progress, walk
    <3>7. Shape'
      BY <2>0, <3>3 DEF Inv, TypeOK, Shape, InFlight, parameters, walk
    <3> QED BY <3>5, <3>6, <3>7 DEF Inv
  <2>2. CASE ~CanTake(sem)
    <3>1. sem' = Enqueue(sem, j) /\ pc' = [pc EXCEPT ![j] = "permit"]
      BY <1>6, <2>2 DEF RobotsAllow
    <3>2. /\ sem' \in Semaphores(Jobs)
          /\ Sound(sem')
          /\ Permits(sem') = Permits(sem)
          /\ Queued(sem') = Queued(sem) \cup {j}
          /\ sem'.woken = sem.woken
      BY <1>0, <2>0, <3>1, EnqueueKeeps
    <3>3. /\ \A i \in Jobs \ {j} : pc'[i] = pc[i] /\ cancelling'[i] = cancelling[i]
          /\ pc' \in [Jobs -> PCs] /\ pc'[j] = "permit" /\ ~cancelling'[j]
      BY <2>0, <3>1 DEF Inv, TypeOK, PCs
    <3>4. Permits(sem') + Holds(pc'[j]) = Permits(sem) + Holds(pc[j])
      BY <1>0, <2>0, <3>2, <3>3 DEF Holds
    <3>5. SemOK'
      BY <2>0, <3>2, <3>3, <3>4, SemStep
    <3>6. TypeOK'
      BY <2>0, <3>2, <3>3 DEF Inv, TypeOK, Semaphores, parameters, progress, walk
    <3>7. Shape'
      BY <2>0, <3>3 DEF Inv, TypeOK, Shape, InFlight, parameters, walk
    <3> QED BY <3>5, <3>6, <3>7 DEF Inv
  <2> QED BY <2>1, <2>2
<1>7. CASE PermitGranted(j)
  <2>0. /\ pc[j] = "permit" /\ ~cancelling[j] /\ j \in sem.woken
        /\ sem' = Resume(sem, j)
        /\ pc' = [pc EXCEPT ![j] = "scrape"]
        /\ UNCHANGED <<status, parameters, progress, walk, cancelling, denied>>
        /\ current[j] \in Entry
    BY <1>7 DEF PermitGranted, At, Inv, Shape, InFlight
  <2>1. /\ sem' \in Semaphores(Jobs)
        /\ Sound(sem')
        /\ Permits(sem') = Permits(sem) - 1
        /\ Queued(sem') \cup sem'.woken = (Queued(sem) \cup sem.woken) \ {j}
        /\ Queued(sem') \subseteq Queued(sem)
    BY <1>0, <2>0, ResumeTakes
  <2>2. /\ \A i \in Jobs \ {j} : pc'[i] = pc[i] /\ cancelling'[i] = cancelling[i]
        /\ pc' \in [Jobs -> PCs] /\ pc'[j] = "scrape"
    BY <2>0 DEF Inv, TypeOK, PCs
  <2>3. Permits(sem') + Holds(pc'[j]) = Permits(sem) + Holds(pc[j])
    BY <1>0, <2>0, <2>1, <2>2 DEF Holds
  <2>4. SemOK'
    BY <2>1, <2>2, <2>3, SemStep
  <2>5. TypeOK'
    BY <2>0, <2>1, <2>2 DEF Inv, TypeOK, Semaphores, parameters, progress, walk
  <2>6. Shape'
    BY <2>0, <2>2 DEF Inv, TypeOK, Shape, InFlight, parameters, walk
  <2> QED BY <2>4, <2>5, <2>6 DEF Inv
<1>8. CASE ScrapeOk(j)
  <2>1. PICK found \in PageLinks[current[j].url] :
          /\ links' = [links EXCEPT ![j] = @ \cup
               {[from |-> current[j].url, depth |-> current[j].depth,
                 to |-> Defrag[found[i]]] : i \in DOMAIN found}]
          /\ \E kept \in Enumerations(Kept(j, found)) :
               Continue(j, frontier[j] \o Appended(j, found, kept), crawled[j] + 1)
    BY <1>8 DEF ScrapeOk, Appended
  <2>2. PICK kept \in Enumerations(Kept(j, found)) :
          Continue(j, frontier[j] \o Appended(j, found, kept), crawled[j] + 1)
    BY <2>1
  <2>3. /\ pc[j] = "scrape" /\ ~cancelling[j]
        /\ crawled' = [crawled EXCEPT ![j] = @ + 1]
        /\ pages' = [pages EXCEPT ![j] = Append(@, Final[current[j].url])]
        /\ sem' = Release(sem)
        /\ UNCHANGED <<parameters, failed, cancelling, denied>>
    BY <1>8 DEF ScrapeOk, At
  <2>4. /\ current[j] \in Entry /\ found \in Seq(Urls)
        /\ frontier[j] \o Appended(j, found, kept) \in Seq(Entry)
    BY <2>3, AppendedType
  <2>5. pages' \in [Jobs -> Seq(Urls)]
    <3>1. Final[current[j].url] \in Urls
      BY <2>4, UrlAssumption DEF Entry
    <3>2. pages[j] \in Seq(Urls)
      BY DEF Inv, TypeOK
    <3>3. Append(pages[j], Final[current[j].url]) \in Seq(Urls)
      BY <3>1, <3>2
    <3> QED BY <2>3, <3>3 DEF Inv, TypeOK
  <2>6. links' \in [Jobs -> SUBSET [from : Urls, depth : Nat, to : Urls]]
    <3>1. \A i \in DOMAIN found : Defrag[found[i]] \in Urls
      BY <2>4, UrlAssumption
    <3>2. current[j].url \in Urls /\ current[j].depth \in Nat
      BY <2>4 DEF Entry
    <3>3. {[from |-> current[j].url, depth |-> current[j].depth,
            to |-> Defrag[found[i]]] : i \in DOMAIN found}
              \subseteq [from : Urls, depth : Nat, to : Urls]
      BY <3>1, <3>2
    <3> QED BY <2>1, <3>3 DEF Inv, TypeOK
  <2>7. crawled' \in [Jobs -> Nat] /\ crawled[j] + 1 \in Nat
    BY <2>3 DEF Inv, TypeOK
  <2>8. /\ failed' \in [Jobs -> Nat] /\ denied' \in [Jobs -> SUBSET Urls]
        /\ job' = job /\ cancelling' = cancelling
    BY <2>3 DEF Inv, TypeOK, parameters
  <2> QED BY <2>2, <2>3, <2>4, <2>5, <2>6, <2>7, <2>8, ResumeLoop
<1>9. CASE ScrapeBlocked(j)
  <2>1. /\ pc[j] = "scrape" /\ ~cancelling[j] /\ Continue(j, frontier[j], crawled[j])
        /\ sem' = Release(sem)
        /\ UNCHANGED <<parameters, progress, cancelling, denied>>
    BY <1>9 DEF ScrapeBlocked, At
  <2> QED BY <1>0, <2>1, ResumeLoop DEF parameters, progress, Inv, TypeOK
<1>10. CASE ScrapeFailed(j)
  <2>1. /\ pc[j] = "scrape" /\ ~cancelling[j] /\ Continue(j, frontier[j], crawled[j])
        /\ sem' = Release(sem)
        /\ failed' = [failed EXCEPT ![j] = @ + 1]
        /\ UNCHANGED <<parameters, pages, crawled, links, cancelling, denied>>
    BY <1>10 DEF ScrapeFailed, At
  <2>2. failed' \in [Jobs -> Nat]
    BY <2>1 DEF Inv, TypeOK
  <2>3. /\ pages' \in [Jobs -> Seq(Urls)] /\ crawled' \in [Jobs -> Nat]
        /\ links' \in [Jobs -> SUBSET [from : Urls, depth : Nat, to : Urls]]
        /\ denied' \in [Jobs -> SUBSET Urls]
        /\ job' = job /\ cancelling' = cancelling
    BY <2>1 DEF parameters, Inv, TypeOK
  <2> QED BY <1>0, <2>1, <2>2, <2>3, ResumeLoop
<1>11. CASE Unwind(j)
  <2>1. /\ cancelling[j]
        /\ cancelling' = [cancelling EXCEPT ![j] = FALSE]
        /\ sem' = CASE pc[j] = "permit" -> GiveBack(sem, j)
                    [] pc[j] = "scrape" -> Release(sem)
                    [] OTHER -> sem
        /\ status' = [status EXCEPT ![j] = "cancelled"]
        /\ pc' = [pc EXCEPT ![j] = "done"]
        /\ UNCHANGED <<parameters, progress, walk, denied>>
    BY <1>11 DEF Unwind
  <2>2. /\ \A i \in Jobs \ {j} : pc'[i] = pc[i] /\ cancelling'[i] = cancelling[i]
        /\ pc' \in [Jobs -> PCs] /\ pc'[j] = "done"
    BY <2>1 DEF Inv, TypeOK, PCs
  <2>3. j \notin Queued(sem)
    BY <2>1 DEF Inv, SemOK
  <2>4. sem' \in Semaphores(Jobs) /\ SemOK'
    <3>1. CASE pc[j] = "permit"
      <4>1. /\ sem' \in Semaphores(Jobs)
            /\ Sound(sem')
            /\ Permits(sem') = Permits(sem)
            /\ Queued(sem') \cup sem'.woken = (Queued(sem) \cup sem.woken) \ {j}
            /\ Queued(sem') \subseteq Queued(sem)
        BY <1>0, <2>1, <2>3, <3>1, GiveBackKeeps
      <4>2. Permits(sem') + Holds(pc'[j]) = Permits(sem) + Holds(pc[j])
        BY <2>2, <3>1, <4>1 DEF Holds
      <4> QED BY <2>2, <4>1, <4>2, SemStep
    <3>2. CASE pc[j] = "scrape"
      BY <2>1, <2>2, <3>2, SemReleased
    <3>3. CASE pc[j] \notin {"permit", "scrape"}
      <4>1. sem' = sem
        BY <2>1, <3>3
      <4> QED BY <1>0, <2>2, <3>3, <4>1, SemStays
    <3> QED BY <3>1, <3>2, <3>3
  <2>5. TypeOK'
    BY <2>1, <2>2, <2>4 DEF Inv, TypeOK, Statuses, Semaphores, parameters, progress, walk
  <2>6. Shape'
    <3>1. pc[j] # "absent"
      BY <2>1 DEF Inv, Shape
    <3> QED BY <2>1, <2>2, <3>1 DEF Inv, TypeOK, Shape, InFlight, parameters, walk
  <2> QED BY <2>4, <2>5, <2>6 DEF Inv
<1> QED BY <1>1, <1>2, <1>3, <1>4, <1>5, <1>6, <1>7, <1>8, <1>9, <1>10, <1>11
        DEF Step

LEMMA CancelInv ==
  ASSUME Inv, NEW j \in Jobs, Cancel(j)
  PROVE  Inv'
<1>1. /\ status[j] # "absent"
      /\ status' = [status EXCEPT ![j] = "cancelled"]
      /\ cancelling' = [cancelling EXCEPT ![j] = pc[j] # "done"]
      /\ sem' = IF IsWaiting(sem, j) THEN Withdraw(sem, j) ELSE sem
      /\ UNCHANGED <<parameters, progress, walk, pc, denied>>
  BY DEF Cancel
<1>2. sem \in Semaphores(Jobs) /\ Sound(sem)
  BY DEF Inv, TypeOK, SemOK, Semaphores
<1>3. Permits(sem) \in Nat
  BY <1>2, FS_CardinalityType DEF Permits, Semaphores, Sound
<1>4. /\ sem' \in Semaphores(Jobs)
      /\ Sound(sem')
      /\ Permits(sem') = Permits(sem)
      /\ Queued(sem') = Queued(sem) \ {j}
      /\ sem'.woken = sem.woken
  <2>1. CASE IsWaiting(sem, j)
    BY <1>1, <1>2, <2>1, WithdrawKeeps
  <2>2. CASE ~IsWaiting(sem, j)
    <3>1. j \notin Queued(sem)
      BY <2>2 DEF Queued, IsWaiting
    <3> QED BY <1>1, <1>2, <2>2, <3>1
  <2> QED BY <2>1, <2>2
<1>5. \A i \in Jobs \ {j} : pc'[i] = pc[i] /\ cancelling'[i] = cancelling[i]
  BY <1>1 DEF Inv, TypeOK
<1>6. pc' = pc /\ pc' \in [Jobs -> PCs]
  BY <1>1 DEF Inv, TypeOK
<1>7. j \in sem.woken => pc'[j] = "permit"
  BY <1>6 DEF Inv, SemOK
<1>8. SemOK'
  BY <1>3, <1>4, <1>5, <1>6, <1>7, SemStep DEF Holds
<1>9. TypeOK'
  BY <1>1, <1>4 DEF Inv, TypeOK, Statuses, Semaphores, parameters, progress, walk
<1>10. Shape'
  BY <1>1 DEF Inv, TypeOK, Shape, InFlight, parameters, walk
<1> QED BY <1>8, <1>9, <1>10 DEF Inv

LEMMA InvInductive == Inv /\ [Next]_vars => Inv'
<1> SUFFICES ASSUME Inv, [Next]_vars PROVE Inv'
  OBVIOUS
<1>1. ASSUME NEW j \in Jobs, Step(j) PROVE Inv'
  BY <1>1, StepInv
<1>2. ASSUME NEW j \in Jobs, Client(j) PROVE Inv'
  <2>1. CASE Cancel(j)
    BY <2>1, CancelInv
  <2>2. CASE \E seed \in Urls, p \in AskedPages, d \in AskedDepths :
               CreateJob(j, seed, p, d)
    BY <2>2, CreateType
  <2> QED BY <1>2, <2>1, <2>2 DEF Client
<1>3. CASE UNCHANGED vars
  BY <1>3 DEF vars, Inv, TypeOK, Shape, SemOK, PermitsConserved, Scraping,
              Sound, Queued
<1> QED BY <1>1, <1>2, <1>3 DEF Next

LEMMA InvAlways == Spec => []Inv
BY InvInit, InvInductive, PTL DEF Spec

(* Every state of the crawl manager has its type.                            *)
THEOREM Typing == Spec => []TypeOK
<1>1. Inv => TypeOK
  BY DEF Inv
<1> QED BY <1>1, InvAlways, PTL

(* For any number of jobs, permits and DELETEs, no permit is lost and none   *)
(* is invented: free, promised and used ones add up to CRAWL_MAX_CONCURRENCY.*)
THEOREM PermitsAlwaysConserved == Spec => []PermitsConserved
<1>1. Inv => PermitsConserved
  BY DEF Inv, SemOK
<1> QED BY <1>1, InvAlways, PTL

-----------------------------------------------------------------------------
(* The order of the crawl.                                                   *)

(* The frontier is a window of two depths, sorted: what the loop pops next   *)
(* is never shallower than what it popped before.                            *)
QueueOK(j, queue, d) ==
  /\ \A k \in DOMAIN queue :
       /\ d <= queue[k].depth
       /\ queue[k].depth <= d + 1
       /\ queue[k].depth <= job[j].max_depth
       /\ queue[k].depth > 0 => Follows(j, Defrag[queue[k].url])
  /\ \A k, m \in DOMAIN queue : k < m => queue[k].depth <= queue[m].depth

(* A link worth following leads to a visited page or to one in the frontier. *)
Pending(j, found, queue) ==
  \A l \in found :
    l.depth < job[j].max_depth /\ Follows(j, l.to) =>
      \/ l.to \in visited[j]
      \/ \E k \in DOMAIN queue : /\ Defrag[queue[k].url] = l.to
                                 /\ queue[k].depth <= l.depth + 1

LogBelow(j, d) == \A i \in DOMAIN log[j] : log[j][i].depth <= d

LogOK(j, found) ==
  /\ \A i \in DOMAIN log[j] : log[j][i].url \in visited[j]
  /\ \A i, k \in DOMAIN log[j] :
       i < k => /\ log[j][i].depth <= log[j][k].depth
                /\ log[j][i].url # log[j][k].url
  /\ \A l \in found : \A i \in DOMAIN log[j] :
       log[j][i].url = l.to => log[j][i].depth <= l.depth + 1

Closed(j) ==
  status[j] = "completed" /\ crawled[j] < job[j].max_pages =>
    \A l \in links[j] :
      l.depth < job[j].max_depth /\ Follows(j, l.to) => l.to \in visited[j]

WalkOK(j) ==
  /\ pc[j] \in {"absent", "created"} =>
       /\ log[j] = <<>> /\ visited[j] = {} /\ links[j] = {} /\ denied[j] = {}
       /\ crawled[j] = 0
  /\ LogBelow(j, job[j].max_depth)
  /\ LogOK(j, links[j])
  /\ denied[j] \subseteq visited[j]
  /\ pc[j] \in InFlight =>
       /\ current[j].depth <= job[j].max_depth
       /\ current[j].url \in visited[j] \ denied[j]
       /\ LogBelow(j, current[j].depth)
       /\ QueueOK(j, frontier[j], current[j].depth)
       /\ Pending(j, links[j], frontier[j])
  /\ Closed(j)

Walk == \A j \in Jobs : WalkOK(j)

LEMMA AdvanceWalk ==
  ASSUME Inv, NEW j \in Jobs, pc[j] # "absent",
         NEW queue \in Seq(Entry), NEW count \in Nat, NEW d \in Nat,
         Advance(j, queue, count), job' = job,
         links' \in [Jobs -> SUBSET [from : Urls, depth : Nat, to : Urls]],
         LogOK(j, links'[j]), LogBelow(j, d), d <= job[j].max_depth,
         QueueOK(j, queue, d), Pending(j, links'[j], queue),
         denied'[j] \subseteq visited[j]
  PROVE  WalkOK(j)'
<1>1. PICK i \in Fresh(j, queue) :
        LET page == [url |-> Defrag[queue[i].url], depth |-> queue[i].depth]
        IN  /\ \A k \in Fresh(j, queue) : i <= k
            /\ current' = [current EXCEPT ![j] = page]
            /\ visited' = [visited EXCEPT ![j] = @ \cup {page.url}]
            /\ frontier' = [frontier EXCEPT ![j] =
                              SubSeq(queue, i + 1, Len(queue))]
            /\ log' = [log EXCEPT ![j] = Append(@, page)]
  BY DEF Advance
<1> DEFINE page == [url |-> Defrag[queue[i].url], depth |-> queue[i].depth]
           n == Len(log[j])
           max == job[j].max_depth
<1>2. /\ i \in 1..Len(queue) /\ queue[i] \in Entry
      /\ page.url \notin visited[j] /\ page.depth <= max
      /\ Len(queue) \in Nat
  BY DEF Fresh
<1>3. page \in Entry /\ page.url \in Urls /\ page.depth \in Nat
  BY <1>2, UrlAssumption DEF Entry
<1>4. max \in Nat
  BY DEF Inv, Shape, Parameters
<1>5. log[j] \in Seq(Entry) /\ n \in Nat /\ \A k \in 1..n : log[j][k].depth \in Nat
  <2>1. log[j] \in Seq(Entry)
    BY DEF Inv, TypeOK
  <2>2. n \in Nat /\ \A k \in 1..n : log[j][k] \in Entry
    BY <2>1, LenProperties, ElementOfSeq
  <2> QED BY <2>1, <2>2 DEF Entry
<1>6. /\ d <= page.depth /\ page.depth <= d + 1
      /\ page.depth > 0 => Follows(j, page.url)
      /\ \A m \in DOMAIN queue : i < m => page.depth <= queue[m].depth
  BY <1>2 DEF QueueOK
<1>7. \A k \in 1..Len(queue) : queue[k].depth \in Nat /\ Defrag[queue[k].url] \in Urls
  <2>1. \A k \in 1..Len(queue) : queue[k] \in Entry
    BY ElementOfSeq
  <2>2. \A e \in Entry : e.depth \in Nat /\ Defrag[e.url] \in Urls
    BY UrlAssumption DEF Entry
  <2> QED BY <2>1, <2>2
<1>8. /\ current'[j] = page
      /\ visited'[j] = visited[j] \cup {page.url}
      /\ frontier'[j] = SubSeq(queue, i + 1, Len(queue))
      /\ log'[j] = Append(log[j], page)
      /\ status'[j] = "running" /\ pc'[j] = "validate"
  BY <1>1 DEF Advance, Inv, TypeOK
<1>9. \A k \in 1..Len(queue) :
        k < i => Defrag[queue[k].url] \in visited[j]
  BY <1>1, <1>2, <1>7 DEF Fresh, QueueOK
<1> HIDE DEF page, max
<1>10. /\ Len(frontier'[j]) = Len(queue) - i
       /\ DOMAIN frontier'[j] = 1..(Len(queue) - i)
       /\ \A k \in 1..(Len(queue) - i) : frontier'[j][k] = queue[k + i]
  <2>1. \A k \in (i + 1)..Len(queue) : queue[k] \in Entry
    BY <1>2
  <2>2. i + 1 \in Int /\ Len(queue) \in Int
    BY <1>2
  <2> DEFINE rest == SubSeq(queue, i + 1, Len(queue))
  <2>3. /\ rest \in Seq(Entry)
        /\ Len(rest) = IF i + 1 <= Len(queue)
                       THEN Len(queue) - (i + 1) + 1 ELSE 0
        /\ \A k \in 1..(Len(queue) - (i + 1) + 1) :
             rest[k] = queue[(i + 1) + k - 1]
    BY <2>1, <2>2, SubSeqProperties
  <2> HIDE DEF rest
  <2>4. \A k \in 1..(Len(queue) - i) : rest[k] = queue[k + i]
    <3> SUFFICES ASSUME NEW k \in 1..(Len(queue) - i) PROVE rest[k] = queue[k + i]
      OBVIOUS
    <3>1. k \in 1..(Len(queue) - (i + 1) + 1) /\ (i + 1) + k - 1 = k + i
      BY <1>2
    <3> QED BY <2>3, <3>1
  <2>5. Len(rest) = Len(queue) - i
    BY <1>2, <2>3
  <2> QED BY <1>8, <2>3, <2>4, <2>5, LenProperties DEF rest
<1>11. /\ DOMAIN log'[j] = 1..(n + 1)
       /\ \A k \in 1..n : log'[j][k] = log[j][k]
       /\ log'[j][n + 1] = page
  BY <1>3, <1>5, <1>8
<1>12. DOMAIN log[j] = 1..n
  BY <1>5
<1> HIDE DEF n
<1>13. LogBelow(j, page.depth)'
  <2>1. \A k \in 1..n : log[j][k].depth <= page.depth
    BY <1>3, <1>5, <1>6, <1>12 DEF LogBelow
  <2>2. \A k \in 1..(n + 1) : log'[j][k].depth <= page.depth
    BY <1>3, <1>5, <1>11, <2>1
  <2> QED BY <1>11, <2>2 DEF LogBelow, page
<1>14. \A l \in links'[j] : page.url = l.to => page.depth <= l.depth + 1
  <2> SUFFICES ASSUME NEW l \in links'[j], page.url = l.to
               PROVE  page.depth <= l.depth + 1
    OBVIOUS
  <2>1. l.depth \in Nat
    OBVIOUS
  <2>2. CASE page.depth = 0
    BY <2>1, <2>2
  <2>3. CASE l.depth >= max
    BY <1>2, <1>3, <1>4, <2>1, <2>3
  <2>4. CASE page.depth > 0 /\ l.depth < max
    <3>1. Follows(j, l.to) /\ l.to \notin visited[j]
      BY <1>2, <1>6, <2>4
    <3>2. PICK k \in DOMAIN queue : /\ Defrag[queue[k].url] = l.to
                                    /\ queue[k].depth <= l.depth + 1
      BY <2>4, <3>1 DEF Pending, max
    <3>3. k \in Fresh(j, queue)
      BY <3>1, <3>2 DEF Fresh, QueueOK
    <3>4. i <= k
      BY <1>1, <3>3
    <3>5. page.depth <= queue[k].depth
      BY <1>2, <1>6, <1>7, <3>4 DEF page
    <3> QED BY <1>3, <1>7, <2>1, <3>2, <3>5
  <2> QED BY <1>3, <1>4, <2>1, <2>2, <2>3, <2>4
<1>15. LogOK(j, links[j])'
  <2>1. \A k \in DOMAIN log'[j] : log'[j][k].url \in visited'[j]
    BY <1>5, <1>8, <1>11, <1>12 DEF LogOK
  <2>2. ASSUME NEW k \in DOMAIN log'[j], NEW m \in DOMAIN log'[j], k < m
        PROVE  /\ log'[j][k].depth <= log'[j][m].depth
               /\ log'[j][k].url # log'[j][m].url
    <3>1. k \in 1..n
      BY <1>5, <1>11, <2>2
    <3>2. CASE m \in 1..n
      BY <1>11, <1>12, <2>2, <3>1, <3>2 DEF LogOK
    <3>3. CASE m = n + 1
      <4>1. log[j][k].url \in visited[j] /\ log[j][k].depth <= d
        BY <1>12, <3>1 DEF LogOK, LogBelow
      <4>2. log'[j][k] = log[j][k] /\ log'[j][m] = page
        BY <1>11, <3>1, <3>3
      <4>3. log[j][k].depth \in Nat
        BY <1>5, <3>1 DEF n
      <4>4. log[j][k].depth <= page.depth
        BY <1>3, <1>6, <4>1, <4>3
      <4> QED BY <1>2, <4>1, <4>2, <4>4
    <3> QED BY <1>5, <1>11, <3>2, <3>3
  <2>3. ASSUME NEW l \in links'[j], NEW k \in DOMAIN log'[j], log'[j][k].url = l.to
        PROVE  log'[j][k].depth <= l.depth + 1
    <3>1. CASE k \in 1..n
      BY <1>11, <1>12, <2>3, <3>1 DEF LogOK
    <3>2. CASE k = n + 1
      BY <1>11, <1>14, <2>3, <3>2
    <3> QED BY <1>5, <1>11, <3>1, <3>2
  <2> QED BY <2>1, <2>2, <2>3 DEF LogOK
<1>16. LogBelow(j, job[j].max_depth)'
  <2>1. \A k \in DOMAIN log'[j] : log'[j][k].depth <= page.depth
    BY <1>13 DEF LogBelow
  <2>2. \A k \in DOMAIN log'[j] : log'[j][k].depth \in Nat
    BY <1>3, <1>5, <1>11
  <2> QED BY <1>2, <1>3, <1>4, <2>1, <2>2 DEF LogBelow, max
<1>17. QueueOK(j, frontier[j], page.depth)'
  <2>1. ASSUME NEW k \in DOMAIN frontier'[j]
        PROVE  /\ page.depth <= frontier'[j][k].depth
               /\ frontier'[j][k].depth <= page.depth + 1
               /\ frontier'[j][k].depth <= max
               /\ frontier'[j][k].depth > 0 => Follows(j, Defrag[frontier'[j][k].url])
    <3>1. k + i \in 1..Len(queue) /\ frontier'[j][k] = queue[k + i] /\ i < k + i
      BY <1>2, <1>10
    <3>2. /\ page.depth <= queue[k + i].depth
          /\ queue[k + i].depth <= d + 1
          /\ queue[k + i].depth <= max
          /\ queue[k + i].depth > 0 => Follows(j, Defrag[queue[k + i].url])
      BY <1>6, <3>1 DEF QueueOK, max
    <3> QED BY <1>3, <1>6, <1>7, <3>1, <3>2
  <2>2. ASSUME NEW k \in DOMAIN frontier'[j], NEW m \in DOMAIN frontier'[j], k < m
        PROVE  frontier'[j][k].depth <= frontier'[j][m].depth
    <3>1. /\ k + i \in 1..Len(queue) /\ m + i \in 1..Len(queue) /\ k + i < m + i
          /\ frontier'[j][k] = queue[k + i] /\ frontier'[j][m] = queue[m + i]
      <4>1. k \in 1..(Len(queue) - i) /\ m \in 1..(Len(queue) - i)
        BY <1>10
      <4>2. frontier'[j][k] = queue[k + i] /\ frontier'[j][m] = queue[m + i]
        BY <1>10, <4>1
      <4>3. /\ k + i \in 1..Len(queue) /\ m + i \in 1..Len(queue)
            /\ k + i < m + i
        BY <1>2, <2>2, <4>1
      <4> QED BY <4>2, <4>3
    <3> QED BY <3>1 DEF QueueOK
  <2> QED BY <2>1, <2>2 DEF QueueOK, Follows, max, page
<1>18. Pending(j, links[j], frontier[j])'
  <2> SUFFICES ASSUME NEW l \in links'[j], l.depth < max, Follows(j, l.to),
                      l.to \notin visited'[j]
               PROVE  \E k \in DOMAIN frontier'[j] :
                        /\ Defrag[frontier'[j][k].url] = l.to
                        /\ frontier'[j][k].depth <= l.depth + 1
    BY DEF Pending, Follows, max
  <2>1. PICK k \in DOMAIN queue : /\ Defrag[queue[k].url] = l.to
                                  /\ queue[k].depth <= l.depth + 1
    BY <1>8 DEF Pending, max
  <2>2. k > i
    <3>1. k \in 1..Len(queue)
      BY <2>1
    <3>2. page.url = Defrag[queue[i].url]
      BY DEF page
    <3>3. l.to \notin visited[j] /\ l.to # page.url
      BY <1>8
    <3>4. k # i
      BY <2>1, <3>2, <3>3
    <3>5. ~(k < i)
      BY <1>9, <2>1, <3>1, <3>3
    <3> QED BY <1>2, <3>1, <3>4, <3>5
  <2>3. k - i \in 1..(Len(queue) - i) /\ (k - i) + i = k
    BY <1>2, <2>1, <2>2
  <2> QED BY <1>10, <2>1, <2>3
<1>19. /\ denied'[j] \subseteq visited'[j]
       /\ current'[j].url \in visited'[j] \ denied'[j]
  BY <1>2, <1>8
<1>20. current'[j].depth <= job'[j].max_depth
  BY <1>2, <1>8 DEF max
<1> QED BY <1>8, <1>13, <1>15, <1>16, <1>17, <1>18, <1>19, <1>20
        DEF WalkOK, Closed, LogBelow, QueueOK

LEMMA CompleteWalk ==
  ASSUME Inv, NEW j \in Jobs, pc[j] # "absent",
         NEW queue \in Seq(Entry), NEW count \in Nat,
         Complete(j, queue, count), job' = job, crawled'[j] = count,
         LogOK(j, links'[j]), LogBelow(j, job[j].max_depth),
         \A k \in DOMAIN queue : queue[k].depth <= job[j].max_depth,
         Pending(j, links'[j], queue),
         denied'[j] \subseteq visited[j]
  PROVE  WalkOK(j)'
<1>1. /\ UNCHANGED <<current, visited, log>>
      /\ pc'[j] = "done"
      /\ count >= job[j].max_pages \/ Fresh(j, queue) = {}
  BY DEF Complete, Inv, TypeOK
<1>2. job[j].max_pages \in Nat
  BY DEF Inv, Shape, Parameters
<1>3. LogOK(j, links[j])'
  BY <1>1 DEF LogOK
<1>4. LogBelow(j, job[j].max_depth)'
  BY <1>1 DEF LogBelow
<1>5. Closed(j)'
  <2> SUFFICES ASSUME count < job[j].max_pages, NEW l \in links'[j],
                      l.depth < job[j].max_depth, Follows(j, l.to)
               PROVE  l.to \in visited'[j]
    BY DEF Closed, Follows
  <2>1. Fresh(j, queue) = {}
    BY <1>1, <1>2
  <2> QED BY <1>1, <2>1 DEF Pending, Fresh
<1> QED BY <1>1, <1>3, <1>4, <1>5 DEF WalkOK, InFlight

(* A job that neither walks nor learns anything keeps what it knows.         *)
LEMMA SameWalk ==
  ASSUME Inv, NEW j \in Jobs, WalkOK(j),
         job'[j] = job[j], visited'[j] = visited[j], frontier'[j] = frontier[j],
         current'[j] = current[j], log'[j] = log[j], links'[j] = links[j],
         denied'[j] = denied[j], crawled'[j] = crawled[j],
         pc'[j] \in InFlight => pc[j] \in InFlight,
         pc'[j] \in {"absent", "created"} => pc[j] \in {"absent", "created"},
         status'[j] = "completed" => status[j] = "completed"
  PROVE  WalkOK(j)'
BY DEF WalkOK, LogOK, LogBelow, QueueOK, Pending, Closed, Follows

LEMMA LoopWalk ==
  ASSUME Inv, NEW j \in Jobs, pc[j] # "absent",
         NEW queue \in Seq(Entry), NEW count \in Nat, NEW d \in Nat,
         Continue(j, queue, count), job' = job, crawled'[j] = count,
         links' \in [Jobs -> SUBSET [from : Urls, depth : Nat, to : Urls]],
         LogOK(j, links'[j]), LogBelow(j, d), d <= job[j].max_depth,
         LogBelow(j, job[j].max_depth),
         QueueOK(j, queue, d), Pending(j, links'[j], queue),
         denied'[j] \subseteq visited[j]
  PROVE  WalkOK(j)'
<1>1. CASE Advance(j, queue, count)
  BY <1>1, AdvanceWalk
<1>2. CASE Complete(j, queue, count)
  <2>1. \A k \in DOMAIN queue : queue[k].depth <= job[j].max_depth
    BY DEF QueueOK
  <2> QED BY <1>2, <2>1, CompleteWalk
<1> QED BY <1>1, <1>2 DEF Continue

(* The other jobs do not notice.                                             *)
LEMMA OthersWalk ==
  ASSUME Inv, Walk, NEW j \in Jobs, NEW i \in Jobs \ {j},
         job'[i] = job[i], visited'[i] = visited[i], frontier'[i] = frontier[i],
         current'[i] = current[i], log'[i] = log[i], links'[i] = links[i],
         denied'[i] = denied[i], crawled'[i] = crawled[i], pc'[i] = pc[i],
         status'[i] = status[i]
  PROVE  WalkOK(i)'
BY SameWalk DEF Walk

LEMMA ContinueOthers ==
  ASSUME Inv, NEW j \in Jobs, NEW i \in Jobs \ {j},
         NEW queue, NEW count, Continue(j, queue, count)
  PROVE  /\ visited'[i] = visited[i] /\ frontier'[i] = frontier[i]
         /\ current'[i] = current[i] /\ log'[i] = log[i]
         /\ pc'[i] = pc[i] /\ status'[i] = status[i]
<1>1. CASE Advance(j, queue, count)
  BY <1>1 DEF Advance, Inv, TypeOK
<1>2. CASE Complete(j, queue, count)
  BY <1>2 DEF Complete, Inv, TypeOK
<1> QED BY <1>1, <1>2 DEF Continue

(* The links of a page keep the frontier a window, and none worth following  *)
(* is forgotten.                                                             *)
FoundOn(j, found) ==
  {[from |-> current[j].url, depth |-> current[j].depth,
    to |-> Defrag[found[i]]] : i \in DOMAIN found}

LEMMA AppendedWalk ==
  ASSUME Inv, NEW j \in Jobs, WalkOK(j), pc[j] = "scrape",
         NEW found \in PageLinks[current[j].url],
         NEW kept \in Enumerations(Kept(j, found))
  PROVE  LET queue == frontier[j] \o Appended(j, found, kept)
             known == links[j] \cup FoundOn(j, found)
         IN  /\ QueueOK(j, queue, current[j].depth)
             /\ Pending(j, known, queue)
             /\ LogOK(j, known)
<1> DEFINE queue == frontier[j] \o Appended(j, found, kept)
           known == links[j] \cup FoundOn(j, found)
           d == current[j].depth
           max == job[j].max_depth
           n == Cardinality(Kept(j, found))
           old == Len(frontier[j])
           entry(i) == [url |-> Defrag[found[kept[i]]], depth |-> d + 1]
<1>1. /\ current[j] \in Entry
      /\ found \in Seq(Urls)
      /\ n \in Nat
      /\ Appended(j, found, kept) \in Seq(Entry)
      /\ queue \in Seq(Entry)
  BY AppendedType
<1>2. /\ frontier[j] \in Seq(Entry) /\ old \in Nat
      /\ d \in Nat /\ max \in Nat
  BY <1>1 DEF Inv, TypeOK, Shape, InFlight, Parameters, Entry
<1>3. /\ QueueOK(j, frontier[j], d)
      /\ Pending(j, links[j], frontier[j])
      /\ LogBelow(j, d)
      /\ LogOK(j, links[j])
      /\ d <= max
  BY DEF WalkOK, InFlight
<1>4. kept \in [1..n -> Kept(j, found)]
      /\ \A i, k \in 1..n : i < k => kept[i] < kept[k]
  BY DEF Enumerations
<1>5. Kept(j, found) \subseteq 1..Len(found) /\ IsFiniteSet(Kept(j, found))
  <2> HIDE DEF queue, known, d, max, n, old, entry
  <2>1. DOMAIN found = 1..Len(found) /\ Len(found) \in Nat
    BY <1>1, LenProperties
  <2>2. Kept(j, found) \subseteq DOMAIN found
    BY DEF Kept
  <2>3. IsFiniteSet(1..Len(found))
    BY <2>1, FS_Interval
  <2> QED BY <2>1, <2>2, <2>3, FS_Subset
<1>6. \A m \in Kept(j, found) : \E i \in 1..n : kept[i] = m
  <2>1. IsFiniteSet(1..n) /\ Cardinality(1..n) = n
    BY <1>1, FS_Interval
  <2>2. kept \in Injection(1..n, Kept(j, found))
    <3>1. ASSUME NEW i \in 1..n, NEW k \in 1..n, kept[i] = kept[k]
          PROVE  i = k
      <4>1. kept[i] \in Nat /\ kept[k] \in Nat
        BY <1>4, <1>5
      <4> QED BY <1>1, <1>4, <3>1, <4>1
    <3> QED BY <1>4, <3>1 DEF Injection, IsInjective
  <2>3. kept \in Surjection(1..n, Kept(j, found))
    BY <1>5, <2>1, <2>2, FS_Injection
  <2> QED BY <2>3 DEF Surjection
<1>7. /\ Len(Appended(j, found, kept)) = n
      /\ \A i \in 1..n : Appended(j, found, kept)[i] = entry(i)
  BY <1>1, LenProperties DEF Appended
<1>8. /\ DOMAIN queue = 1..(old + n)
      /\ \A k \in 1..old : queue[k] = frontier[j][k]
      /\ \A i \in 1..n : queue[old + i] = entry(i)
      /\ \A k \in 1..(old + n) : k \notin 1..old =>
           k - old \in 1..n /\ queue[k] = entry(k - old)
  <2>1. /\ Len(queue) = old + n
        /\ \A k \in 1..(old + n) :
             queue[k] = IF k <= old THEN frontier[j][k]
                                    ELSE Appended(j, found, kept)[k - old]
    <3> DEFINE more == Appended(j, found, kept)
    <3>1. /\ Len(frontier[j] \o more) = Len(frontier[j]) + Len(more)
          /\ \A k \in 1..(Len(frontier[j]) + Len(more)) :
               (frontier[j] \o more)[k] = IF k <= Len(frontier[j])
                                          THEN frontier[j][k]
                                          ELSE more[k - Len(frontier[j])]
      BY <1>1, <1>2, ConcatProperties
    <3> HIDE DEF more
    <3> QED BY <1>7, <3>1 DEF more
  <2>2. DOMAIN queue = 1..(old + n)
    BY <1>1, <2>1, LenProperties
  <2> HIDE DEF queue, n, old, entry
  <2>3. \A k \in 1..old : queue[k] = frontier[j][k]
    BY <1>1, <1>2, <2>1
  <2>4. \A k \in 1..(old + n) : k \notin 1..old =>
           k - old \in 1..n /\ queue[k] = entry(k - old)
    <3> SUFFICES ASSUME NEW k \in 1..(old + n), k \notin 1..old
                 PROVE  k - old \in 1..n /\ queue[k] = entry(k - old)
      OBVIOUS
    <3>1. k - old \in 1..n /\ ~(k <= old)
      BY <1>1, <1>2
    <3>2. queue[k] = Appended(j, found, kept)[k - old]
      BY <2>1, <3>1
    <3> QED BY <1>7, <3>1, <3>2
  <2>5. \A i \in 1..n : queue[old + i] = entry(i)
    <3> SUFFICES ASSUME NEW i \in 1..n PROVE queue[old + i] = entry(i)
      OBVIOUS
    <3>1. old + i \in 1..(old + n) /\ old + i \notin 1..old /\ (old + i) - old = i
      BY <1>1, <1>2
    <3> QED BY <2>4, <3>1
  <2> QED BY <2>2, <2>3, <2>4, <2>5
<1>9. \A i \in 1..n : /\ Follows(j, Defrag[found[kept[i]]])
                      /\ d < max
                      /\ Defrag[Defrag[found[kept[i]]]] = Defrag[found[kept[i]]]
  <2> SUFFICES ASSUME NEW i \in 1..n
               PROVE  /\ Follows(j, Defrag[found[kept[i]]])
                      /\ d < max
                      /\ Defrag[Defrag[found[kept[i]]]] = Defrag[found[kept[i]]]
    OBVIOUS
  <2>1. kept[i] \in Kept(j, found) /\ kept[i] \in 1..Len(found)
    BY <1>4, <1>5
  <2>2. found[kept[i]] \in Urls
    BY <1>1, <2>1
  <2> QED BY <2>1, <2>2, UrlAssumption DEF Kept
<1> HIDE DEF queue, n, old
<1>10. QueueOK(j, queue, d)
  <2>1. ASSUME NEW k \in 1..(old + n)
        PROVE  /\ d <= queue[k].depth
               /\ queue[k].depth <= d + 1
               /\ queue[k].depth <= max
               /\ queue[k].depth > 0 => Follows(j, Defrag[queue[k].url])
    <3>1. CASE k \in 1..old
      BY <1>2, <1>3, <1>8, <3>1 DEF QueueOK, old
    <3>2. CASE k \notin 1..old
      <4>1. k - old \in 1..n /\ queue[k] = entry(k - old)
        BY <1>8, <2>1, <3>2
      <4> QED BY <1>2, <1>9, <4>1
    <3> QED BY <3>1, <3>2
  <2>2. ASSUME NEW k \in 1..(old + n), NEW m \in 1..(old + n), k < m
        PROVE  queue[k].depth <= queue[m].depth
    <3>1. CASE m \in 1..old
      <4>1. k \in 1..old
        BY <1>2, <2>2, <3>1
      <4>2. queue[k] = frontier[j][k] /\ queue[m] = frontier[j][m]
        BY <1>8, <3>1, <4>1
      <4> QED BY <1>2, <1>3, <2>2, <3>1, <4>1, <4>2 DEF QueueOK, old
    <3>2. CASE m \notin 1..old
      <4>1. queue[m].depth = d + 1
        BY <1>8, <2>2, <3>2
      <4> QED BY <2>1, <4>1
    <3> QED BY <3>1, <3>2
  <2> QED BY <1>8, <2>1, <2>2 DEF QueueOK
<1>11. Pending(j, known, queue)
  <2> SUFFICES ASSUME NEW l \in known, l.depth < max, Follows(j, l.to),
                      l.to \notin visited[j]
               PROVE  \E k \in DOMAIN queue : /\ Defrag[queue[k].url] = l.to
                                              /\ queue[k].depth <= l.depth + 1
    BY DEF Pending
  <2>1. CASE l \in links[j]
    <3>1. PICK k \in DOMAIN frontier[j] :
            /\ Defrag[frontier[j][k].url] = l.to
            /\ frontier[j][k].depth <= l.depth + 1
      BY <1>3, <2>1 DEF Pending
    <3>2. k \in 1..old /\ k \in 1..(old + n)
      BY <1>1, <1>2 DEF old, n
    <3> QED BY <1>8, <3>1, <3>2
  <2>2. CASE l \in FoundOn(j, found)
    <3>1. PICK m \in DOMAIN found :
            l = [from |-> current[j].url, depth |-> d, to |-> Defrag[found[m]]]
      BY <2>2 DEF FoundOn
    <3>2. m \in Kept(j, found)
      BY <3>1 DEF Kept
    <3>3. PICK i \in 1..n : kept[i] = m
      BY <1>6, <3>2
    <3>4. old + i \in 1..(old + n)
      BY <1>1, <1>2 DEF old, n
    <3>5. queue[old + i] = entry(i)
      BY <1>8
    <3>6. Defrag[queue[old + i].url] = l.to /\ queue[old + i].depth <= l.depth + 1
      BY <1>2, <1>9, <3>1, <3>3, <3>5
    <3> QED BY <1>8, <3>4, <3>6
  <2> QED BY <2>1, <2>2
<1>12. LogOK(j, known)
  <2>1. ASSUME NEW l \in FoundOn(j, found), NEW i \in DOMAIN log[j]
        PROVE  log[j][i].depth <= l.depth + 1
    <3>1. log[j] \in Seq(Entry)
      BY DEF Inv, TypeOK
    <3>2. log[j][i].depth \in Nat
      <4>1. log[j][i] \in Entry
        BY <3>1, ElementOfSeq
      <4> QED BY <4>1 DEF Entry
    <3>3. l.depth = d
      BY DEF FoundOn
    <3> QED BY <1>2, <1>3, <3>2, <3>3 DEF LogBelow
  <2> QED BY <1>3, <2>1 DEF LogOK
<1> QED BY <1>10, <1>11, <1>12 DEF queue

-----------------------------------------------------------------------------
(* The steps that go on with the loop on the frontier as it is.              *)
LEMMA SkipWalk ==
  ASSUME Inv, Walk, NEW j \in Jobs, pc[j] \in InFlight,
         Continue(j, frontier[j], crawled[j]),
         UNCHANGED <<job, crawled, links>>,
         denied'[j] \subseteq visited[j],
         \A i \in Jobs \ {j} : denied'[i] = denied[i]
  PROVE  Walk'
<1>1. WalkOK(j)
  BY DEF Walk
<1>2. /\ frontier[j] \in Seq(Entry) /\ crawled[j] \in Nat
      /\ current[j].depth \in Nat
      /\ links \in [Jobs -> SUBSET [from : Urls, depth : Nat, to : Urls]]
  BY DEF Inv, TypeOK, Shape, Entry
<1>3. /\ LogOK(j, links'[j])
      /\ LogBelow(j, current[j].depth)
      /\ current[j].depth <= job[j].max_depth
      /\ LogBelow(j, job[j].max_depth)
      /\ QueueOK(j, frontier[j], current[j].depth)
      /\ Pending(j, links'[j], frontier[j])
  BY <1>1 DEF WalkOK
<1>4. pc[j] # "absent"
  BY DEF InFlight
<1>5. WalkOK(j)'
  BY <1>2, <1>3, <1>4, LoopWalk
<1>6. ASSUME NEW i \in Jobs \ {j} PROVE WalkOK(i)'
  BY <1>2, ContinueOthers, OthersWalk
<1> QED BY <1>5, <1>6 DEF Walk

LEMMA WalkStep ==
  ASSUME Inv, Walk, NEW j \in Jobs, Step(j)
  PROVE  Walk'
<1> USE DEF parameters, progress, walk
<1>0. WalkOK(j) /\ frontier[j] \in Seq(Entry) /\ crawled[j] \in Nat
  BY DEF Walk, Inv, TypeOK
<1>1. CASE Start(j)
  <2> DEFINE queue == <<[url |-> job[j].seed, depth |-> 0]>>
  <2>1. /\ pc[j] = "created"
        /\ Continue(j, queue, 0)
        /\ UNCHANGED <<job, pages, crawled, failed, links, denied>>
    BY <1>1 DEF Start, At
  <2>2. job[j] \in Parameters
    BY <2>1 DEF Inv, Shape
  <2>3. queue \in Seq(Entry)
    BY <2>2 DEF Parameters, Entry
  <2>4. /\ log[j] = <<>> /\ links[j] = {} /\ denied[j] = {} /\ crawled[j] = 0
        /\ links \in [Jobs -> SUBSET [from : Urls, depth : Nat, to : Urls]]
    BY <1>0, <2>1 DEF WalkOK, Inv, TypeOK
  <2>5. LogOK(j, links'[j]) /\ LogBelow(j, 0) /\ LogBelow(j, job[j].max_depth)
    BY <2>1, <2>4 DEF LogOK, LogBelow
  <2>6. QueueOK(j, queue, 0) /\ Pending(j, links'[j], queue)
    BY <2>1, <2>2, <2>4 DEF QueueOK, Pending, Parameters
  <2>7. job[j].max_depth \in Nat /\ 0 <= job[j].max_depth
    BY <2>2 DEF Parameters
  <2> HIDE DEF queue
  <2>8. WalkOK(j)'
    <3>1. /\ pc[j] # "absent" /\ crawled'[j] = 0 /\ denied'[j] \subseteq visited[j]
          /\ links' \in [Jobs -> SUBSET [from : Urls, depth : Nat, to : Urls]]
          /\ 0 \in Nat
      BY <2>1, <2>4
    <3> QED BY <2>1, <2>3, <2>5, <2>6, <2>7, <3>1, LoopWalk
  <2>9. ASSUME NEW i \in Jobs \ {j} PROVE WalkOK(i)'
    BY <2>1, ContinueOthers, OthersWalk
  <2> QED BY <2>8, <2>9 DEF Walk
<1>2. CASE ValidateBlocked(j) \/ ScrapeBlocked(j) \/ ScrapeFailed(j)
  <2>1. /\ pc[j] \in InFlight
        /\ Continue(j, frontier[j], crawled[j])
        /\ UNCHANGED <<job, crawled, links, denied>>
    BY <1>2 DEF ValidateBlocked, ScrapeBlocked, ScrapeFailed, At, InFlight
  <2>2. denied[j] \subseteq visited[j]
    BY <1>0 DEF WalkOK
  <2> QED BY <2>1, <2>2, SkipWalk
<1>3. CASE RobotsDeny(j)
  <2>1. /\ pc[j] \in InFlight
        /\ denied' = [denied EXCEPT ![j] = @ \cup {current[j].url}]
        /\ Continue(j, frontier[j], crawled[j])
        /\ UNCHANGED <<job, crawled, links>>
    BY <1>3 DEF RobotsDeny, At, InFlight
  <2>2. denied[j] \cup {current[j].url} \subseteq visited[j]
    BY <1>0, <2>1 DEF WalkOK
  <2>3. denied \in [Jobs -> SUBSET Urls]
    BY DEF Inv, TypeOK
  <2> QED BY <2>1, <2>2, <2>3, SkipWalk
<1>4. CASE ScrapeOk(j)
  <2>1. PICK found \in PageLinks[current[j].url] :
          /\ links' = [links EXCEPT ![j] = @ \cup FoundOn(j, found)]
          /\ \E kept \in Enumerations(Kept(j, found)) :
               Continue(j, frontier[j] \o Appended(j, found, kept), crawled[j] + 1)
    BY <1>4 DEF ScrapeOk, FoundOn, Appended
  <2>2. PICK kept \in Enumerations(Kept(j, found)) :
          Continue(j, frontier[j] \o Appended(j, found, kept), crawled[j] + 1)
    BY <2>1
  <2> DEFINE queue == frontier[j] \o Appended(j, found, kept)
             known == links[j] \cup FoundOn(j, found)
  <2>3. /\ pc[j] = "scrape"
        /\ crawled' = [crawled EXCEPT ![j] = @ + 1]
        /\ UNCHANGED <<job, denied>>
    BY <1>4 DEF ScrapeOk, At
  <2>4. /\ queue \in Seq(Entry) /\ current[j] \in Entry /\ found \in Seq(Urls)
    BY <2>3, AppendedType
  <2>5. /\ QueueOK(j, queue, current[j].depth)
        /\ Pending(j, known, queue)
        /\ LogOK(j, known)
    BY <1>0, <2>3, AppendedWalk
  <2>6. links \in [Jobs -> SUBSET [from : Urls, depth : Nat, to : Urls]]
    BY DEF Inv, TypeOK
  <2>7. FoundOn(j, found) \subseteq [from : Urls, depth : Nat, to : Urls]
    BY <2>4, UrlAssumption DEF FoundOn, Entry
  <2>8. /\ links' \in [Jobs -> SUBSET [from : Urls, depth : Nat, to : Urls]]
        /\ links'[j] = known
        /\ \A i \in Jobs \ {j} : links'[i] = links[i]
    BY <2>1, <2>6, <2>7
  <2>9. /\ crawled'[j] = crawled[j] + 1 /\ crawled[j] + 1 \in Nat
        /\ \A i \in Jobs \ {j} : crawled'[i] = crawled[i]
    BY <1>0, <2>3 DEF Inv, TypeOK
  <2>10. /\ LogBelow(j, current[j].depth)
         /\ current[j].depth <= job[j].max_depth
         /\ LogBelow(j, job[j].max_depth)
         /\ denied[j] \subseteq visited[j]
    BY <1>0, <2>3 DEF WalkOK, InFlight
  <2>11. current[j].depth \in Nat
    BY <2>4 DEF Entry
  <2> HIDE DEF queue, known
  <2>12. Continue(j, queue, crawled[j] + 1)
    BY <2>2 DEF queue
  <2>13. WalkOK(j)'
    BY <2>3, <2>4, <2>5, <2>8, <2>9, <2>10, <2>11, <2>12, LoopWalk
  <2>14. ASSUME NEW i \in Jobs \ {j} PROVE WalkOK(i)'
    BY <2>3, <2>8, <2>9, <2>12, ContinueOthers, OthersWalk
  <2> QED BY <2>13, <2>14 DEF Walk
<1>5. CASE \/ ValidateOk(j) \/ RobotsAllow(j) \/ PermitGranted(j)
           \/ RobotsRaise(j) \/ Unwind(j)
  <2>1. /\ UNCHANGED <<job, visited, frontier, current, log, links, denied, crawled>>
        /\ \A i \in Jobs \ {j} : pc'[i] = pc[i] /\ status'[i] = status[i]
        /\ pc'[j] \in InFlight => pc[j] \in InFlight
        /\ pc'[j] \notin {"absent", "created"}
        /\ status'[j] = "completed" => status[j] = "completed"
    BY <1>5 DEF ValidateOk, RobotsAllow, PermitGranted, RobotsRaise, Unwind, At,
                InFlight, Inv, TypeOK
  <2> QED BY <1>0, <2>1, SameWalk, OthersWalk DEF Walk
<1> QED BY <1>1, <1>2, <1>3, <1>4, <1>5 DEF Step

LEMMA ClientWalk ==
  ASSUME Inv, Walk, NEW j \in Jobs, Client(j)
  PROVE  Walk'
<1> USE DEF parameters, progress, walk
<1>0. WalkOK(j)
  BY DEF Walk
<1>1. CASE \E seed \in Urls, p \in AskedPages, d \in AskedDepths :
             CreateJob(j, seed, p, d)
  <2>1. /\ UNCHANGED <<crawled, links, visited, frontier, current, log, denied>>
        /\ \A i \in Jobs \ {j} : /\ job'[i] = job[i] /\ pc'[i] = pc[i]
                                /\ status'[i] = status[i]
        /\ pc'[j] = "created" /\ status'[j] = "queued"
        /\ pc[j] = "absent"
    BY <1>1 DEF CreateJob, Inv, TypeOK, Shape
  <2>2. WalkOK(j)'
    BY <1>0, <2>1 DEF WalkOK, LogOK, LogBelow, Closed, InFlight
  <2> QED BY <2>1, <2>2, OthersWalk DEF Walk
<1>2. CASE Cancel(j)
  <2>1. /\ UNCHANGED <<job, crawled, links, visited, frontier, current, log, denied, pc>>
        /\ \A i \in Jobs \ {j} : status'[i] = status[i]
        /\ status'[j] = "cancelled"
    BY <1>2 DEF Cancel, Inv, TypeOK
  <2> QED BY <1>0, <2>1, SameWalk, OthersWalk DEF Walk
<1> QED BY <1>1, <1>2 DEF Client

LEMMA WalkAlways == Spec => []Walk
<1>1. Init => Walk
  BY DEF Init, Walk, WalkOK, LogOK, LogBelow, Closed, InFlight
<1>2. Inv /\ Walk /\ [Next]_vars => Walk'
  <2> SUFFICES ASSUME Inv, Walk, [Next]_vars PROVE Walk'
    OBVIOUS
  <2>1. CASE UNCHANGED vars
    BY <2>1 DEF vars, Walk, WalkOK, LogOK, LogBelow, QueueOK, Pending, Closed,
                InFlight, Follows
  <2> QED BY <2>1, WalkStep, ClientWalk DEF Next
<1> QED BY <1>1, <1>2, InvAlways, PTL DEF Spec

(* Whatever the web looks like and however jobs interleave, a job visits     *)
(* pages once, by depth, and none below max_depth (crawler.py:119-125).      *)
THEOREM CrawlsBreadthFirst == Spec => []BreadthFirst
<1>1. Walk => BreadthFirst
  BY DEF Walk, WalkOK, LogOK, LogBelow, BreadthFirst
<1> QED BY <1>1, WalkAlways, PTL

(* A page is visited at the least depth the scraped pages link it from.      *)
THEOREM VisitsAtShortestDepth == Spec => []ShortestDepth
<1>1. Walk => ShortestDepth
  BY DEF Walk, WalkOK, LogOK, ShortestDepth
<1> QED BY <1>1, WalkAlways, PTL

(* A job that completes below max_pages has left no link to its own origin,   *)
(* found above max_depth, unvisited.                                         *)
THEOREM CrawlsCompletely == Spec => []CompleteCrawl
<1>1. Walk => CompleteCrawl
  BY DEF Walk, WalkOK, Closed, CompleteCrawl, SameOrigin
<1> QED BY <1>1, WalkAlways, PTL

(* A URL robots.txt denied to a job is never scraped by it.                  *)
THEOREM DeniedStaysOut == Spec => []DeniedNeverScraped
<1>1. Walk => DeniedNeverScraped
  BY DEF Walk, WalkOK, InFlight, DeniedNeverScraped
<1> QED BY <1>1, WalkAlways, PTL

-----------------------------------------------------------------------------
(* The manager implements the lifecycle a polling client relies on.          *)

(* A task nobody cancelled reports what it does, and works below its limit.  *)
CourseOK(j) ==
  /\ pc[j] = "created" /\ ~cancelling[j] => status[j] = "queued"
  /\ pc[j] \in InFlight /\ ~cancelling[j] =>
       status[j] = "running" /\ crawled[j] < job[j].max_pages

Course == \A j \in Jobs : CourseOK(j)

LEMMA ContinueCourse ==
  ASSUME Inv, NEW j \in Jobs, pc[j] # "absent",
         NEW queue \in Seq(Entry), NEW count \in Nat,
         Continue(j, queue, count)
  PROVE  /\ status' \in {[status EXCEPT ![j] = "running"],
                         [status EXCEPT ![j] = "completed"]}
         /\ \A i \in Jobs \ {j} : pc'[i] = pc[i] /\ status'[i] = status[i]
         /\ pc'[j] \in {"validate", "done"}
         /\ pc'[j] = "validate" => status'[j] = "running" /\ count < job[j].max_pages
<1>1. CASE Advance(j, queue, count)
  BY <1>1 DEF Advance, Inv, TypeOK
<1>2. CASE Complete(j, queue, count)
  BY <1>2 DEF Complete, Inv, TypeOK
<1> QED BY <1>1, <1>2 DEF Continue

(* Every step of a job is a step of the lifecycle or none.                   *)
LEMMA StepRefines ==
  ASSUME Inv, Walk, Course, NEW j \in Jobs, Step(j)
  PROVE  /\ Course'
         /\ [Lifecycle!Next]_(Lifecycle!vars)
<1> USE DEF parameters, progress, walk
<1>0. /\ CourseOK(j) /\ WalkOK(j)
      /\ frontier[j] \in Seq(Entry) /\ crawled[j] \in Nat
      /\ status \in [Jobs -> Statuses] /\ crawled \in [Jobs -> Nat]
      /\ failed \in [Jobs -> Nat] /\ pc \in [Jobs -> PCs]
  BY DEF Course, Walk, Inv, TypeOK
<1> DEFINE limit == [i \in Jobs |-> job[i].max_pages]
<1>1. ASSUME pc[j] \in InFlight, ~cancelling[j],
             NEW queue \in Seq(Entry), NEW count \in Nat,
             Continue(j, queue, count), UNCHANGED <<job, cancelling>>,
             \/ count = crawled[j] /\ UNCHANGED <<crawled, failed>>
             \/ count = crawled[j] /\ failed' = [failed EXCEPT ![j] = @ + 1]
                                   /\ UNCHANGED crawled
             \/ count = crawled[j] + 1 /\ crawled' = [crawled EXCEPT ![j] = @ + 1]
                                       /\ UNCHANGED failed
      PROVE  Course' /\ [Lifecycle!Next]_(Lifecycle!vars)
  <2>1. pc[j] # "absent"
    BY <1>1 DEF InFlight
  <2>2. /\ status' \in {[status EXCEPT ![j] = "running"],
                        [status EXCEPT ![j] = "completed"]}
        /\ \A i \in Jobs \ {j} : pc'[i] = pc[i] /\ status'[i] = status[i]
        /\ pc'[j] \in {"validate", "done"}
        /\ pc'[j] = "validate" => status'[j] = "running" /\ count < job[j].max_pages
    BY <1>1, <2>1, ContinueCourse
  <2>3. status[j] = "running" /\ crawled[j] < job[j].max_pages
    BY <1>0, <1>1 DEF CourseOK
  <2>4. Course'
    <3>1. crawled'[j] = count /\ \A i \in Jobs \ {j} : crawled'[i] = crawled[i]
      BY <1>0, <1>1
    <3> QED BY <1>1, <2>2, <3>1 DEF Course, CourseOK, InFlight
  <2>5. Lifecycle!Work(j)
    BY <1>0, <1>1, <2>2, <2>3 DEF Lifecycle!Work
  <2> QED BY <2>4, <2>5 DEF Lifecycle!Next
<1>2. CASE Start(j)
  <2> DEFINE queue == <<[url |-> job[j].seed, depth |-> 0]>>
  <2>1. /\ pc[j] = "created" /\ ~cancelling[j]
        /\ Continue(j, queue, 0)
        /\ UNCHANGED <<job, crawled, failed, cancelling>>
    BY <1>2 DEF Start, At
  <2>2. job[j] \in Parameters
    BY <2>1 DEF Inv, Shape
  <2>3. queue \in Seq(Entry) /\ pc[j] # "absent"
    BY <2>1, <2>2 DEF Parameters, Entry
  <2>4. visited[j] = {} /\ status[j] = "queued" /\ crawled[j] = 0
    BY <1>0, <2>1 DEF CourseOK, WalkOK
  <2>5. 1 \in Fresh(j, queue) /\ ~(0 >= job[j].max_pages)
    BY <2>2, <2>4 DEF Fresh, Parameters
  <2>6. Advance(j, queue, 0)
    BY <2>1, <2>5 DEF Continue, Complete
  <2>7. /\ status' = [status EXCEPT ![j] = "running"]
        /\ pc' = [pc EXCEPT ![j] = "validate"]
        /\ 0 < job[j].max_pages
    BY <2>6 DEF Advance
  <2>8. Course'
    BY <1>0, <2>1, <2>4, <2>7 DEF Course, CourseOK, InFlight
  <2>9. Lifecycle!Begin(j)
    BY <2>1, <2>4, <2>7 DEF Lifecycle!Begin
  <2> QED BY <2>8, <2>9 DEF Lifecycle!Next
<1>3. CASE ValidateBlocked(j) \/ RobotsDeny(j) \/ ScrapeBlocked(j) \/ ScrapeFailed(j)
  <2>1. /\ pc[j] \in InFlight /\ ~cancelling[j]
        /\ Continue(j, frontier[j], crawled[j])
        /\ UNCHANGED <<job, crawled, cancelling>>
        /\ failed' = [failed EXCEPT ![j] = @ + 1] \/ UNCHANGED failed
    BY <1>3 DEF ValidateBlocked, RobotsDeny, ScrapeBlocked, ScrapeFailed, At, InFlight
  <2> QED BY <1>0, <1>1, <2>1
<1>4. CASE ScrapeOk(j)
  <2>1. PICK found \in PageLinks[current[j].url] :
          \E kept \in Enumerations(Kept(j, found)) :
            Continue(j, frontier[j] \o Appended(j, found, kept), crawled[j] + 1)
    BY <1>4 DEF ScrapeOk, Appended
  <2>2. PICK kept \in Enumerations(Kept(j, found)) :
          Continue(j, frontier[j] \o Appended(j, found, kept), crawled[j] + 1)
    BY <2>1
  <2>3. /\ pc[j] = "scrape" /\ ~cancelling[j]
        /\ crawled' = [crawled EXCEPT ![j] = @ + 1]
        /\ UNCHANGED <<job, failed, cancelling>>
    BY <1>4 DEF ScrapeOk, At
  <2>4. frontier[j] \o Appended(j, found, kept) \in Seq(Entry)
    BY <2>3, AppendedType
  <2>5. pc[j] \in InFlight /\ crawled[j] + 1 \in Nat
    BY <1>0, <2>3 DEF InFlight
  <2> QED BY <1>1, <2>2, <2>3, <2>4, <2>5
<1>5. CASE ValidateOk(j) \/ RobotsAllow(j) \/ PermitGranted(j)
  <2>1. /\ UNCHANGED <<status, job, crawled, failed, cancelling>>
        /\ pc[j] \in InFlight
        /\ \A i \in Jobs \ {j} : pc'[i] = pc[i]
        /\ pc'[j] \in InFlight
    BY <1>0, <1>5 DEF ValidateOk, RobotsAllow, PermitGranted, At, InFlight
  <2>2. Course'
    BY <2>1 DEF Course, CourseOK, InFlight
  <2>3. UNCHANGED Lifecycle!vars
    BY <2>1 DEF Lifecycle!vars
  <2> QED BY <2>2, <2>3
<1>6. CASE RobotsRaise(j)
  <2>1. /\ pc[j] \in InFlight /\ ~cancelling[j]
        /\ status' = [status EXCEPT ![j] = "failed"]
        /\ pc' = [pc EXCEPT ![j] = "done"]
        /\ UNCHANGED <<job, crawled, failed, cancelling>>
    BY <1>6 DEF RobotsRaise, At, InFlight
  <2>2. Course'
    BY <1>0, <2>1 DEF Course, CourseOK, InFlight
  <2>3. Lifecycle!Fail(j)
    BY <1>0, <2>1 DEF CourseOK, Lifecycle!Fail
  <2> QED BY <2>2, <2>3 DEF Lifecycle!Next
<1>7. CASE Unwind(j)
  <2>1. /\ cancelling[j]
        /\ cancelling' = [cancelling EXCEPT ![j] = FALSE]
        /\ status' = [status EXCEPT ![j] = "cancelled"]
        /\ pc' = [pc EXCEPT ![j] = "done"]
        /\ UNCHANGED <<job, crawled, failed>>
    BY <1>7 DEF Unwind
  <2>2. cancelling \in [Jobs -> BOOLEAN] /\ status[j] = "cancelled"
    BY <2>1 DEF Inv, TypeOK, Shape
  <2>3. Course'
    BY <1>0, <2>1, <2>2 DEF Course, CourseOK, InFlight
  <2>4. UNCHANGED Lifecycle!vars
    BY <1>0, <2>1, <2>2 DEF Lifecycle!vars
  <2> QED BY <2>3, <2>4
<1> QED BY <1>2, <1>3, <1>4, <1>5, <1>6, <1>7 DEF Step

LEMMA ClientRefines ==
  ASSUME Inv, Course, NEW j \in Jobs, Client(j)
  PROVE  /\ Course'
         /\ [Lifecycle!Next]_(Lifecycle!vars)
<1> USE DEF parameters, progress, walk
<1>0. /\ status \in [Jobs -> Statuses] /\ pc \in [Jobs -> PCs]
      /\ cancelling \in [Jobs -> BOOLEAN]
      /\ job \in [Jobs -> {NoJob} \cup Parameters]
  BY DEF Inv, TypeOK
<1>1. ASSUME NEW seed \in Urls, NEW p \in AskedPages, NEW d \in AskedDepths,
             CreateJob(j, seed, p, d)
      PROVE  Course' /\ Lifecycle!Submit(j)
  <2> DEFINE new == [seed |-> seed, max_pages |-> OrDefault(p, MaxPagesDefault),
                     max_depth |-> OrDefault(d, MaxDepthDefault)]
  <2>1. /\ status[j] = "absent"
        /\ status' = [status EXCEPT ![j] = "queued"]
        /\ job' = [job EXCEPT ![j] = new]
        /\ pc' = [pc EXCEPT ![j] = "created"]
        /\ UNCHANGED <<crawled, failed, cancelling>>
    BY <1>1 DEF CreateJob
  <2>2. Course'
    BY <1>0, <2>1 DEF Course, CourseOK, InFlight
  <2>3. [i \in Jobs |-> job[i].max_pages]' =
          [[i \in Jobs |-> job[i].max_pages] EXCEPT ![j] = OrDefault(p, MaxPagesDefault)]
    BY <1>0, <2>1
  <2>4. Lifecycle!Submit(j)
    BY <2>1, <2>3 DEF Lifecycle!Submit
  <2> QED BY <2>2, <2>4
<1>2. CASE Cancel(j)
  <2>1. /\ status[j] # "absent"
        /\ status' = [status EXCEPT ![j] = "cancelled"]
        /\ cancelling' = [cancelling EXCEPT ![j] = pc[j] # "done"]
        /\ UNCHANGED <<job, crawled, failed, pc>>
    BY <1>2 DEF Cancel
  <2>2. Course'
    BY <1>0, <2>1 DEF Course, CourseOK, InFlight
  <2>3. Lifecycle!Delete(j)
    BY <2>1 DEF Lifecycle!Delete
  <2> QED BY <2>2, <2>3 DEF Lifecycle!Next
<1> QED BY <1>1, <1>2 DEF Client, Lifecycle!Next

(* However jobs, permits and DELETEs interleave, polling a job shows a       *)
(* behaviour of JobLifecycle (crawler.py:92-116, api/main.py:186-207).       *)
THEOREM ImplementsLifecycle == Spec => PollsFollowLifecycle
<1>1. Init => Course /\ Lifecycle!Init
  BY DEF Init, Course, CourseOK, InFlight, NoJob, Lifecycle!Init
<1>2. Inv /\ Walk /\ Course /\ [Next]_vars
        => Course' /\ [Lifecycle!Next]_(Lifecycle!vars)
  <2> SUFFICES ASSUME Inv, Walk, Course, [Next]_vars
               PROVE  Course' /\ [Lifecycle!Next]_(Lifecycle!vars)
    OBVIOUS
  <2>1. CASE UNCHANGED vars
    BY <2>1 DEF vars, Course, CourseOK, InFlight, Lifecycle!vars
  <2> QED BY <2>1, StepRefines, ClientRefines DEF Next
<1> QED BY <1>1, <1>2, InvAlways, WalkAlways, PTL
        DEF Spec, PollsFollowLifecycle, Lifecycle!Spec
=============================================================================
