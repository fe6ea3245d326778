------------------------ MODULE AsyncSemaphoreProofs ------------------------
(* What each semaphore operation does to the permits, for any set of tasks.   *)
EXTENDS AsyncSemaphore, FiniteSetTheorems, SequenceTheorems, TLAPS

Semaphores(Tasks) == [value : Nat, waiting : Seq(Tasks), woken : SUBSET Tasks]

Queued(s) == {s.waiting[i] : i \in 1..Len(s.waiting)}

(* No task waits twice, or waits although it was woken.                      *)
Sound(s) ==
  /\ \A i, k \in 1..Len(s.waiting) : s.waiting[i] = s.waiting[k] => i = k
  /\ Queued(s) \cap s.woken = {}
  /\ IsFiniteSet(s.woken)

(* The permits that are free or promised to a task.                          *)
Permits(s) == s.value + Cardinality(s.woken)

(* A semaphore that still serves the tasks it served and no other.           *)
Serves(t, s) == Queued(t) \cup t.woken = Queued(s) \cup s.woken

(* Waking k tasks moves k permits from value to woken.                       *)
LEMMA WakeMoves ==
  ASSUME NEW Tasks, NEW s \in Semaphores(Tasks), Sound(s),
         NEW k \in Nat, k <= s.value, k <= Len(s.waiting)
  PROVE  /\ Wake(s, k) \in Semaphores(Tasks)
         /\ Sound(Wake(s, k))
         /\ Permits(Wake(s, k)) = Permits(s)
         /\ Serves(Wake(s, k), s)
         /\ Queued(Wake(s, k)) \subseteq Queued(s)
         /\ s.woken \subseteq Wake(s, k).woken
<1> DEFINE first == {s.waiting[i] : i \in 1..k}
           t == Wake(s, k)
<1>1. /\ s.value \in Nat
      /\ s.waiting \in Seq(Tasks)
      /\ s.woken \subseteq Tasks
      /\ IsFiniteSet(s.woken)
      /\ s.woken \cap Queued(s) = {}
      /\ \A i, j \in 1..Len(s.waiting) : s.waiting[i] = s.waiting[j] => i = j
  BY DEF Semaphores, Sound
<1>2. /\ t.value = s.value - k
      /\ t.waiting = SubSeq(s.waiting, k + 1, Len(s.waiting))
      /\ t.woken = s.woken \cup first
      /\ t = [value |-> t.value, waiting |-> t.waiting, woken |-> t.woken]
  BY DEF Wake
<1>3. first \subseteq Queued(s) /\ first \subseteq Tasks
  BY <1>1 DEF Queued
<1>4. /\ t.waiting \in Seq(Tasks)
      /\ Len(t.waiting) = Len(s.waiting) - k
      /\ \A i \in 1..(Len(s.waiting) - k) : t.waiting[i] = s.waiting[i + k]
  <2>1. \A i \in (k + 1)..Len(s.waiting) : s.waiting[i] \in Tasks
    BY <1>1
  <2>2. k + 1 \in Int /\ Len(s.waiting) \in Int
    BY <1>1
  <2> DEFINE rest == SubSeq(s.waiting, k + 1, Len(s.waiting))
  <2>3. /\ rest \in Seq(Tasks)
        /\ Len(rest) = IF k + 1 <= Len(s.waiting)
                       THEN Len(s.waiting) - (k + 1) + 1 ELSE 0
        /\ \A i \in 1..(Len(s.waiting) - (k + 1) + 1) :
             rest[i] = s.waiting[(k + 1) + i - 1]
    BY <2>1, <2>2, SubSeqProperties
  <2> HIDE DEF rest
  <2>4. \A i \in 1..(Len(s.waiting) - k) : rest[i] = s.waiting[i + k]
    <3> SUFFICES ASSUME NEW i \in 1..(Len(s.waiting) - k)
                 PROVE  rest[i] = s.waiting[i + k]
      OBVIOUS
    <3>1. i \in 1..(Len(s.waiting) - (k + 1) + 1) /\ (k + 1) + i - 1 = i + k
      BY <2>2
    <3> QED BY <2>3, <3>1
  <2>5. Len(rest) = Len(s.waiting) - k
    BY <2>2, <2>3
  <2>6. t.waiting = rest
    BY <1>2 DEF rest
  <2> HIDE DEF t
  <2> QED BY <2>3, <2>4, <2>5, <2>6
<1>5. IsFiniteSet(first) /\ Cardinality(first) = k
  <2>1. IsFiniteSet(1..k) /\ Cardinality(1..k) = k
    BY FS_Interval
  <2>2. [i \in 1..k |-> s.waiting[i]] \in Bijection(1..k, first)
    BY <1>1 DEF Bijection, Injection, Surjection, IsInjective
  <2>3. ExistsBijection(1..k, first)
    BY <2>2 DEF ExistsBijection
  <2> QED BY <2>1, <2>3, FS_Bijection
<1>6. /\ IsFiniteSet(t.woken)
      /\ Cardinality(t.woken) = Cardinality(s.woken) + k
  <2>1. s.woken \cap first = {}
    BY <1>1, <1>3
  <2>2. Cardinality(s.woken \cap first) = 0
    BY <2>1, FS_EmptySet
  <2>3. Cardinality(s.woken) \in Nat
    BY <1>1, FS_CardinalityType
  <2> HIDE DEF first, t
  <2>4. /\ IsFiniteSet(s.woken \cup first)
        /\ Cardinality(s.woken \cup first) =
             Cardinality(s.woken) + Cardinality(first)
               - Cardinality(s.woken \cap first)
    BY <1>1, <1>5, FS_Union
  <2>5. t.woken = s.woken \cup first
    BY <1>2
  <2> QED BY <1>5, <2>2, <2>3, <2>4, <2>5
<1>7. Queued(t) = {s.waiting[i] : i \in (k + 1)..Len(s.waiting)}
  <2>1. ASSUME NEW i \in 1..Len(t.waiting)
        PROVE  \E m \in (k + 1)..Len(s.waiting) : t.waiting[i] = s.waiting[m]
    <3>1. i + k \in (k + 1)..Len(s.waiting)
      BY <1>1, <1>4
    <3> QED BY <1>4, <3>1
  <2>2. ASSUME NEW m \in (k + 1)..Len(s.waiting)
        PROVE  \E i \in 1..Len(t.waiting) : t.waiting[i] = s.waiting[m]
    <3>1. m - k \in 1..(Len(s.waiting) - k) /\ (m - k) + k = m
      BY <1>1
    <3> QED BY <1>4, <3>1
  <2>3. Queued(t) = {t.waiting[i] : i \in 1..Len(t.waiting)}
    BY DEF Queued
  <2> HIDE DEF t
  <2> DEFINE later == {s.waiting[i] : i \in (k + 1)..Len(s.waiting)}
  <2>4. Queued(t) \subseteq later
    BY <2>1, <2>3
  <2>5. later \subseteq Queued(t)
    BY <2>2, <2>3
  <2> QED BY <2>4, <2>5
<1>8. Queued(t) \cup first = Queued(s)
  <2>1. 1..Len(s.waiting) = (1..k) \cup ((k + 1)..Len(s.waiting))
    BY <1>1
  <2> QED BY <2>1, <1>7 DEF Queued
<1>9. Queued(t) \cap first = {}
  BY <1>1, <1>7
<1>10. Sound(t)
  <2>1. \A i, j \in 1..Len(t.waiting) : t.waiting[i] = t.waiting[j] => i = j
    <3> SUFFICES ASSUME NEW i \in 1..Len(t.waiting), NEW j \in 1..Len(t.waiting),
                        t.waiting[i] = t.waiting[j]
                 PROVE  i = j
      OBVIOUS
    <3>1. i + k \in 1..Len(s.waiting) /\ j + k \in 1..Len(s.waiting)
      BY <1>1, <1>4
    <3>2. s.waiting[i + k] = s.waiting[j + k]
      BY <1>4
    <3>3. i + k = j + k
      BY <1>1, <3>1, <3>2
    <3> QED BY <3>3
  <2> QED BY <2>1, <1>1, <1>2, <1>6, <1>8, <1>9 DEF Sound
<1>11. t \in Semaphores(Tasks)
  <2>1. t.value \in Nat
    BY <1>1, <1>2
  <2> QED BY <2>1, <1>1, <1>2, <1>3, <1>4 DEF Semaphores
<1>12. Permits(t) = Permits(s)
  <2>1. Cardinality(s.woken) \in Nat
    BY <1>1, FS_CardinalityType
  <2> QED BY <2>1, <1>1, <1>2, <1>6 DEF Permits
<1> QED BY <1>2, <1>8, <1>10, <1>11, <1>12 DEF Serves

LEMMA LeastBound ==
  ASSUME NEW a \in Nat, NEW b \in Nat
  PROVE  Least(a, b) \in Nat /\ Least(a, b) <= a /\ Least(a, b) <= b
BY DEF Least

(* What EXCEPT does to a semaphore.                                          *)
LEMMA Update ==
  ASSUME NEW Tasks, NEW s \in Semaphores(Tasks), NEW v, NEW q, NEW w
  PROVE  /\ [s EXCEPT !.value = v]
              = [value |-> v, waiting |-> s.waiting, woken |-> s.woken]
         /\ [s EXCEPT !.waiting = q]
              = [value |-> s.value, waiting |-> q, woken |-> s.woken]
         /\ [s EXCEPT !.woken = w]
              = [value |-> s.value, waiting |-> s.waiting, woken |-> w]
BY DEF Semaphores

(* A promised permit given up, and the promise of task p withdrawn.          *)
LEMMA Unpromise ==
  ASSUME NEW Tasks, NEW s \in Semaphores(Tasks), Sound(s),
         NEW p \in s.woken, NEW d \in {0, 1}
  PROVE  LET t == [value |-> s.value + d, waiting |-> s.waiting,
                   woken |-> s.woken \ {p}] IN
         /\ t \in Semaphores(Tasks)
         /\ Sound(t)
         /\ Permits(t) = Permits(s) + d - 1
         /\ Queued(t) = Queued(s)
         /\ t.woken = s.woken \ {p}
<1> DEFINE t == [value |-> s.value + d, waiting |-> s.waiting,
                   woken |-> s.woken \ {p}]
<1>0. /\ s = [value |-> s.value, waiting |-> s.waiting, woken |-> s.woken]
      /\ s.value \in Nat /\ s.waiting \in Seq(Tasks) /\ s.woken \subseteq Tasks
  BY DEF Semaphores
<1>1. /\ t \in Semaphores(Tasks)
      /\ t.value = s.value + d
      /\ t.waiting = s.waiting
      /\ t.woken = s.woken \ {p}
  <2>1. s.value + d \in Nat
    BY <1>0
  <2> QED BY <1>0, <2>1 DEF Semaphores
<1>2. IsFiniteSet(s.woken) /\ Queued(s) \cap s.woken = {} /\ s.value \in Nat
  BY DEF Sound, Semaphores
<1>3. /\ IsFiniteSet(s.woken \ {p})
      /\ Cardinality(s.woken \ {p}) = Cardinality(s.woken) - 1
      /\ Cardinality(s.woken) \in Nat
  BY <1>2, FS_RemoveElement, FS_CardinalityType
<1> HIDE DEF t
<1>4. Queued(t) = Queued(s)
  BY <1>1 DEF Queued
<1>5. Sound(t)
  BY <1>1, <1>2, <1>3, <1>4 DEF Sound
<1>6. Permits(t) = Permits(s) + d - 1
  BY <1>1, <1>2, <1>3 DEF Permits
<1> QED BY <1>1, <1>4, <1>5, <1>6 DEF t

LEMMA WakeAllMoves ==
  ASSUME NEW Tasks, NEW s \in Semaphores(Tasks), Sound(s)
  PROVE  /\ WakeAll(s) \in Semaphores(Tasks)
         /\ Sound(WakeAll(s))
         /\ Permits(WakeAll(s)) = Permits(s)
         /\ Serves(WakeAll(s), s)
         /\ Queued(WakeAll(s)) \subseteq Queued(s)
<1>1. s.value \in Nat /\ Len(s.waiting) \in Nat
  BY DEF Semaphores
<1> DEFINE k == Least(s.value, Len(s.waiting))
<1>2. k \in Nat /\ k <= s.value /\ k <= Len(s.waiting)
  BY <1>1, LeastBound
<1> HIDE DEF k
<1>3. WakeAll(s) = Wake(s, k)
  BY DEF WakeAll, k
<1> QED BY <1>2, <1>3, WakeMoves

(* A release adds one permit.                                                *)
LEMMA ReleaseAdds ==
  ASSUME NEW Tasks, NEW s \in Semaphores(Tasks), Sound(s)
  PROVE  /\ Release(s) \in Semaphores(Tasks)
         /\ Sound(Release(s))
         /\ Permits(Release(s)) = Permits(s) + 1
         /\ Serves(Release(s), s)
         /\ Queued(Release(s)) \subseteq Queued(s)
<1> DEFINE f == [s EXCEPT !.value = @ + 1]
           k == Least(1, Len(s.waiting))
<1>1. /\ f \in Semaphores(Tasks)
      /\ f.value = s.value + 1 /\ f.waiting = s.waiting /\ f.woken = s.woken
      /\ s.value \in Nat
      /\ Len(s.waiting) \in Nat
  BY DEF Semaphores
<1>2. Release(s) = Wake(f, k)
  BY <1>1 DEF Release
<1> HIDE DEF f
<1>3. k \in Nat /\ k <= 1 /\ k <= Len(s.waiting)
  BY <1>1, LeastBound
<1> HIDE DEF k
<1>4. Queued(f) = Queued(s)
  BY <1>1 DEF Queued
<1>5. Sound(f)
  BY <1>1, <1>4 DEF Sound
<1>6. Cardinality(s.woken) \in Nat
  BY FS_CardinalityType DEF Sound
<1>7. Permits(f) = Permits(s) + 1
  BY <1>1, <1>6 DEF Permits
<1>8. k <= f.value /\ k <= Len(f.waiting)
  BY <1>1, <1>3
<1>9. /\ Wake(f, k) \in Semaphores(Tasks)
      /\ Sound(Wake(f, k))
      /\ Permits(Wake(f, k)) = Permits(f)
      /\ Serves(Wake(f, k), f)
      /\ Queued(Wake(f, k)) \subseteq Queued(f)
  BY <1>1, <1>3, <1>5, <1>8, WakeMoves
<1> QED BY <1>1, <1>2, <1>4, <1>7, <1>9 DEF Serves

(* A woken task that runs makes its promised permit its own.                 *)
LEMMA ResumeTakes ==
  ASSUME NEW Tasks, NEW s \in Semaphores(Tasks), Sound(s), NEW p \in s.woken
  PROVE  /\ Resume(s, p) \in Semaphores(Tasks)
         /\ Sound(Resume(s, p))
         /\ Permits(Resume(s, p)) = Permits(s) - 1
         /\ Queued(Resume(s, p)) \cup Resume(s, p).woken
              = (Queued(s) \cup s.woken) \ {p}
         /\ Queued(Resume(s, p)) \subseteq Queued(s)
<1> DEFINE t == [value |-> s.value + 0, waiting |-> s.waiting,
                   woken |-> s.woken \ {p}]
<1>1. /\ t \in Semaphores(Tasks)
      /\ Sound(t)
      /\ Permits(t) = Permits(s) + 0 - 1
      /\ Queued(t) = Queued(s)
      /\ t.woken = s.woken \ {p}
  BY Unpromise
<1>2. t = [s EXCEPT !.woken = @ \ {p}]
  <2>1. s.value + 0 = s.value
    BY DEF Semaphores
  <2>3. t = [value |-> s.value, waiting |-> s.waiting, woken |-> s.woken \ {p}]
    BY <2>1
  <2>4. [s EXCEPT !.woken = @ \ {p}]
          = [value |-> s.value, waiting |-> s.waiting, woken |-> s.woken \ {p}]
    BY Update
  <2> QED BY <2>3, <2>4
<1>3. Resume(s, p) = WakeAll(t)
  BY <1>2 DEF Resume
<1>4. Permits(s) \in Nat
  BY FS_CardinalityType DEF Permits, Sound, Semaphores
<1>5. p \notin Queued(s)
  BY DEF Sound
<1> HIDE DEF t
<1>6. /\ WakeAll(t) \in Semaphores(Tasks)
      /\ Sound(WakeAll(t))
      /\ Permits(WakeAll(t)) = Permits(t)
      /\ Serves(WakeAll(t), t)
      /\ Queued(WakeAll(t)) \subseteq Queued(t)
  BY <1>1, WakeAllMoves
<1> QED BY <1>1, <1>3, <1>4, <1>5, <1>6 DEF Serves

(* A cancelled task that is no longer queued keeps no promise and no permit  *)
(* gets lost on the way.                                                     *)
LEMMA GiveBackKeeps ==
  ASSUME NEW Tasks, NEW s \in Semaphores(Tasks), Sound(s), NEW p,
         p \notin Queued(s)
  PROVE  /\ GiveBack(s, p) \in Semaphores(Tasks)
         /\ Sound(GiveBack(s, p))
         /\ Permits(GiveBack(s, p)) = Permits(s)
         /\ Queued(GiveBack(s, p)) \cup GiveBack(s, p).woken
              = (Queued(s) \cup s.woken) \ {p}
         /\ Queued(GiveBack(s, p)) \subseteq Queued(s)
<1>1. CASE p \in s.woken
  <2> DEFINE t == [value |-> s.value + 1, waiting |-> s.waiting,
                   woken |-> s.woken \ {p}]
  <2>1. /\ t \in Semaphores(Tasks)
        /\ Sound(t)
        /\ Permits(t) = Permits(s) + 1 - 1
        /\ Queued(t) = Queued(s)
        /\ t.woken = s.woken \ {p}
    BY <1>1, Unpromise
  <2>2. GiveBack(s, p) = WakeAll(t)
    BY <1>1 DEF GiveBack
  <2>3. Permits(s) \in Nat
    BY FS_CardinalityType DEF Permits, Sound, Semaphores
  <2> HIDE DEF t
  <2>4. /\ WakeAll(t) \in Semaphores(Tasks)
        /\ Sound(WakeAll(t))
        /\ Permits(WakeAll(t)) = Permits(t)
        /\ Serves(WakeAll(t), t)
        /\ Queued(WakeAll(t)) \subseteq Queued(t)
    BY <2>1, WakeAllMoves
  <2> QED BY <2>1, <2>2, <2>3, <2>4 DEF Serves
<1>2. CASE p \notin s.woken
  <2>1. GiveBack(s, p) = WakeAll(s)
    BY <1>2 DEF GiveBack
  <2> QED BY <1>2, <2>1, WakeAllMoves DEF Serves
<1> QED BY <1>1, <1>2

LEMMA TakeTakes ==
  ASSUME NEW Tasks, NEW s \in Semaphores(Tasks), Sound(s), CanTake(s)
  PROVE  /\ Take(s) \in Semaphores(Tasks)
         /\ Sound(Take(s))
         /\ Permits(Take(s)) = Permits(s) - 1
         /\ Queued(Take(s)) = Queued(s)
         /\ Take(s).woken = s.woken
<1> DEFINE t == Take(s)
<1>1. /\ t \in Semaphores(Tasks)
      /\ t.value = s.value - 1 /\ t.waiting = s.waiting /\ t.woken = s.woken
      /\ s.value \in Nat
  BY DEF Semaphores, Take, CanTake
<1> HIDE DEF t
<1>2. Queued(t) = Queued(s)
  BY <1>1 DEF Queued
<1>3. Cardinality(s.woken) \in Nat
  BY FS_CardinalityType DEF Sound
<1>4. Sound(t) /\ Permits(t) = Permits(s) - 1
  BY <1>1, <1>2, <1>3 DEF Sound, Permits
<1> QED BY <1>1, <1>2, <1>4 DEF t

LEMMA EnqueueKeeps ==
  ASSUME NEW Tasks, NEW s \in Semaphores(Tasks), Sound(s),
         NEW p \in Tasks, p \notin Queued(s) \cup s.woken
  PROVE  /\ Enqueue(s, p) \in Semaphores(Tasks)
         /\ Sound(Enqueue(s, p))
         /\ Permits(Enqueue(s, p)) = Permits(s)
         /\ Queued(Enqueue(s, p)) = Queued(s) \cup {p}
         /\ Enqueue(s, p).woken = s.woken
<1> DEFINE t == Enqueue(s, p)
           n == Len(s.waiting)
<1>0. /\ s = [value |-> s.value, waiting |-> s.waiting, woken |-> s.woken]
      /\ s.value \in Nat /\ s.waiting \in Seq(Tasks) /\ s.woken \subseteq Tasks
  BY DEF Semaphores
<1>1. /\ s.waiting \in Seq(Tasks)
      /\ n \in Nat
      /\ t.value = s.value /\ t.woken = s.woken
      /\ t.waiting = Append(s.waiting, p)
      /\ t \in Semaphores(Tasks)
  <2>1. t = [value |-> s.value, waiting |-> Append(s.waiting, p),
             woken |-> s.woken]
    BY Update DEF Enqueue
  <2>2. Append(s.waiting, p) \in Seq(Tasks)
    BY <1>0
  <2>3. n \in Nat
    BY <1>0
  <2> HIDE DEF t, n
  <2> QED BY <1>0, <2>1, <2>2, <2>3 DEF Semaphores
<1> HIDE DEF t
<1>2. /\ Len(t.waiting) = n + 1
      /\ \A i \in 1..n : t.waiting[i] = s.waiting[i]
      /\ t.waiting[n + 1] = p
  BY <1>1
<1>3. Queued(t) = Queued(s) \cup {p}
  <2>1. 1..(n + 1) = (1..n) \cup {n + 1}
    BY <1>1
  <2> HIDE DEF n
  <2>2. Queued(t) = {t.waiting[i] : i \in (1..n) \cup {n + 1}}
    BY <1>2, <2>1 DEF Queued
  <2>3. Queued(s) = {s.waiting[i] : i \in 1..n}
    BY DEF Queued, n
  <2> QED BY <1>2, <2>2, <2>3
<1>4. \A i, k \in 1..Len(t.waiting) : t.waiting[i] = t.waiting[k] => i = k
  <2>1. \A i, k \in 1..n : s.waiting[i] = s.waiting[k] => i = k
    BY DEF Sound
  <2>2. \A i \in 1..n : s.waiting[i] # p
    BY DEF Queued
  <2> HIDE DEF n
  <2> QED BY <1>1, <1>2, <2>1, <2>2
<1>5. Sound(t)
  BY <1>1, <1>3, <1>4 DEF Sound
<1>6. Permits(t) = Permits(s)
  BY <1>1 DEF Permits
<1> QED BY <1>1, <1>3, <1>5, <1>6 DEF t

(* Whoever leaves a line leaves the others as they were.                     *)
LEMMA WithoutTakes ==
  ASSUME NEW Tasks, NEW l \in Seq(Tasks), NEW p,
         \E i \in 1..Len(l) : l[i] = p,
         \A a, b \in 1..Len(l) : l[a] = l[b] => a = b
  PROVE  LET t == Without(l, p)
         IN  /\ t \in Seq(Tasks) /\ Len(t) = Len(l) - 1
             /\ {t[i] : i \in 1..Len(t)} = {l[i] : i \in 1..Len(l)} \ {p}
             /\ \A i, k \in 1..Len(t) : t[i] = t[k] => i = k
             /\ \A i \in 1..Len(t) : \E k \in i..Len(l) : t[i] = l[k]
             /\ l[1] # p => Len(t) # 0 /\ t[1] = l[1]
<1> DEFINE n == Len(l)
           at == CHOOSE i \in 1..n : l[i] = p
           t == Without(l, p)
           old(i) == IF i < at THEN i ELSE i + 1
<1>1. n \in Nat
  OBVIOUS
<1>2. at \in 1..n /\ l[at] = p
  OBVIOUS
<1>3. t = [i \in 1..(n - 1) |-> IF i < at THEN l[i] ELSE l[i + 1]]
  BY DEF Without
<1> HIDE DEF at, t
<1>4. \A i \in 1..(n - 1) : l[i] \in Tasks /\ l[i + 1] \in Tasks
  OBVIOUS
<1>5. t \in Seq(Tasks) /\ Len(t) = n - 1
  <2>1. n - 1 \in Nat
    BY <1>1, <1>2
  <2>2. \A i \in 1..(n - 1) : t[i] \in Tasks
    BY <1>3, <1>4
  <2>3. t = [i \in 1..(n - 1) |-> t[i]]
    BY <1>3
  <2>4. [i \in 1..(n - 1) |-> t[i]] \in Seq(Tasks)
    BY <2>1, <2>2, IsASeq
  <2>5. DOMAIN t = 1..(n - 1)
    BY <1>3
  <2> QED BY <2>1, <2>3, <2>4, <2>5, LenProperties
<1>6. \A i \in 1..(n - 1) : /\ old(i) \in i..n /\ old(i) # at
                             /\ t[i] = l[old(i)]
  <2> SUFFICES ASSUME NEW i \in 1..(n - 1)
               PROVE  old(i) \in i..n /\ old(i) # at /\ t[i] = l[old(i)]
    OBVIOUS
  <2>1. old(i) \in i..n /\ old(i) # at
    BY <1>1, <1>2
  <2>2. t[i] = IF i < at THEN l[i] ELSE l[i + 1]
    BY <1>3
  <2> QED BY <2>1, <2>2
<1>7. \A i, k \in 1..(n - 1) : old(i) = old(k) => i = k
  BY <1>1, <1>2
<1>8. l[1] # p => n - 1 # 0 /\ t[1] = l[1]
  <2> SUFFICES ASSUME l[1] # p PROVE n - 1 # 0 /\ t[1] = l[1]
    OBVIOUS
  <2>1. 1 < at /\ 1 \in 1..(n - 1)
    BY <1>1, <1>2
  <2> QED BY <1>1, <1>3, <2>1
<1>9. \A i \in 1..(n - 1) : old(i) \in 1..n
  BY <1>1, <1>6
<1> HIDE DEF old
<1>10. {t[i] : i \in 1..(n - 1)} = {l[i] : i \in 1..n} \ {p}
  <2>1. ASSUME NEW i \in 1..(n - 1)
        PROVE  t[i] \in {l[k] : k \in 1..n} \ {p}
    BY <1>2, <1>6, <1>9
  <2>2. ASSUME NEW m \in 1..n, l[m] # p
        PROVE  \E i \in 1..(n - 1) : t[i] = l[m]
    <3>1. CASE m < at
      BY <1>1, <1>2, <1>3, <3>1
    <3>2. CASE m > at
      <4>1. m - 1 \in 1..(n - 1) /\ ~(m - 1 < at) /\ (m - 1) + 1 = m
        BY <1>1, <1>2, <3>2
      <4> QED BY <1>3, <4>1
    <3> QED BY <1>1, <1>2, <2>2, <3>1, <3>2
  <2>3. {t[i] : i \in 1..(n - 1)} \subseteq {l[i] : i \in 1..n} \ {p}
    BY <2>1
  <2>4. {l[i] : i \in 1..n} \ {p} \subseteq {t[i] : i \in 1..(n - 1)}
    BY <2>2
  <2> QED BY <2>3, <2>4
<1>11. \A i, k \in 1..(n - 1) : t[i] = t[k] => i = k
  BY <1>6, <1>7, <1>9
<1>12. \A i \in 1..(n - 1) : \E k \in i..n : t[i] = l[k]
  BY <1>6
<1> QED BY <1>5, <1>8, <1>10, <1>11, <1>12 DEF t

LEMMA WithdrawKeeps ==
  ASSUME NEW Tasks, NEW s \in Semaphores(Tasks), Sound(s),
         NEW p, IsWaiting(s, p)
  PROVE  /\ Withdraw(s, p) \in Semaphores(Tasks)
         /\ Sound(Withdraw(s, p))
         /\ Permits(Withdraw(s, p)) = Permits(s)
         /\ Queued(Withdraw(s, p)) = Queued(s) \ {p}
         /\ Withdraw(s, p).woken = s.woken
<1> DEFINE rest == Without(s.waiting, p)
           t == Withdraw(s, p)
<1>1. t = [value |-> s.value, waiting |-> rest, woken |-> s.woken]
  BY DEF Withdraw, Semaphores
<1>2. /\ rest \in Seq(Tasks)
      /\ {rest[i] : i \in 1..Len(rest)} = {s.waiting[i] : i \in 1..Len(s.waiting)} \ {p}
      /\ \A i, k \in 1..Len(rest) : rest[i] = rest[k] => i = k
  BY WithoutTakes DEF Semaphores, Sound, IsWaiting
<1> HIDE DEF rest, t
<1>3. /\ t.value = s.value /\ t.waiting = rest /\ t.woken = s.woken
      /\ t \in Semaphores(Tasks)
  BY <1>1, <1>2 DEF Semaphores
<1>4. Queued(t) = Queued(s) \ {p}
  BY <1>2, <1>3 DEF Queued
<1>5. Sound(t)
  BY <1>2, <1>3, <1>4 DEF Sound
<1>6. Permits(t) = Permits(s)
  BY <1>3 DEF Permits
<1> QED BY <1>3, <1>4, <1>5, <1>6 DEF t
=============================================================================
