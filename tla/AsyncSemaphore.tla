--------------------------- MODULE AsyncSemaphore ---------------------------
(* The asyncio.Semaphore of Python 3.12, the one the Dockerfile installs, as  *)
(* the crawler (CRAWL_MAX_CONCURRENCY) and the browser pool                   *)
(* (MAX_CONCURRENT_SCRAPES) use it.  A semaphore is a record:                 *)
(*   value    permits nobody holds;                                          *)
(*   waiting  the tasks suspended in acquire(), first come first served;     *)
(*   woken    the tasks release() has handed a permit to and the event loop  *)
(*            has not resumed yet: their permit is already taken from value. *)
(* A handed-over permit is what makes cancellation delicate: a task that is  *)
(* cancelled in that window owns a permit it will never use.                 *)
EXTENDS Naturals, Sequences, FiniteSets

NewSemaphore(permits) == [value |-> permits, waiting |-> <<>>, woken |-> {}]

(* locked() is false: a newcomer overtakes neither a task that waits nor one *)
(* that was woken and has not run yet.                                       *)
CanTake(s) == s.value > 0 /\ s.waiting = <<>> /\ s.woken = {}

Take(s) == [s EXCEPT !.value = @ - 1]

Enqueue(s, p) == [s EXCEPT !.waiting = Append(@, p)]

(* Hands a permit to each of the first k waiting tasks.                      *)
Wake(s, k) ==
  [value   |-> s.value - k,
   waiting |-> SubSeq(s.waiting, k + 1, Len(s.waiting)),
   woken   |-> s.woken \cup {s.waiting[i] : i \in 1..k}]

Least(a, b) == IF a <= b THEN a ELSE b

(* The `while self._value > 0` loop that ends every suspended acquire().     *)
WakeAll(s) == Wake(s, Least(s.value, Len(s.waiting)))

(* release(): one more permit, and one waiting task, if any, is handed it.   *)
Release(s) == 
  LET freed == [s EXCEPT !.value = @ + 1]
  IN  Wake(freed, Least(1, Len(s.waiting)))

(* A woken task runs: its permit is now its own.                             *)
Resume(s, p) == WakeAll([s EXCEPT !.woken = @ \ {p}])

IsWaiting(s, p) == \E i \in 1..Len(s.waiting) : s.waiting[i] = p

(* A waiting line that p has left.                                           *)
Without(l, p) ==
  LET at == CHOOSE i \in 1..Len(l) : l[i] = p
  IN  [i \in 1..(Len(l) - 1) |-> IF i < at THEN l[i] ELSE l[i + 1]]

(* task.cancel() while p waits cancels the future it waits on, at once.      *)
Withdraw(s, p) == [s EXCEPT !.waiting = Without(@, p)]

(* The CancelledError reaches acquire(): a permit handed over in the         *)
(* meantime is given back before the exception goes on.                      *)
GiveBack(s, p) ==
  WakeAll(IF p \in s.woken
          THEN [value   |-> s.value + 1,
                waiting |-> s.waiting,
                woken   |-> s.woken \ {p}]
          ELSE s)
=============================================================================
