------------------------- MODULE BrowserProxyProofs -------------------------
(* What the browser's proxy dials, for any number of connections and slots,   *)
(* any hosts and a DNS that answers whatever it likes each time.              *)
EXTENDS BrowserProxy, AsyncSemaphoreProofs, FiniteSetTheorems, TLAPS

(* Answers are sequences; a host's are among them.                            *)
AnswersOK(Addresses) == Resolves \in [Names -> SUBSET Seq(Addresses)]

Waiting == {"none", "guard", "slot", "header", "resolve"}

Types ==
  /\ conn \in [Connections -> {"none", "guard", "slot", "leaving"} \cup Inside]
  /\ host \in [Connections -> Names \cup {Nobody}]
  /\ DOMAIN answer = Connections /\ DOMAIN untried = Connections
  /\ DOMAIN upstream = Connections

(* Nothing is dialled before an answer was vetted, and whoever resolves a     *)
(* name has one.                                                              *)
Unconnected ==
  \A c \in Connections :
    /\ conn[c] \in Waiting \cup {"connect"} => upstream[c] = Nobody
    /\ conn[c] = "resolve" => host[c] \in Names

(* What is still to be dialled is part of the vetted answer.                  *)
Dialling(Addresses) ==
  \A c \in Connections : conn[c] = "connect" =>
    /\ untried[c] \in Seq(Addresses) /\ untried[c] # <<>>
    /\ AddressesOf(untried[c]) \subseteq AddressesOf(answer[c])

Inv(Addresses) ==
  Types /\ Unconnected /\ Dialling(Addresses) /\ ProxyOnlyVetted

-----------------------------------------------------------------------------
LEMMA InitInv == ASSUME NEW Addresses PROVE Init => Inv(Addresses)
BY DEF Init, Inv, Types, Unconnected, Dialling, ProxyOnlyVetted, Waiting, Inside

(* The first and the other addresses of a list are addresses of it.           *)
LEMMA ListParts ==
  ASSUME NEW Addresses, NEW l \in Seq(Addresses), l # <<>>
  PROVE  /\ Head(l) \in AddressesOf(l)
         /\ Tail(l) \in Seq(Addresses)
         /\ AddressesOf(Tail(l)) \subseteq AddressesOf(l)
         /\ Len(l) # 1 => Tail(l) # <<>>
<1>1. Len(l) \in Nat \ {0} /\ DOMAIN l = 1..Len(l) /\ Head(l) = l[1]
  OBVIOUS
<1>2. /\ Tail(l) \in Seq(Addresses) /\ Len(Tail(l)) = Len(l) - 1
      /\ DOMAIN Tail(l) = 1..(Len(l) - 1)
      /\ \A i \in 1..(Len(l) - 1) : Tail(l)[i] = l[i + 1]
  OBVIOUS
<1>3. Head(l) \in AddressesOf(l)
  BY <1>1 DEF AddressesOf
<1>4. AddressesOf(Tail(l)) \subseteq AddressesOf(l)
  BY <1>1, <1>2 DEF AddressesOf
<1>5. Len(l) # 1 => Tail(l) # <<>>
  <2>1. Len(<<>>) = 0
    OBVIOUS
  <2>2. Len(l) # 1 => Len(Tail(l)) # 0
    BY <1>1, <1>2
  <2> QED BY <2>1, <2>2
<1> QED BY <1>2, <1>3, <1>4, <1>5

(* A step that moves one connection to a wait where it dials nothing.         *)
LEMMA MoveInv ==
  ASSUME NEW Addresses, Inv(Addresses), NEW c \in Connections,
         NEW l \in {"none", "guard", "slot", "header", "resolve", "tunnel", "leaving"},
         Goto(c, l), UNCHANGED <<host, answer, untried, upstream>>,
         l \in Waiting => upstream[c] = Nobody,
         l = "resolve" => host[c] \in Names
  PROVE  Inv(Addresses)'
<1> USE DEF Inv
<1>1. Types'
  BY DEF Types, Goto, Inside
<1>2. Unconnected'
  BY DEF Types, Unconnected, Goto, Waiting
<1>3. Dialling(Addresses)'
  BY DEF Types, Dialling, Goto
<1>4. ProxyOnlyVetted'
  BY DEF Types, ProxyOnlyVetted, Goto
<1> QED BY <1>1, <1>2, <1>3, <1>4

(* A request begins: it waits for the guard, for a slot or for its header.    *)
LEMMA BeginInv ==
  ASSUME NEW Addresses, Inv(Addresses), NEW c \in Connections, conn[c] = "none",
         NEW h \in Names \cup {Nobody}, host' = [host EXCEPT ![c] = h],
         NEW l \in {"none", "guard", "slot", "header"}, Goto(c, l),
         UNCHANGED <<answer, untried, upstream>>
  PROVE  Inv(Addresses)'
<1> USE DEF Inv
<1>1. Types'
  BY DEF Types, Goto, Inside
<1>2. Unconnected'
  BY DEF Types, Unconnected, Goto, Waiting
<1>3. Dialling(Addresses)'
  BY DEF Types, Dialling, Goto
<1>4. ProxyOnlyVetted'
  BY DEF Types, ProxyOnlyVetted, Unconnected, Goto, Waiting
<1> QED BY <1>1, <1>2, <1>3, <1>4

LEMMA ForgetInv ==
  ASSUME NEW Addresses, Inv(Addresses), NEW c \in Connections, Forget(c)
  PROVE  Inv(Addresses)'
<1> USE DEF Inv
<1>1. Types'
  BY DEF Types, Forget, Goto, Inside
<1>2. Unconnected'
  BY DEF Types, Unconnected, Forget, Goto, Waiting
<1>3. Dialling(Addresses)'
  BY DEF Types, Dialling, Forget, Goto
<1>4. ProxyOnlyVetted'
  BY DEF Types, ProxyOnlyVetted, Forget, Goto
<1> QED BY <1>1, <1>2, <1>3, <1>4

(* A vetted answer is what the next addresses are taken from.                 *)
LEMMA ResolveInv ==
  ASSUME NEW Addresses, AnswersOK(Addresses), Inv(Addresses),
         NEW c \in Connections, Resolve(c)
  PROVE  Inv(Addresses)'
<1> USE DEF Inv
<1>1. conn[c] = "resolve" /\ host[c] \in Names /\ upstream[c] = Nobody
  BY DEF Resolve, Running, Unconnected, Waiting
<1>2. PICK l \in Resolves[host[c]] :
        /\ answer' = [answer EXCEPT ![c] = l]
        /\ IF Clean(l)
             THEN /\ untried' = [untried EXCEPT ![c] = l]
                  /\ Goto(c, "connect") /\ UNCHANGED slots
             ELSE Leave(c) /\ UNCHANGED untried
  BY DEF Resolve
<1>3. l \in Seq(Addresses) /\ UNCHANGED <<host, upstream>>
  BY <1>1 DEF AnswersOK, Resolve
<1>4. CASE Clean(l)
  <2>1. Types'
    BY <1>2, <1>3, <1>4 DEF Types, Goto, Inside
  <2>2. Unconnected'
    BY <1>1, <1>2, <1>3, <1>4 DEF Types, Unconnected, Goto, Waiting
  <2>3. Dialling(Addresses)'
    BY <1>2, <1>3, <1>4 DEF Types, Dialling, Goto, Clean
  <2>4. ProxyOnlyVetted'
    <3>1. Head(l) \in AddressesOf(l) /\ AddressesOf(l) \cap Forbidden = {}
      BY <1>3, <1>4, ListParts DEF Clean
    <3> QED BY <1>1, <1>2, <1>3, <1>4, <3>1 DEF Types, ProxyOnlyVetted, Goto
  <2> QED BY <2>1, <2>2, <2>3, <2>4
<1>5. CASE ~Clean(l)
  <2>1. Types'
    BY <1>2, <1>3, <1>5 DEF Types, Leave, Goto, Inside
  <2>2. Unconnected'
    BY <1>1, <1>2, <1>3, <1>5 DEF Types, Unconnected, Leave, Goto, Waiting
  <2>3. Dialling(Addresses)'
    BY <1>2, <1>3, <1>5 DEF Types, Dialling, Leave, Goto
  <2>4. ProxyOnlyVetted'
    BY <1>1, <1>2, <1>3, <1>5 DEF Types, ProxyOnlyVetted, Leave, Goto
  <2> QED BY <2>1, <2>2, <2>3, <2>4
<1> QED BY <1>4, <1>5

(* The next address is dialled, with success or not.                          *)
LEMMA ConnectInv ==
  ASSUME NEW Addresses, Inv(Addresses), NEW c \in Connections,
         Connect(c) \/ ConnectFails(c)
  PROVE  Inv(Addresses)'
<1> USE DEF Inv
<1>1. /\ conn[c] = "connect" /\ upstream[c] = Nobody
      /\ untried[c] \in Seq(Addresses) /\ untried[c] # <<>>
      /\ AddressesOf(untried[c]) \subseteq AddressesOf(answer[c])
  BY DEF Connect, ConnectFails, Running, Unconnected, Dialling
<1>2. /\ Head(untried[c]) \in AddressesOf(untried[c])
      /\ Tail(untried[c]) \in Seq(Addresses)
      /\ AddressesOf(Tail(untried[c])) \subseteq AddressesOf(untried[c])
      /\ Len(untried[c]) # 1 => Tail(untried[c]) # <<>>
  BY <1>1, ListParts
<1>3. CASE Connect(c)
  <2>1. Types'
    BY <1>3 DEF Connect, Types, Goto, Inside
  <2>2. Unconnected'
    BY <1>3 DEF Connect, Types, Unconnected, Goto, Waiting
  <2>3. Dialling(Addresses)'
    BY <1>3 DEF Connect, Types, Dialling, Goto
  <2>4. ProxyOnlyVetted'
    BY <1>1, <1>2, <1>3 DEF Connect, Types, ProxyOnlyVetted, Goto
  <2> QED BY <2>1, <2>2, <2>3, <2>4
<1>4. CASE ConnectFails(c)
  <2>1. /\ untried' = [untried EXCEPT ![c] = Tail(@)]
        /\ UNCHANGED <<host, answer, upstream>>
        /\ \/ Len(untried[c]) = 1 /\ conn' = [conn EXCEPT ![c] = "leaving"]
           \/ Len(untried[c]) # 1 /\ UNCHANGED conn
    BY <1>4 DEF ConnectFails, Leave, Goto
  <2>2. Types'
    BY <2>1 DEF Types, Inside
  <2>3. Unconnected'
    BY <2>1 DEF Types, Unconnected, Waiting
  <2>4. Dialling(Addresses)'
    BY <1>1, <1>2, <2>1 DEF Types, Dialling
  <2>5. ProxyOnlyVetted'
    <3>1. Len(untried[c]) # 1 => Head(Tail(untried[c])) \in AddressesOf(answer[c])
      BY <1>1, <1>2, ListParts
    <3> QED BY <1>1, <2>1, <3>1 DEF Types, ProxyOnlyVetted
  <2> QED BY <2>2, <2>3, <2>4, <2>5
<1> QED BY <1>3, <1>4

LEMMA StepInv ==
  ASSUME NEW Addresses, AnswersOK(Addresses)
  PROVE  Inv(Addresses) /\ [Next]_vars => Inv(Addresses)'
<1> SUFFICES ASSUME Inv(Addresses), [Next]_vars PROVE Inv(Addresses)'
  OBVIOUS
<1>1. ASSUME UNCHANGED <<conn, request>> PROVE Inv(Addresses)'
  BY <1>1 DEF request, Inv, Types, Unconnected, Dialling, ProxyOnlyVetted
<1>2. CASE Close \/ Drop \/ Closed \/ (\E c \in Connections : Lose(c)) \/ UNCHANGED vars
  BY <1>1, <1>2 DEF Close, Drop, Closed, Lose, vars
<1>3. ASSUME NEW c \in Connections, NEW h \in Names \cup {Nobody}, conn[c] = "none",
             \/ h \in Names /\ Browse(c, h)
             \/ Unguarded(c, h)
      PROVE  Inv(Addresses)'
  BY <1>3, BeginInv DEF Browse, Unguarded, Arrive
<1>4. ASSUME NEW c \in Connections, Guard(c) PROVE Inv(Addresses)'
  <2>1. upstream[c] = Nobody
    BY <1>4 DEF Guard, Inv, Unconnected, Waiting
  <2>2. PICK l \in {"none", "slot", "header"} :
          Goto(c, l) /\ UNCHANGED <<host, answer, untried, upstream>>
    BY <1>4 DEF Guard, Arrive
  <2> QED BY <2>1, <2>2, MoveInv
<1>5. ASSUME NEW c \in Connections, Handler(c) PROVE Inv(Addresses)'
  <2>1. CASE Woken(c) \/ Header(c)
    BY <1>5, <2>1, MoveInv DEF Woken, Header, Running, request, Inv, Types, Unconnected, Waiting
  <2>2. ASSUME Goto(c, "leaving"), UNCHANGED request PROVE Inv(Addresses)'
    BY <2>2, MoveInv DEF request, Waiting
  <2>3. CASE HeaderFails(c) \/ TunnelEnds(c) \/ Cancelled(c)
    BY <2>2, <2>3, ForgetInv DEF HeaderFails, TunnelEnds, Cancelled, Leave
  <2>4. CASE Left(c)
    BY <2>4, ForgetInv DEF Left
  <2> QED BY <1>5, <2>1, <2>3, <2>4, ResolveInv, ConnectInv DEF Handler
<1> QED
  BY <1>2, <1>3, <1>4, <1>5 DEF Next, Browse, Unguarded

(* However requests reach the proxy, ahead of their guard or past it, and     *)
(* whatever the DNS told the guard: it dials only addresses of an answer of   *)
(* its own, and of none that holds a prohibited address.                      *)
THEOREM OnlyVettedDialled ==
  ASSUME NEW Addresses, AnswersOK(Addresses)
  PROVE  Spec => []ProxyOnlyVetted
<1>1. Init => Inv(Addresses)
  BY InitInv
<1>2. Inv(Addresses) /\ [Next]_vars => Inv(Addresses)'
  BY StepInv
<1>3. Inv(Addresses) => ProxyOnlyVetted
  BY DEF Inv
<1> QED BY <1>1, <1>2, <1>3, PTL DEF Spec

-----------------------------------------------------------------------------
(* What close() leaves.                                                       *)
Users == {c \in Connections : conn[c] \in Inside}

(* Every permit is free, promised to a handler that waits, or one handler's.  *)
SlotsOK ==
  /\ slots \in Semaphores(Connections) /\ Sound(slots)
  /\ \A c \in Queued(slots) \cup slots.woken : conn[c] = "slot"
  /\ Permits(slots) + Cardinality(Users) = Slots

(* Once close() has cancelled the handlers nobody waits in line, and who was  *)
(* cancelled stays until the exception has reached him.                       *)
Closing ==
  /\ serving \in {"open", "closing", "cancelling", "closed"}
  /\ serving \in {"cancelling", "closed"} => Queued(slots) = {}
  /\ \A c \in doomed : c \in Connections /\ Handled(c)
  /\ doomed # {} => serving \in {"cancelling", "closed"}
  /\ serving = "closed" => \A c \in Connections : ~Handled(c)

Holds(l) == IF l \in Inside THEN 1 ELSE 0

(* One handler moves and takes its permit, or its promise, along.             *)
LEMMA SlotStep ==
  ASSUME IsFiniteSet(Connections), Types, SlotsOK, NEW c \in Connections, Types',
         \A d \in Connections \ {c} : conn'[d] = conn[d],
         slots' \in Semaphores(Connections), Sound(slots'),
         Queued(slots') \cup slots'.woken \subseteq Queued(slots) \cup slots.woken \cup {c},
         c \in Queued(slots') \cup slots'.woken => conn'[c] = "slot",
         Permits(slots') + Holds(conn'[c]) = Permits(slots) + Holds(conn[c])
  PROVE  SlotsOK'
<1> DEFINE others == {d \in Connections \ {c} : conn[d] \in Inside}
<1>1. IsFiniteSet(others) /\ c \notin others
  BY FS_Subset
<1>2. Users = IF conn[c] \in Inside THEN others \cup {c} ELSE others
  BY DEF Users
<1>3. Users' = IF conn'[c] \in Inside THEN others \cup {c} ELSE others
  BY DEF Users
<1> HIDE DEF others
<1>4. /\ Cardinality(others) \in Nat
      /\ Cardinality(others \cup {c}) = Cardinality(others) + 1
  BY <1>1, FS_AddElement, FS_CardinalityType
<1>5. /\ Cardinality(Users) = Cardinality(others) + Holds(conn[c])
      /\ Cardinality(Users') = Cardinality(others) + Holds(conn'[c])
  BY <1>2, <1>3, <1>4 DEF Holds
<1>6. Permits(slots) \in Nat /\ Permits(slots') \in Nat
  BY FS_CardinalityType DEF SlotsOK, Permits, Semaphores, Sound
<1>7. Permits(slots') + Cardinality(Users') = Slots
  BY <1>4, <1>5, <1>6 DEF SlotsOK, Holds
<1>8. Queued(slots') \cup slots'.woken \subseteq Connections
  BY DEF Queued, Semaphores
<1>9. \A d \in Queued(slots') \cup slots'.woken : conn'[d] = "slot"
  BY <1>8 DEF SlotsOK
<1> QED BY <1>7, <1>9 DEF SlotsOK, Permits, Queued, Users

(* It moves and the semaphore stays.                                          *)
LEMMA SlotStays ==
  ASSUME IsFiniteSet(Connections), Types, SlotsOK, NEW c \in Connections, Types',
         NEW l, Goto(c, l), conn[c] # "slot", Holds(l) = Holds(conn[c]), slots' = slots
  PROVE  SlotsOK'
<1>1. conn' = [conn EXCEPT ![c] = l]
  BY DEF Goto
<1>2. c \notin Queued(slots) \cup slots.woken
  BY DEF SlotsOK
<1> QED BY <1>1, <1>2, SlotStep DEF Types, SlotsOK

(* A handler leaves `async with self._slots`.                                 *)
LEMMA LeaveOK ==
  ASSUME IsFiniteSet(Connections), Types, SlotsOK, NEW c \in Connections, Types',
         Leave(c), conn[c] \in Inside
  PROVE  SlotsOK' /\ Queued(slots') \subseteq Queued(slots)
<1>1. conn' = [conn EXCEPT ![c] = "leaving"] /\ slots' = Release(slots)
  BY DEF Leave, Goto
<1>2. /\ slots' \in Semaphores(Connections) /\ Sound(slots')
      /\ Permits(slots') = Permits(slots) + 1
      /\ Queued(slots') \cup slots'.woken = Queued(slots) \cup slots.woken
      /\ Queued(slots') \subseteq Queued(slots)
  BY <1>1, ReleaseAdds DEF Serves, SlotsOK
<1>3. c \notin Queued(slots) \cup slots.woken
  BY DEF SlotsOK, Inside
<1>4. Permits(slots) \in Nat
  BY FS_CardinalityType DEF SlotsOK, Permits, Semaphores, Sound
<1>5. Permits(slots') + Holds(conn'[c]) = Permits(slots) + Holds(conn[c])
  BY <1>1, <1>2, <1>4 DEF Holds, Inside, Types
<1>6. SlotsOK'
  BY <1>1, <1>2, <1>3, <1>5, SlotStep DEF Types
<1> QED BY <1>2, <1>6

(* A connection arrives, or finds the server closed.                          *)
LEMMA ArriveOK ==
  ASSUME IsFiniteSet(Connections), Types, SlotsOK, Closing, NEW c \in Connections,
         Types', Arrive(c), conn[c] \in {"none", "guard"}
  PROVE  SlotsOK' /\ Closing'
<1>1. c \notin Queued(slots) \cup slots.woken /\ Holds(conn[c]) = 0 /\ c \notin doomed
  BY DEF SlotsOK, Closing, Handled, Holds, Inside
<1>2. UNCHANGED <<serving, doomed>>
  BY DEF Arrive
<1>3. CASE serving # "open" /\ Goto(c, "none") /\ UNCHANGED slots
  <2>1. SlotsOK'
    BY <1>1, <1>3, SlotStays DEF Holds, Inside
  <2>2. ~Handled(c) /\ \A d \in Connections : Handled(d)' = Handled(d)
    BY <1>3 DEF Goto, Handled, Types, Inside
  <2>3. Closing'
    BY <1>2, <1>3, <2>2 DEF Closing, Queued
  <2> QED BY <2>1, <2>3
<1>4. Permits(slots) \in Nat
  BY FS_CardinalityType DEF SlotsOK, Permits, Semaphores, Sound
<1>5. ASSUME serving = "open", NEW l, Goto(c, l) PROVE Closing'
  BY <1>2, <1>5 DEF Closing
<1>6. CASE serving = "open" /\ CanTake(slots) /\ slots' = Take(slots) /\ Goto(c, "header")
  <2>1. /\ slots' \in Semaphores(Connections) /\ Sound(slots')
        /\ Permits(slots') = Permits(slots) - 1
        /\ Queued(slots') \cup slots'.woken = Queued(slots) \cup slots.woken
    BY <1>6, TakeTakes DEF SlotsOK
  <2>2. conn'[c] = "header" /\ \A d \in Connections \ {c} : conn'[d] = conn[d]
    BY <1>6 DEF Goto, Types
  <2>3. Permits(slots') + Holds(conn'[c]) = Permits(slots) + Holds(conn[c])
    BY <1>1, <1>4, <2>1, <2>2 DEF Holds, Inside
  <2>4. SlotsOK'
    BY <1>1, <2>1, <2>2, <2>3, SlotStep
  <2> QED BY <1>5, <1>6, <2>4
<1>7. CASE serving = "open" /\ slots' = Enqueue(slots, c) /\ Goto(c, "slot")
  <2>1. /\ slots' \in Semaphores(Connections) /\ Sound(slots')
        /\ Permits(slots') = Permits(slots)
        /\ Queued(slots') = Queued(slots) \cup {c}
        /\ slots'.woken = slots.woken
    BY <1>1, <1>7, EnqueueKeeps DEF SlotsOK
  <2>2. conn'[c] = "slot" /\ \A d \in Connections \ {c} : conn'[d] = conn[d]
    BY <1>7 DEF Goto, Types
  <2>3. Permits(slots') + Holds(conn'[c]) = Permits(slots) + Holds(conn[c])
    BY <1>1, <1>4, <2>1, <2>2 DEF Holds, Inside
  <2>4. SlotsOK'
    BY <2>1, <2>2, <2>3, SlotStep
  <2> QED BY <1>5, <1>7, <2>4
<1> QED BY <1>3, <1>6, <1>7 DEF Arrive

(* A handler that runs, or the exception that reaches it, keeps Closing as    *)
(* long as nobody joins the line.                                             *)
LEMMA ClosingKept ==
  ASSUME Types, Closing, NEW c \in Connections, Handled(c), NEW l, Goto(c, l),
         serving' = serving, Queued(slots') \subseteq Queued(slots),
         \/ doomed' = doomed \ {c}
         \/ doomed' = doomed /\ (c \in doomed => l \in {"slot", "leaving"} \cup Inside)
  PROVE  Closing'
<1>1. conn' = [conn EXCEPT ![c] = l]
  BY DEF Goto
<1>2. serving # "closed"
  BY DEF Closing
<1>3. \A d \in doomed' : d \in Connections /\ Handled(d)'
  BY <1>1 DEF Closing, Handled, Types
<1> QED BY <1>2, <1>3 DEF Closing, Queued

LEMMA HandlerOK ==
  ASSUME IsFiniteSet(Connections), Types, SlotsOK, Closing, NEW c \in Connections,
         Types', Handler(c)
  PROVE  SlotsOK' /\ Closing'
<1>1. CASE Woken(c)
  <2>1. /\ conn[c] = "slot" /\ c \in slots.woken /\ c \notin doomed
        /\ slots' = Resume(slots, c) /\ Goto(c, "header") /\ UNCHANGED <<serving, doomed>>
    BY <1>1 DEF Woken, Running
  <2>2. /\ slots' \in Semaphores(Connections) /\ Sound(slots')
        /\ Permits(slots') = Permits(slots) - 1
        /\ Queued(slots') \cup slots'.woken = (Queued(slots) \cup slots.woken) \ {c}
        /\ Queued(slots') \subseteq Queued(slots)
    BY <2>1, ResumeTakes DEF SlotsOK
  <2>3. conn'[c] = "header" /\ \A d \in Connections \ {c} : conn'[d] = conn[d]
    BY <2>1 DEF Goto, Types
  <2>4. Permits(slots) \in Nat
    BY FS_CardinalityType DEF SlotsOK, Permits, Semaphores, Sound
  <2>5. Permits(slots') + Holds(conn'[c]) = Permits(slots) + Holds(conn[c])
    BY <2>1, <2>2, <2>3, <2>4 DEF Holds, Inside
  <2>6. SlotsOK'
    BY <2>2, <2>3, <2>5, SlotStep
  <2>7. Closing'
    BY <2>1, <2>2, ClosingKept DEF Handled
  <2> QED BY <2>6, <2>7
<1>2. ASSUME NEW l \in Inside, Goto(c, l), conn[c] \in Inside, c \notin doomed,
             UNCHANGED <<serving, slots, doomed>>
      PROVE  SlotsOK' /\ Closing'
  <2>1. SlotsOK'
    BY <1>2, SlotStays DEF Holds, Inside
  <2>2. Closing'
    BY <1>2, ClosingKept DEF Handled
  <2> QED BY <2>1, <2>2
<1>3. ASSUME Leave(c), conn[c] \in Inside, UNCHANGED serving,
             doomed' = doomed \ {c} \/ doomed' = doomed
      PROVE  SlotsOK' /\ Closing'
  <2>1. SlotsOK' /\ Queued(slots') \subseteq Queued(slots)
    BY <1>3, LeaveOK
  <2>2. Closing'
    BY <1>3, <2>1, ClosingKept DEF Leave, Handled
  <2> QED BY <2>1, <2>2
<1>4. ASSUME Forget(c), conn[c] = "leaving", UNCHANGED <<slots, serving>>,
             doomed' = doomed \ {c}
      PROVE  SlotsOK' /\ Closing'
  <2>1. SlotsOK'
    BY <1>4, SlotStays DEF Forget, Holds, Inside
  <2>2. Closing'
    BY <1>4, ClosingKept DEF Forget, Handled
  <2> QED BY <2>1, <2>2
<1>5. CASE Header(c) \/ Connect(c)
  BY <1>2, <1>5 DEF Header, Connect, Running, Inside
<1>6. CASE Resolve(c)
  <2>1. /\ conn[c] = "resolve" /\ c \notin doomed /\ UNCHANGED <<serving, doomed>>
        /\ \/ Goto(c, "connect") /\ UNCHANGED slots
           \/ Leave(c)
    BY <1>6 DEF Resolve, Running
  <2> QED BY <1>2, <1>3, <2>1 DEF Inside
<1>7. CASE ConnectFails(c)
  <2>1. /\ conn[c] = "connect" /\ c \notin doomed /\ UNCHANGED <<serving, doomed>>
        /\ \/ UNCHANGED <<slots, conn>>
           \/ Leave(c)
    BY <1>7 DEF ConnectFails, Running
  <2>2. CASE UNCHANGED <<slots, conn>>
    <3>1. Goto(c, "connect")
      BY <2>1, <2>2 DEF Goto, Types
    <3> QED BY <1>2, <2>1, <2>2, <3>1 DEF Inside
  <2> QED BY <1>3, <2>1, <2>2 DEF Inside
<1>8. CASE HeaderFails(c) \/ TunnelEnds(c)
  BY <1>3, <1>8 DEF HeaderFails, TunnelEnds, Running, Inside
<1>9. CASE Left(c)
  BY <1>4, <1>9 DEF Left, Running
<1>10. CASE Cancelled(c)
  <2>1. /\ c \in doomed /\ doomed' = doomed \ {c} /\ UNCHANGED serving
        /\ Queued(slots) = {} /\ Handled(c)
    BY <1>10 DEF Cancelled, Closing
  <2>2. CASE conn[c] = "leaving"
    BY <1>4, <1>10, <2>1, <2>2 DEF Cancelled
  <2>3. CASE conn[c] = "slot"
    <3>1. slots' = GiveBack(slots, c) /\ Goto(c, "leaving")
      BY <1>10, <2>3 DEF Cancelled
    <3>2. /\ slots' \in Semaphores(Connections) /\ Sound(slots')
          /\ Permits(slots') = Permits(slots)
          /\ Queued(slots') \cup slots'.woken = (Queued(slots) \cup slots.woken) \ {c}
          /\ Queued(slots') \subseteq Queued(slots)
      BY <2>1, <3>1, GiveBackKeeps DEF SlotsOK
    <3>3. conn'[c] = "leaving" /\ \A d \in Connections \ {c} : conn'[d] = conn[d]
      BY <3>1 DEF Goto, Types
    <3>4. Permits(slots') + Holds(conn'[c]) = Permits(slots) + Holds(conn[c])
      BY <2>3, <3>2, <3>3 DEF Holds, Inside
    <3>5. SlotsOK'
      BY <3>2, <3>3, <3>4, SlotStep
    <3>6. Closing'
      BY <2>1, <3>1, <3>2, ClosingKept
    <3> QED BY <3>5, <3>6
  <2>4. CASE conn[c] \in Inside
    <3>1. Leave(c)
      BY <1>10, <2>4 DEF Cancelled, Inside
    <3> QED BY <1>3, <2>1, <2>4, <3>1
  <2> QED BY <2>1, <2>2, <2>3, <2>4 DEF Handled
<1> QED
  BY <1>1, <1>5, <1>6, <1>7, <1>8, <1>9, <1>10 DEF Handler

LEMMA SlotsKept ==
  ASSUME SlotsOK, UNCHANGED <<slots, conn>>
  PROVE  /\ SlotsOK' /\ Queued(slots') = Queued(slots)
         /\ \A c \in Connections : Handled(c)' = Handled(c)
<1>1. Users' = Users
  BY DEF Users
<1>2. Sound(slots') = Sound(slots) /\ Permits(slots') = Permits(slots)
  BY DEF Sound, Permits, Queued
<1>3. Queued(slots') = Queued(slots)
  BY DEF Queued
<1>4. SlotsOK'
  BY <1>1, <1>2, <1>3 DEF SlotsOK, Sound, Permits, Queued
<1> QED BY <1>3, <1>4 DEF Handled

LEMMA CloseOK ==
  ASSUME SlotsOK, Closing, Close \/ Drop \/ Closed
  PROVE  SlotsOK' /\ Closing'
<1>1. CASE Close
  BY <1>1 DEF Close, SlotsOK, Closing, Users, Permits, Queued, Sound, Handled
<1>2. CASE Closed
  <2>1. /\ UNCHANGED <<slots, conn, doomed>> /\ serving = "cancelling"
        /\ serving' = "closed" /\ \A c \in Connections : ~Handled(c)
    BY <1>2 DEF Closed
  <2>2. doomed' = {}
    BY <2>1 DEF Closing
  <2>3. Closing'
    BY <2>1, <2>2, SlotsKept DEF Closing, Queued
  <2> QED BY <2>1, <2>3, SlotsKept
<1>3. CASE Drop
  <2>1. /\ slots' = [value |-> slots.value, waiting |-> <<>>, woken |-> slots.woken]
        /\ serving' = "cancelling" /\ conn' = conn
        /\ doomed' = {c \in Connections : Handled(c)}
    BY <1>3, Update DEF Drop, SlotsOK
  <2>2. /\ slots'.value = slots.value /\ slots'.waiting = <<>> /\ slots'.woken = slots.woken
        /\ Queued(slots') = {}
    BY <2>1 DEF Queued
  <2>3. slots' \in Semaphores(Connections) /\ Sound(slots')
    BY <2>1, <2>2 DEF SlotsOK, Semaphores, Sound
  <2>4. SlotsOK'
    BY <2>1, <2>2, <2>3 DEF SlotsOK, Users, Permits, Queued
  <2>5. Closing'
    BY <2>1, <2>2 DEF Closing, Queued, Handled
  <2> QED BY <2>4, <2>5
<1> QED BY <1>1, <1>2, <1>3

LEMMA SlotsInv ==
  ASSUME IsFiniteSet(Connections), Types, Types', SlotsOK, Closing, [Next]_vars
  PROVE  SlotsOK' /\ Closing'
<1>1. ASSUME UNCHANGED <<serving, slots, conn, doomed>> PROVE SlotsOK' /\ Closing'
  <2>1. Closing'
    BY <1>1, SlotsKept DEF Closing, Queued
  <2> QED BY <1>1, <2>1, SlotsKept
<1>2. ASSUME NEW c \in Connections, conn[c] \in {"none", "guard"},
             NEW l \in {"none", "guard"}, Goto(c, l),
             UNCHANGED <<serving, slots, doomed>>
      PROVE  SlotsOK' /\ Closing'
  <2>1. SlotsOK'
    BY <1>2, SlotStays DEF Holds, Inside
  <2>2. ~Handled(c) /\ \A d \in Connections : Handled(d)' = Handled(d)
    BY <1>2 DEF Goto, Handled, Types, Inside
  <2>3. Closing'
    BY <1>2, <2>2 DEF Closing, Queued
  <2> QED BY <2>1, <2>3
<1>3. ASSUME NEW c \in Connections, NEW h \in Names, Browse(c, h) PROVE SlotsOK' /\ Closing'
  BY <1>2, <1>3 DEF Browse
<1>4. ASSUME NEW c \in Connections, NEW h, Unguarded(c, h) PROVE SlotsOK' /\ Closing'
  BY <1>4, ArriveOK DEF Unguarded
<1>5. ASSUME NEW c \in Connections, Guard(c) PROVE SlotsOK' /\ Closing'
  BY <1>2, <1>5, ArriveOK DEF Guard
<1>6. ASSUME NEW c \in Connections, Lose(c) PROVE SlotsOK' /\ Closing'
  BY <1>1, <1>6 DEF Lose
<1> QED
  BY <1>1, <1>3, <1>4, <1>5, <1>6, HandlerOK, CloseOK DEF Next, vars

LEMMA SlotsInit ==
  ASSUME IsFiniteSet(Connections), Slots \in Nat, Init
  PROVE  SlotsOK /\ Closing
<1>1. slots = [value |-> Slots, waiting |-> <<>>, woken |-> {}]
  BY DEF Init, NewSemaphore
<1>2. Queued(slots) = {} /\ slots.woken = {} /\ Sound(slots)
  BY <1>1, FS_EmptySet DEF Queued, Sound
<1>3. slots \in Semaphores(Connections)
  BY <1>1 DEF Semaphores
<1>4. Users = {}
  BY DEF Users, Init, Inside
<1>5. Permits(slots) + Cardinality(Users) = Slots
  BY <1>1, <1>4, FS_EmptySet DEF Permits
<1> QED BY <1>2, <1>3, <1>5 DEF SlotsOK, Closing, Init

(* In a closed proxy no permit is lent or promised.                           *)
LEMMA Quiet ==
  ASSUME NEW Addresses, Inv(Addresses), SlotsOK, Closing
  PROVE  QuietAfterClose
<1> SUFFICES ASSUME serving = "closed"
             PROVE  /\ \A c \in Connections : ~Handled(c) /\ upstream[c] = Nobody
                    /\ slots = NewSemaphore(Slots)
  BY DEF QuietAfterClose
<1>1. \A c \in Connections : ~Handled(c)
  BY DEF Closing
<1>2. \A c \in Connections : conn[c] \in {"none", "guard"}
  BY <1>1 DEF Inv, Types, Handled
<1>3. \A c \in Connections : upstream[c] = Nobody
  BY <1>2 DEF Inv, Unconnected, Waiting
<1>4. Users = {}
  BY <1>2 DEF Users, Inside
<1>5. slots.woken = {} /\ Queued(slots) = {}
  BY <1>2 DEF SlotsOK, Semaphores, Closing
<1>6. slots.waiting = <<>>
  <2>1. slots.waiting \in Seq(Connections)
    BY DEF SlotsOK, Semaphores
  <2>2. Len(slots.waiting) = 0
    <3>1. Len(slots.waiting) \in Nat
      BY <2>1
    <3>2. ASSUME 1 \in 1..Len(slots.waiting) PROVE FALSE
      BY <1>5, <3>2 DEF Queued
    <3> QED BY <3>1, <3>2
  <2> QED BY <2>1, <2>2
<1>7. slots.value = Slots
  BY <1>4, <1>5, FS_EmptySet DEF SlotsOK, Permits, Semaphores
<1>8. slots = [value |-> Slots, waiting |-> <<>>, woken |-> {}]
  BY <1>5, <1>6, <1>7 DEF SlotsOK, Semaphores
<1> QED BY <1>1, <1>3, <1>8 DEF NewSemaphore

(* Who is reset or cancelled is a connection, and a semaphore never holds     *)
(* more permits than it was made with.                                        *)
LEMMA LostStep ==
  ASSUME lost \subseteq Connections, [Next]_vars
  PROVE  lost' \subseteq Connections
BY DEF Next, vars, Close, Drop, Closed, Guard, Arrive, Lose, Browse, Unguarded, Handler,
  Woken, Header, HeaderFails, Resolve, Connect, ConnectFails, TunnelEnds, Left, Cancelled,
  Forget

LEMMA TypesHold ==
  ASSUME NEW Addresses, IsFiniteSet(Connections), Slots \in Nat,
         Inv(Addresses), SlotsOK, Closing, lost \subseteq Connections
  PROVE  TypeOK
<1>1. slots.value \in 0..Slots
  <2>1. slots.value \in Nat /\ Cardinality(slots.woken) \in Nat
    BY FS_CardinalityType DEF SlotsOK, Semaphores, Sound
  <2>2. Cardinality(Users) \in Nat
    BY FS_Subset, FS_CardinalityType DEF Users
  <2> QED BY <2>1, <2>2 DEF SlotsOK, Permits
<1> QED BY <1>1 DEF TypeOK, Inv, Types, Closing

(* However close() meets handlers that wait for a slot, have just been given  *)
(* one or are leaving: when it is done no handler and no upstream connection  *)
(* is left, and every permit is back.                                         *)
THEOREM QuietWhenClosed ==
  ASSUME NEW Addresses, AnswersOK(Addresses), IsFiniteSet(Connections), Slots \in Nat
  PROVE  Spec => []QuietAfterClose
<1> DEFINE All == Inv(Addresses) /\ SlotsOK /\ Closing
<1>1. Init => All
  BY InitInv, SlotsInit
<1>2. All /\ [Next]_vars => All'
  BY StepInv, SlotsInv DEF Inv
<1>3. All => QuietAfterClose
  BY Quiet
<1> QED BY <1>1, <1>2, <1>3, PTL DEF Spec

(* The proxy's state has its type; in particular it lends no more slots than  *)
(* max_connections.                                                           *)
THEOREM Typing ==
  ASSUME NEW Addresses, AnswersOK(Addresses), IsFiniteSet(Connections), Slots \in Nat
  PROVE  Spec => []TypeOK
<1> DEFINE All == Inv(Addresses) /\ SlotsOK /\ Closing /\ lost \subseteq Connections
<1>1. Init => All
  BY InitInv, SlotsInit DEF Init
<1>2. All /\ [Next]_vars => All'
  BY StepInv, SlotsInv, LostStep DEF Inv
<1>3. All => TypeOK
  BY TypesHold
<1> QED BY <1>1, <1>2, <1>3, PTL DEF Spec
=============================================================================
