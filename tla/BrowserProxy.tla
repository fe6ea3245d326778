---------------------------- MODULE BrowserProxy ----------------------------
(* The proxy all of Chromium's traffic takes, network/browser_proxy.py, and   *)
(* the request guards of network/egress.py in front of it.                    *)
(*                                                                            *)
(* A connection is what one request of the browser takes; the handler of the  *)
(* proxy is a task.  External: Chromium, which may connect ahead of any       *)
(* request or vanish; the DNS, which answers anew each time; and asyncio of   *)
(* Python 3.12, where wait_closed() waits until the server has no connection. *)
EXTENDS AsyncSemaphore

CONSTANTS
  Connections,
  Slots,       \* max_connections
  Names,       \* hosts a request may name, literals among them
  Resolves,    \* the answers of parse_ip_literal() or the DNS for each
  Forbidden,   \* the addresses is_blocked_address() is true of
  Nobody

VARIABLES
  serving,   \* how far close() is
  slots,     \* _slots
  conn,      \* the await each connection's request or handler is suspended in
  host,      \* the host its request names; Nobody: it never sends one
  answer,    \* what the handler's resolution brought
  untried,   \* the addresses of it still to be dialled, the first one now
  upstream,  \* the address its upstream connection leads to
  lost,      \* the connections that were reset
  doomed     \* the handlers close() has cancelled that have not run since

request == <<host, answer, untried, upstream>>
vars == <<serving, slots, conn, request, lost, doomed>>

Inside == {"header", "resolve", "connect", "tunnel"}
Handled(c) == conn[c] \in {"slot", "leaving"} \cup Inside

Init ==
  /\ serving = "open" /\ slots = NewSemaphore(Slots)
  /\ conn = [c \in Connections |-> "none"]
  /\ host = [c \in Connections |-> Nobody]
  /\ answer = [c \in Connections |-> <<>>]
  /\ untried = [c \in Connections |-> <<>>]
  /\ upstream = [c \in Connections |-> Nobody]
  /\ lost = {} /\ doomed = {}

Goto(c, l) == conn' = [conn EXCEPT ![c] = l]
AddressesOf(l) == {l[i] : i \in DOMAIN l}

(* Mutant: only the address dialled first is looked at.                       *)
CleanFirst(l) == l # <<>> /\ l[1] \notin Forbidden
(* One prohibited address spoils an answer, for the guard and for the proxy.  *)
Clean(l) == l # <<>> /\ AddressesOf(l) \cap Forbidden = {}

-----------------------------------------------------------------------------
(* The browser.                                                               *)

(* start_server() accepts and _handle() begins: async with self._slots.       *)
Arrive(c) ==
  /\ \/ /\ serving # "open" /\ Goto(c, "none") /\ UNCHANGED slots
     \/ /\ serving = "open" /\ CanTake(slots)
        /\ slots' = Take(slots) /\ Goto(c, "header")
     \/ /\ serving = "open" /\ ~CanTake(slots)
        /\ slots' = Enqueue(slots, c) /\ Goto(c, "slot")
  /\ UNCHANGED <<serving, answer, untried, upstream, lost, doomed>>

(* A request of a guarded page waits for _guard().                            *)
Browse(c, h) ==
  /\ conn[c] = "none"
  /\ host' = [host EXCEPT ![c] = h]
  /\ Goto(c, "guard")
  /\ UNCHANGED <<serving, slots, answer, untried, upstream, lost, doomed>>

Guard(c) ==
  /\ conn[c] = "guard"
  /\ \E l \in Resolves[host[c]] :
       IF Clean(l)
         THEN Arrive(c)
         ELSE Goto(c, "none") /\ UNCHANGED <<serving, slots, answer, untried, upstream, lost, doomed>>
  /\ UNCHANGED host

(* The first request of a popup may go out before its guard is installed, and *)
(* Chromium also connects ahead of anything to send (host Nobody).            *)
Unguarded(c, h) ==
  /\ conn[c] = "none"
  /\ host' = [host EXCEPT ![c] = h]
  /\ Arrive(c)

Lose(c) ==
  /\ Handled(c) /\ c \notin lost
  /\ lost' = lost \cup {c}
  /\ UNCHANGED <<serving, slots, conn, request, doomed>>

-----------------------------------------------------------------------------
(* The handler.                                                               *)
Running(c, l) == conn[c] = l /\ c \notin doomed

(* The end of `async with self._slots`, by an exception or not.               *)
Leave(c) ==
  /\ slots' = Release(slots)
  /\ Goto(c, "leaving")

Woken(c) ==
  /\ Running(c, "slot") /\ c \in slots.woken
  /\ slots' = Resume(slots, c)
  /\ Goto(c, "header")
  /\ UNCHANGED <<serving, request, lost, doomed>>

Header(c) ==
  /\ Running(c, "header") /\ host[c] # Nobody
  /\ Goto(c, "resolve")
  /\ UNCHANGED <<serving, slots, request, lost, doomed>>

(* Mutant: no timeout of readuntil().                                         *)
HeaderLost(c) ==
  /\ Running(c, "header") /\ c \in lost
  /\ Leave(c)
  /\ UNCHANGED <<serving, request, lost, doomed>>

(* No header in time, one that is refused, or the end of the stream.          *)
HeaderFails(c) ==
  /\ Running(c, "header")
  /\ Leave(c)
  /\ UNCHANGED <<serving, request, lost, doomed>>

(* _validated_socket(): the resolution, the proxy's own.                      *)
Resolve(c) ==
  /\ Running(c, "resolve")
  /\ \E l \in Resolves[host[c]] :
       /\ answer' = [answer EXCEPT ![c] = l]
       /\ IF Clean(l)
            THEN /\ untried' = [untried EXCEPT ![c] = l]
                 /\ Goto(c, "connect") /\ UNCHANGED slots
            ELSE Leave(c) /\ UNCHANGED untried
  /\ UNCHANGED <<serving, host, upstream, lost, doomed>>

Connect(c) ==
  /\ Running(c, "connect")
  /\ upstream' = [upstream EXCEPT ![c] = Head(untried[c])]
  /\ Goto(c, "tunnel")
  /\ UNCHANGED <<serving, slots, host, answer, untried, lost, doomed>>

ConnectFails(c) ==
  /\ Running(c, "connect")
  /\ untried' = [untried EXCEPT ![c] = Tail(@)]
  /\ IF Len(untried[c]) = 1 THEN Leave(c) ELSE UNCHANGED <<slots, conn>>
  /\ UNCHANGED <<serving, host, answer, upstream, lost, doomed>>

(* Both copies of _tunnel() ended, or one was idle too long.                  *)
TunnelEnds(c) ==
  /\ Running(c, "tunnel")
  /\ Leave(c)
  /\ UNCHANGED <<serving, request, lost, doomed>>

Forget(c) ==
  /\ Goto(c, "none")
  /\ host' = [host EXCEPT ![c] = Nobody]
  /\ answer' = [answer EXCEPT ![c] = <<>>]
  /\ untried' = [untried EXCEPT ![c] = <<>>]
  /\ upstream' = [upstream EXCEPT ![c] = Nobody]
  /\ lost' = lost \ {c}

(* `finally`: the upstream, then the client's connection.                     *)
Left(c) ==
  /\ Running(c, "leaving")
  /\ Forget(c)
  /\ UNCHANGED <<serving, slots, doomed>>

(* Mutant: the permit is released though the handler never had it.            *)
CancelledReleasing(c) ==
  /\ c \in doomed
  /\ doomed' = doomed \ {c}
  /\ CASE conn[c] = "leaving" -> Forget(c) /\ UNCHANGED slots
       [] OTHER -> Leave(c) /\ UNCHANGED <<request, lost>>
  /\ UNCHANGED serving

(* The CancelledError of close() arrives, in `finally` for the second time.   *)
Cancelled(c) ==
  /\ c \in doomed
  /\ doomed' = doomed \ {c}
  /\ CASE conn[c] = "leaving" -> Forget(c) /\ UNCHANGED slots
       [] conn[c] = "slot" -> slots' = GiveBack(slots, c) /\ Goto(c, "leaving") /\ UNCHANGED <<request, lost>>
       [] OTHER -> Leave(c) /\ UNCHANGED <<request, lost>>
  /\ UNCHANGED serving

-----------------------------------------------------------------------------
(* close().                                                                   *)
Close ==
  /\ serving = "open"
  /\ serving' = "closing"
  /\ UNCHANGED <<slots, conn, request, lost, doomed>>

(* wait_closed() returns; whoever still runs is cancelled.                    *)
Drop ==
  /\ serving = "closing"
  /\ \A c \in Connections : Handled(c) => c \in lost
  /\ serving' = "cancelling"
  /\ doomed' = {c \in Connections : Handled(c)}
  /\ slots' = [slots EXCEPT !.waiting = <<>>]
  /\ UNCHANGED <<conn, request, lost>>

(* Mutant: close() does not wait for what it has cancelled.                   *)
ClosedAtOnce ==
  /\ serving = "cancelling"
  /\ serving' = "closed"
  /\ UNCHANGED <<slots, conn, request, lost, doomed>>

(* gather() returns.                                                          *)
Closed ==
  /\ serving = "cancelling"
  /\ \A c \in Connections : ~Handled(c)
  /\ serving' = "closed"
  /\ UNCHANGED <<slots, conn, request, lost, doomed>>

Handler(c) ==
  \/ Woken(c) \/ Header(c) \/ HeaderFails(c) \/ Resolve(c)
  \/ Connect(c) \/ ConnectFails(c) \/ TunnelEnds(c) \/ Left(c) \/ Cancelled(c)

Next ==
  \/ Close \/ Drop \/ Closed
  \/ \E c \in Connections :
       \/ Guard(c) \/ Lose(c) \/ Handler(c)
       \/ \E h \in Names : Browse(c, h) \/ Unguarded(c, h)
       \/ Unguarded(c, Nobody)

Spec == Init /\ [][Next]_vars

(* wait_for() around every read and connect, the idle timeout of the tunnels, *)
(* the resolver's own: every await of a handler ends.                         *)
Fairness ==
  /\ \A c \in Connections : WF_vars(Handler(c))
  /\ WF_vars(Drop) /\ WF_vars(Closed)

-----------------------------------------------------------------------------
TypeOK ==
  /\ serving \in {"open", "closing", "cancelling", "closed"}
  /\ slots.value \in 0..Slots
  /\ conn \in [Connections -> {"none", "guard", "slot", "leaving"} \cup Inside]
  /\ host \in [Connections -> Names \cup {Nobody}]
  /\ lost \subseteq Connections /\ doomed \subseteq Connections

(* However a request came, by a guarded page, a popup or ahead of its guard,  *)
(* and whatever the DNS told the guard: the proxy dials only an address from  *)
(* an answer of its own none of whose addresses is prohibited.                *)
ProxyOnlyVetted ==
  \A c \in Connections :
    /\ conn[c] = "connect" \/ upstream[c] # Nobody =>
         answer[c] \in Resolves[host[c]] /\ AddressesOf(answer[c]) \cap Forbidden = {}
    /\ conn[c] = "connect" => Head(untried[c]) \in AddressesOf(answer[c])
    /\ upstream[c] # Nobody => upstream[c] \in AddressesOf(answer[c])

(* After close() nothing of the proxy is left: no handler, no upstream        *)
(* connection, every slot free; connections that were dropped while their     *)
(* handler waited for a slot, a name or an address are no exception.          *)
QuietAfterClose ==
  serving = "closed" =>
    /\ \A c \in Connections : ~Handled(c) /\ upstream[c] = Nobody
    /\ slots = NewSemaphore(Slots)

(* A connection that waits for a slot gets one or ends: connections that send *)
(* nothing, unreachable hosts and idle tunnels do not keep theirs.            *)
RequestServed == \A c \in Connections : conn[c] = "slot" ~> conn[c] # "slot"

(* close() returns, though it waits for connections it does not drop.         *)
CloseEnds == serving = "closing" ~> serving = "closed"
=============================================================================
