------------------------------ MODULE WaysOut ------------------------------
(* The two ways out of the process, which share no state: the clients of      *)
(* Egress, and the proxy of the browser.  A behaviour is one of `scope`,      *)
(* chosen at the start, while the variables of the other keep initial values. *)
EXTENDS Egress, FiniteSets

CONSTANTS
  Connections, Slots, Nobody,
  ProxyNames, ProxyResolves   \* the Names and Resolves of BrowserProxy

ASSUME ProxyAssumption ==
  /\ IsFiniteSet(Connections) /\ Slots \in Nat
  /\ ProxyResolves \in [ProxyNames -> SUBSET Seq(Addresses)]

VARIABLE scope
VARIABLES serving, slots, conn, host, answer, untried, upstream, lost, doomed
proxyVars == <<serving, slots, conn, host, answer, untried, upstream, lost, doomed>>
allVars == <<scope, vars, proxyVars>>

P == INSTANCE BrowserProxy WITH
  Names <- ProxyNames, Resolves <- ProxyResolves, Forbidden <- Blocked

-----------------------------------------------------------------------------
EitherInit ==
  /\ scope \in {"client", "proxy"}
  /\ Init /\ (scope = "proxy" => \A h \in Hosts : dns[h] = <<>>)
  /\ P!Init

Client == scope = "client" /\ Next /\ UNCHANGED <<scope, proxyVars>>
Proxy == scope = "proxy" /\ P!Next /\ UNCHANGED <<scope, vars>>
EitherNext == Client \/ Proxy

(* The Fairness of both modules.                                              *)
InClient(A) == scope = "client" /\ A /\ UNCHANGED <<scope, proxyVars>>
InProxy(A) == scope = "proxy" /\ A /\ UNCHANGED <<scope, vars>>
EitherFairness ==
  /\ \A f \in Fetches : WF_allVars(InClient(Step(f)))
  /\ \A c \in Connections : WF_allVars(InProxy(P!Handler(c)))
  /\ WF_allVars(InProxy(P!Drop)) /\ WF_allVars(InProxy(P!Closed))

EitherSpec == EitherInit /\ [][EitherNext]_allVars /\ EitherFairness

-----------------------------------------------------------------------------
(* The properties of the proxy; each is explained in BrowserProxy.            *)
(* The type of the proxy's state.                                             *)
ProxyTypeOK == P!TypeOK

(* The proxy dials only what it has resolved and found public itself.         *)
ProxyOnlyVetted == P!ProxyOnlyVetted

(* After close() nothing of the proxy is left.                                *)
QuietAfterClose == P!QuietAfterClose

(* Whoever waits for a slot gets one or ends.                                 *)
RequestServed == P!RequestServed

(* close() returns.                                                           *)
CloseEnds == P!CloseEnds
=============================================================================
