---------------------------- MODULE EgressProofs ----------------------------
(* What leaves the process, for any number of fetches, any web, any limit of  *)
(* redirects and a DNS that may answer differently at every step; and that    *)
(* the two ways out, side by side, keep what each of them promises.           *)
EXTENDS WaysOut, TLAPS

Pinned(url, ips, of) ==
  /\ Admissible(url)
  /\ of = Host[url]
  /\ \A i \in DOMAIN ips : ips[i] \notin Blocked

(* The requests s that a fetch has sent.                                     *)
History(s) ==
  /\ \A x \in s : /\ Pinned(x.url, x.answer, x.of)
                  /\ \E i \in DOMAIN x.answer : x.ip = x.answer[i]
                  /\ x.hop <= MaxRedirects
  /\ \A x, y \in s : /\ x.hop = y.hop => x = y
                     /\ x.hop < y.hop /\ Scheme[x.url] = "https"
                          => Scheme[y.url] = "https"

(* A fetch x at work, and what it has sent: nothing yet in this hop unless   *)
(* it waits for the answer, and nothing by https if it is now at http.       *)
Working(x, s) ==
  /\ \A y \in s : y.hop <= x.hop
  /\ x.at # "answer" => \A y \in s : y.hop # x.hop
  /\ \A y \in s : Scheme[y.url] = "https" => Scheme[x.url] # "http"
  /\ x.at \in {"resolve", "connect", "answer"} => Admissible(x.url)
  /\ x.at = "connect" => Pinned(x.url, x.answer, x.of) /\ x.answer # <<>>

Good(x, s) ==
  /\ History(s)
  /\ x # None /\ x.at \in Running => Working(x, s)

IInv == TypeOK /\ \A f \in Fetches : Good(fetch[f], sent[f])

-----------------------------------------------------------------------------

LEMMA IInvInit == Init => IInv
<1> SUFFICES ASSUME Init PROVE IInv
  OBVIOUS
<1>1. TypeOK
  BY DEF Init, TypeOK
<1>2. \A f \in Fetches : Good(fetch[f], sent[f])
  BY DEF Init, Good, History
<1> QED BY <1>1, <1>2 DEF IInv

(* A step of one fetch is judged by what becomes of that fetch alone.        *)
LEMMA OneFetch ==
  ASSUME IInv, NEW f \in Fetches, NEW x \in Fetch, NEW s \in SUBSET Request,
         fetch' = [fetch EXCEPT ![f] = x], sent' = [sent EXCEPT ![f] = s],
         dns' = dns, Good(x, s)
  PROVE  IInv'
<1>1. TypeOK'
  BY DEF IInv, TypeOK
<1>2. ASSUME NEW g \in Fetches
      PROVE  Good(fetch'[g], sent'[g])
  <2>1. CASE g = f
    BY <2>1 DEF IInv, TypeOK
  <2>2. CASE g # f
    <3>1. fetch'[g] = fetch[g] /\ sent'[g] = sent[g]
      BY <2>2 DEF IInv, TypeOK
    <3> QED BY <3>1 DEF IInv
  <2> QED BY <2>1, <2>2
<1> QED BY <1>1, <1>2 DEF IInv, Good, History, Working, Pinned, Admissible

(* An end needs no more than the history it leaves.                          *)
LEMMA Ending ==
  ASSUME IInv, NEW f \in Fetches, fetch[f] # None, NEW end \in Ended,
         fetch' = [fetch EXCEPT ![f].at = end],
         UNCHANGED <<dns, sent>>
  PROVE  IInv'
<1> DEFINE x == [fetch[f] EXCEPT !.at = end]
<1>1. fetch[f] \in Fetch /\ sent[f] \in SUBSET Request
  BY DEF IInv, TypeOK
<1>2. x \in Fetch /\ x.at \notin Running
  BY <1>1 DEF Fetch, Ended, Running
<1>3. fetch' = [fetch EXCEPT ![f] = x] /\ sent' = [sent EXCEPT ![f] = sent[f]]
  BY DEF IInv, TypeOK
<1>4. Good(x, sent[f])
  BY <1>2 DEF IInv, Good
<1> HIDE DEF x
<1> QED BY <1>1, <1>2, <1>3, <1>4, OneFetch

(* A hop that begins: nothing was sent in it, and its scheme is no step down.*)
LEMMA Validated ==
  ASSUME NEW x \in Fetch, NEW url \in Urls, NEW s \in SUBSET Request, History(s),
         \A y \in s : y.hop < x.hop,
         \A y \in s : Scheme[y.url] = "https" => Scheme[url] # "http"
  PROVE  Validate(x, url) \in Fetch /\ Good(Validate(x, url), s)
<1> DEFINE v == Validate(x, url)
<1>1. /\ v.url = url /\ v.hop = x.hop /\ v.answer = <<>> /\ v.of = None
      /\ v.at = IF Admissible(url) THEN "resolve" ELSE "refused"
  BY DEF Validate, Fetch
<1>2. v \in Fetch
  <2>1. <<>> \in Seq(Addresses)
    OBVIOUS
  <2>2. CASE Admissible(url)
    BY <2>1, <2>2 DEF Validate, Fetch, Running
  <2>3. CASE ~Admissible(url)
    BY <2>1, <2>3 DEF Validate, Fetch, Ended
  <2> QED BY <2>2, <2>3
<1>3. ASSUME v.at \in Running
      PROVE  Working(v, s)
  <2>1. v.at = "resolve" /\ Admissible(url)
    BY <1>1, <1>3 DEF Running
  <2>2. \A y \in s : y.hop <= v.hop /\ y.hop # v.hop
    BY <1>1 DEF Fetch, Request
  <2> HIDE DEF v
  <2> QED BY <1>1, <2>1, <2>2 DEF Working
<1> HIDE DEF v
<1>4. Good(v, s)
  BY <1>3 DEF Good
<1> QED BY <1>2, <1>4 DEF v

LEMMA IInvNext == IInv /\ [Next]_vars => IInv'
<1> SUFFICES ASSUME IInv, [Next]_vars
             PROVE  IInv'
  OBVIOUS
<1>0. TypeOK /\ \A f \in Fetches : Good(fetch[f], sent[f])
  BY DEF IInv
<1>1. ASSUME NEW f \in Fetches, NEW url \in Urls, Begin(f, url)
      PROVE  IInv'
  <2> DEFINE y == Validate(Fresh(url), url)
  <2>1. Fresh(url) \in Fetch
    BY LimitAssumption DEF Fresh, Fetch, Running
  <2>2. History({})
    BY DEF History
  <2>3. y \in Fetch /\ Good(y, {})
    BY <2>1, <2>2, Validated
  <2>4. /\ fetch' = [fetch EXCEPT ![f] = y] /\ sent' = [sent EXCEPT ![f] = {}]
        /\ dns' = dns
    BY <1>1 DEF Begin
  <2> HIDE DEF y
  <2> QED BY <2>3, <2>4, OneFetch
<1>2. ASSUME NEW f \in Fetches, NEW url \in Urls, BeginProxied(f, url)
      PROVE  IInv'
  <2>1. PICK end \in {"refused", "failed"} :
          fetch' = [fetch EXCEPT ![f] = [Fresh(url) EXCEPT !.at = end]]
    BY <1>2 DEF BeginProxied
  <2> DEFINE y == [Fresh(url) EXCEPT !.at = end]
  <2>2. y \in Fetch /\ y.at \notin Running
    <3>1. y = [at |-> end, url |-> url, hop |-> 0, answer |-> <<>>, of |-> None]
      BY DEF Fresh
    <3>2. <<>> \in Seq(Addresses) /\ 0 \in 0..MaxRedirects
      BY LimitAssumption
    <3> QED BY <3>1, <3>2 DEF Fetch, Running, Ended
  <2>3. Good(y, {})
    BY <2>2 DEF Good, History
  <2>4. /\ fetch' = [fetch EXCEPT ![f] = y] /\ sent' = [sent EXCEPT ![f] = {}]
        /\ dns' = dns
    BY <1>2, <2>1 DEF BeginProxied
  <2> HIDE DEF y
  <2> QED BY <2>2, <2>3, <2>4, OneFetch
<1>3. ASSUME NEW f \in Fetches, Resolved(f)
      PROVE  IInv'
  <2> DEFINE x == fetch[f]
             ips == dns[Host[x.url]]
             y == [x EXCEPT !.at = "connect", !.answer = ips, !.of = Host[x.url]]
  <2>1. x \in Fetch /\ x # None /\ x.at = "resolve" /\ sent[f] \in SUBSET Request
    BY <1>0, <1>3 DEF Resolved, At, Under, TypeOK
  <2>2. Working(x, sent[f]) /\ History(sent[f])
    BY <1>0, <2>1 DEF Good, Running
  <2>3. CASE Vetted(ips)
    <3>1. ips \in Seq(Addresses) /\ Host[x.url] \in Hosts
      BY <1>0, <2>1, AnswerAssumption DEF TypeOK, Hosts, Fetch
    <3>2. /\ y \in Fetch
          /\ y.at = "connect" /\ y.url = x.url /\ y.hop = x.hop
          /\ y.answer = ips /\ y.of = Host[x.url]
      BY <2>1, <3>1 DEF Fetch, Running
    <3>3. /\ fetch' = [fetch EXCEPT ![f] = y] /\ sent' = [sent EXCEPT ![f] = sent[f]]
          /\ dns' = dns
      BY <1>0, <1>3, <2>3 DEF Resolved, TypeOK
    <3> HIDE DEF y
    <3>4. Pinned(y.url, y.answer, y.of) /\ y.answer # <<>>
      BY <2>1, <2>2, <2>3, <3>2 DEF Working, Pinned, Vetted
    <3>5. Working(y, sent[f])
      BY <2>1, <2>2, <3>2, <3>4 DEF Working
    <3> QED BY <2>1, <2>2, <3>2, <3>3, <3>5, OneFetch DEF Good
  <2>4. CASE ~Vetted(ips)
    <3>1. fetch' = [fetch EXCEPT ![f].at = "refused"] /\ UNCHANGED <<dns, sent>>
      BY <1>3, <2>4 DEF Resolved
    <3> QED BY <1>0, <2>1, <3>1, Ending DEF Ended, TypeOK
  <2> QED BY <2>3, <2>4
<1>4. ASSUME NEW f \in Fetches, Connected(f)
      PROVE  IInv'
  <2> DEFINE x == fetch[f]
             e == [hop |-> x.hop, url |-> x.url, answer |-> x.answer, of |-> x.of,
                   ip |-> x.answer[1]]
             y == [x EXCEPT !.at = "answer"]
  <2>1. x \in Fetch /\ x # None /\ x.at = "connect" /\ sent[f] \in SUBSET Request
    BY <1>0, <1>4 DEF Connected, At, Under, TypeOK
  <2>2. Working(x, sent[f]) /\ History(sent[f])
    BY <1>0, <2>1 DEF Good, Running
  <2>3. /\ Pinned(x.url, x.answer, x.of) /\ 1 \in DOMAIN x.answer
        /\ x.answer[1] \in Addresses
    <3>1. x.answer \in Seq(Addresses) /\ x.answer # <<>>
      BY <2>1, <2>2 DEF Working, Fetch
    <3> QED BY <2>1, <2>2, <3>1 DEF Working
  <2>4. x.of \in Hosts /\ x.hop \in Nat /\ x.hop <= MaxRedirects /\ x.url \in Urls
    BY <2>1, <2>3, LimitAssumption DEF Pinned, Hosts, Fetch
  <2>5. e \in Request
    BY <2>1, <2>3, <2>4 DEF Request, Fetch
  <2>6. y \in Fetch /\ y.at = "answer" /\ y.url = x.url /\ y.hop = x.hop
    BY <2>1 DEF Fetch, Running
  <2>7. /\ fetch' = [fetch EXCEPT ![f] = y]
        /\ sent' = [sent EXCEPT ![f] = sent[f] \cup {e}]
        /\ dns' = dns
    BY <1>0, <1>4 DEF Connected, TypeOK
  <2>8. /\ e.hop = x.hop /\ e.url = x.url /\ e.answer = x.answer /\ e.of = x.of
        /\ e.ip = x.answer[1]
    OBVIOUS
  <2>9. \A z \in sent[f] : z.hop \in Nat /\ z.hop < x.hop
    BY <2>1, <2>2, <2>4 DEF Working, Request
  <2> HIDE DEF e, y
  <2>10. \A z \in sent[f] : Scheme[z.url] = "https" => Scheme[x.url] = "https"
    BY <2>1, <2>2, <2>3 DEF Working, Pinned, Admissible, AllowedSchemes
  <2>11. History(sent[f] \cup {e})
    <3>1. ASSUME NEW z \in sent[f] \cup {e}
          PROVE  /\ Pinned(z.url, z.answer, z.of)
                 /\ \E i \in DOMAIN z.answer : z.ip = z.answer[i]
                 /\ z.hop <= MaxRedirects
      BY <2>2, <2>3, <2>4, <2>8, <3>1 DEF History
    <3>2. ASSUME NEW z \in sent[f] \cup {e}, NEW w \in sent[f] \cup {e}
          PROVE  /\ z.hop = w.hop => z = w
                 /\ z.hop < w.hop /\ Scheme[z.url] = "https" => Scheme[w.url] = "https"
      BY <2>2, <2>4, <2>8, <2>9, <2>10, <3>2 DEF History
    <3> QED BY <3>1, <3>2 DEF History
  <2>12. Working(y, sent[f] \cup {e})
    <3>1. \A z \in sent[f] \cup {e} : z.hop <= y.hop
      BY <2>4, <2>6, <2>8, <2>9
    <3>2. \A z \in sent[f] \cup {e} : Scheme[z.url] = "https" => Scheme[y.url] # "http"
      BY <2>6, <2>8, <2>10
    <3>3. Admissible(y.url)
      BY <2>3, <2>6 DEF Pinned
    <3> QED BY <2>6, <3>1, <3>2, <3>3 DEF Working
  <2>13. Good(y, sent[f] \cup {e})
    BY <2>11, <2>12 DEF Good
  <2>14. sent[f] \cup {e} \in SUBSET Request
    BY <2>1, <2>5
  <2> QED BY <2>6, <2>7, <2>13, <2>14, OneFetch
<1>5. ASSUME NEW f \in Fetches, Fails(f)
      PROVE  IInv'
  BY <1>0, <1>5, Ending DEF Fails, Under, Ended, TypeOK
<1>6. ASSUME NEW f \in Fetches, NEW url \in Urls, Redirected(f, url)
      PROVE  IInv'
  <2> DEFINE x == fetch[f]
             y == [x EXCEPT !.hop = fetch[f].hop + 1]
  <2>1. x \in Fetch /\ x # None /\ x.at = "answer" /\ sent[f] \in SUBSET Request
    BY <1>0, <1>6 DEF Redirected, At, Under, TypeOK
  <2>2. Working(x, sent[f]) /\ History(sent[f])
    BY <1>0, <2>1 DEF Good, Running
  <2>3. CASE Downgrade(x.url, url) \/ x.hop = MaxRedirects
    <3>1. fetch' = [fetch EXCEPT ![f].at = "refused"] /\ UNCHANGED <<dns, sent>>
      BY <1>6, <2>3 DEF Redirected
    <3> QED BY <1>0, <2>1, <3>1, Ending DEF Ended, TypeOK
  <2>4. CASE ~(Downgrade(x.url, url) \/ x.hop = MaxRedirects)
    <3>1. y \in Fetch /\ y.hop = x.hop + 1
      <4>1. x.hop + 1 \in 0..MaxRedirects
        BY <2>1, <2>4, LimitAssumption DEF Fetch
      <4> QED BY <2>1, <4>1 DEF Fetch
    <3>2. /\ fetch' = [fetch EXCEPT ![f] = Validate(y, url)]
          /\ sent' = [sent EXCEPT ![f] = sent[f]]
          /\ dns' = dns
      <4>1. fetch' = [fetch EXCEPT ![f] = Validate(y, url)]
        BY <1>6, <2>4 DEF Redirected
      <4> QED BY <1>0, <1>6, <4>1 DEF Redirected, TypeOK
    <3> HIDE DEF y
    <3>3. \A z \in sent[f] : z.hop < y.hop
      BY <2>1, <2>2, <3>1 DEF Working, Fetch, Request
    <3>4. \A z \in sent[f] : Scheme[z.url] = "https" => Scheme[url] # "http"
      BY <2>1, <2>2, <2>4 DEF Working, Downgrade, Admissible, AllowedSchemes
    <3>5. Validate(y, url) \in Fetch /\ Good(Validate(y, url), sent[f])
      BY <2>1, <2>2, <3>1, <3>3, <3>4, Validated
    <3> QED BY <2>1, <3>2, <3>5, OneFetch
  <2> QED BY <2>3, <2>4
<1>7. ASSUME NEW f \in Fetches, Answered(f)
      PROVE  IInv'
  <2>1. PICK end \in {"done", "refused"} : fetch' = [fetch EXCEPT ![f].at = end]
    BY <1>7 DEF Answered
  <2>2. fetch[f] # None /\ UNCHANGED <<dns, sent>>
    BY <1>7 DEF Answered, At, Under
  <2> QED BY <1>0, <2>1, <2>2, Ending DEF Ended, TypeOK
<1>8. ASSUME NEW h \in Hosts, DnsChanges(h)
      PROVE  IInv'
  BY <1>0, <1>8 DEF DnsChanges, IInv, TypeOK, Good, History, Working, Pinned, Admissible
<1>9. CASE UNCHANGED vars
  BY <1>0, <1>9 DEF vars, IInv, TypeOK, Good, History, Working, Pinned, Admissible
<1> QED BY <1>1, <1>2, <1>3, <1>4, <1>5, <1>6, <1>7, <1>8, <1>9 DEF Next, Step

LEMMA IInvAlways == Spec => []IInv
<1>1. Init => IInv
  BY IInvInit
<1>2. IInv /\ [Next]_vars => IInv'
  BY IInvNext
<1> QED BY <1>1, <1>2, PTL DEF Spec

-----------------------------------------------------------------------------

(* The state of the egress clients has its type; the hop counter stays       *)
(* within the range of the loop.                                             *)
THEOREM Typing == Spec => []TypeOK
<1>1. IInv => TypeOK
  BY DEF IInv
<1> QED BY <1>1, IInvAlways, PTL

(* Every request goes to a vetted address of a host vetted for it, however   *)
(* the DNS changes between the steps of a fetch.                             *)
THEOREM OnlyVettedHosts == Spec => []OnlyVetted
<1>1. IInv => OnlyVetted
  BY DEF IInv, Good, History, Pinned, OnlyVetted
<1> QED BY <1>1, IInvAlways, PTL

(* No chain of redirects leads from https back to http.                      *)
THEOREM NoChainDowngrades == Spec => []NeverDowngraded
<1>1. IInv => NeverDowngraded
  BY DEF IInv, Good, History, NeverDowngraded
<1> QED BY <1>1, IInvAlways, PTL

(* One request per hop, and no more hops than max_redirects allows.          *)
THEOREM HopsAlwaysBounded == Spec => []HopsBounded
<1>1. IInv => HopsBounded
  BY DEF IInv, Good, History, HopsBounded
<1> QED BY <1>1, IInvAlways, PTL
-----------------------------------------------------------------------------
(* The proxy of WaysOut is the one BrowserProxyProofs is about: what either   *)
(* instance of BrowserProxy calls an action is the same.                      *)
PP == INSTANCE BrowserProxyProofs WITH
  Names <- ProxyNames, Resolves <- ProxyResolves, Forbidden <- Blocked

LEMMA SameInit == P!Init => PP!Init
BY DEF P!Init, PP!Init, P!NewSemaphore, PP!NewSemaphore

LEMMA SameSemaphores ==
  /\ \A s : /\ P!CanTake(s) = PP!CanTake(s) /\ P!Take(s) = PP!Take(s)
            /\ P!Release(s) = PP!Release(s)
  /\ \A s, c : /\ P!Enqueue(s, c) = PP!Enqueue(s, c) /\ P!Resume(s, c) = PP!Resume(s, c)
               /\ P!GiveBack(s, c) = PP!GiveBack(s, c)
BY DEF P!CanTake, PP!CanTake, P!Take, PP!Take, P!Release, PP!Release, P!Enqueue, PP!Enqueue,
  P!Resume, PP!Resume, P!GiveBack, PP!GiveBack, P!WakeAll, PP!WakeAll, P!Wake, PP!Wake,
  P!Least, PP!Least

LEMMA SameNext == [P!Next]_P!vars => [PP!Next]_PP!vars
<1> USE DEF P!vars, PP!vars, P!request, PP!request, P!Goto, PP!Goto, P!Running, PP!Running,
            P!Handled, PP!Handled, P!Inside, PP!Inside
<1>1. \A l : P!Clean(l) <=> PP!Clean(l)
  BY DEF P!Clean, PP!Clean, P!AddressesOf, PP!AddressesOf
<1>2. \A c : P!Arrive(c) => PP!Arrive(c)
  BY SameSemaphores DEF P!Arrive, PP!Arrive
<1>3. \A c : P!Leave(c) => PP!Leave(c)
  BY SameSemaphores DEF P!Leave, PP!Leave
<1>4. \A c : P!Forget(c) => PP!Forget(c)
  BY DEF P!Forget, PP!Forget
<1>5. P!Close => PP!Close
  BY DEF P!Close, PP!Close
<1>6. P!Drop => PP!Drop
  BY DEF P!Drop, PP!Drop
<1>7. P!Closed => PP!Closed
  BY DEF P!Closed, PP!Closed
<1>8. ASSUME NEW c PROVE P!Guard(c) => PP!Guard(c)
  BY <1>1, <1>2 DEF P!Guard, PP!Guard
<1>9. ASSUME NEW c PROVE P!Lose(c) => PP!Lose(c)
  BY DEF P!Lose, PP!Lose
<1>10. ASSUME NEW c, NEW h
       PROVE  /\ P!Browse(c, h) => PP!Browse(c, h)
              /\ P!Unguarded(c, h) => PP!Unguarded(c, h)
  BY <1>2 DEF P!Browse, PP!Browse, P!Unguarded, PP!Unguarded
<1>11. ASSUME NEW c PROVE P!Handler(c) => PP!Handler(c)
  <2>1. P!Woken(c) => PP!Woken(c)
    BY SameSemaphores DEF P!Woken, PP!Woken
  <2>2. P!Header(c) => PP!Header(c)
    BY DEF P!Header, PP!Header
  <2>3. P!HeaderFails(c) => PP!HeaderFails(c)
    BY <1>3 DEF P!HeaderFails, PP!HeaderFails
  <2>4. P!Resolve(c) => PP!Resolve(c)
    BY <1>1, <1>3 DEF P!Resolve, PP!Resolve
  <2>5. P!Connect(c) => PP!Connect(c)
    BY DEF P!Connect, PP!Connect
  <2>6. P!ConnectFails(c) => PP!ConnectFails(c)
    BY <1>3 DEF P!ConnectFails, PP!ConnectFails
  <2>7. P!TunnelEnds(c) => PP!TunnelEnds(c)
    BY <1>3 DEF P!TunnelEnds, PP!TunnelEnds
  <2>8. P!Left(c) => PP!Left(c)
    BY <1>4 DEF P!Left, PP!Left
  <2>9. P!Cancelled(c) => PP!Cancelled(c)
    BY <1>3, <1>4, SameSemaphores DEF P!Cancelled, PP!Cancelled
  <2> QED BY <2>1, <2>2, <2>3, <2>4, <2>5, <2>6, <2>7, <2>8, <2>9 DEF P!Handler, PP!Handler
<1> QED BY <1>5, <1>6, <1>7, <1>8, <1>9, <1>10, <1>11 DEF P!Next, PP!Next


(* Either side steps by itself, so a behaviour of both is one of each.        *)
LEMMA ClientOfBoth == EitherSpec => Spec
<1>1. EitherInit => Init
  BY DEF EitherInit
<1>2. [EitherNext]_allVars => [Next]_vars
  BY DEF EitherNext, Client, Proxy, allVars
<1> QED BY <1>1, <1>2, PTL DEF EitherSpec, Spec

LEMMA ProxyOfBoth == EitherSpec => PP!Spec
<1>1. EitherInit => PP!Init
  BY SameInit DEF EitherInit
<1>2. ASSUME [EitherNext]_allVars PROVE [PP!Next]_PP!vars
  <2>1. [P!Next]_P!vars
    BY <1>2 DEF EitherNext, Client, Proxy, allVars, proxyVars, P!vars, P!request
  <2> QED BY <2>1, SameNext
<1> QED BY <1>1, <1>2, PTL DEF EitherSpec, PP!Spec

LEMMA ProxyAnswersOK == PP!AnswersOK(Addresses)
BY ProxyAssumption DEF PP!AnswersOK

(* Beside any proxy, the clients keep what they promise.                      *)
THEOREM ClientsKeepTheirs ==
  EitherSpec => [](TypeOK /\ OnlyVetted /\ NeverDowngraded /\ HopsBounded)
<1> QED
  BY ClientOfBoth, Typing, OnlyVettedHosts, NoChainDowngrades, HopsAlwaysBounded, PTL

(* Beside any clients, the proxy dials only addresses of an answer of its own *)
(* that holds no prohibited one.                                              *)
THEOREM OnlyVettedDialled == EitherSpec => []ProxyOnlyVetted
<1>1. PP!Spec => []PP!ProxyOnlyVetted
  BY ProxyAnswersOK, PP!OnlyVettedDialled
<1>2. PP!ProxyOnlyVetted => ProxyOnlyVetted
  BY DEF ProxyOnlyVetted, P!ProxyOnlyVetted, PP!ProxyOnlyVetted,
         P!AddressesOf, PP!AddressesOf
<1> QED BY <1>1, <1>2, ProxyOfBoth, PTL

(* When close() is done, no handler, no upstream connection and no lent slot  *)
(* of the proxy is left, whatever the clients do meanwhile.                   *)
THEOREM QuietWhenClosed == EitherSpec => []QuietAfterClose
<1>1. PP!Spec => []PP!QuietAfterClose
  BY ProxyAnswersOK, ProxyAssumption, PP!QuietWhenClosed DEF IsFiniteSet, PP!IsFiniteSet
<1>2. PP!QuietAfterClose => QuietAfterClose
  BY DEF QuietAfterClose, P!QuietAfterClose, PP!QuietAfterClose, P!Handled, PP!Handled,
         P!Inside, PP!Inside, P!NewSemaphore, PP!NewSemaphore
<1> QED BY <1>1, <1>2, ProxyOfBoth, PTL

(* The state of the proxy has its type.                                       *)
THEOREM ProxyTyping == EitherSpec => []ProxyTypeOK
<1>1. PP!Spec => []PP!TypeOK
  BY ProxyAnswersOK, ProxyAssumption, PP!Typing DEF IsFiniteSet, PP!IsFiniteSet
<1>2. PP!TypeOK => ProxyTypeOK
  BY DEF ProxyTypeOK, P!TypeOK, PP!TypeOK, P!Inside, PP!Inside
<1> QED BY <1>1, <1>2, ProxyOfBoth, PTL
=============================================================================
