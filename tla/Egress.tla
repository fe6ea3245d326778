------------------------------- MODULE Egress -------------------------------
(* How a fetch leaves the process: network/egress.py (PinnedAsyncClient,      *)
(* PinnedProxyClient) on top of validate_and_pin() of network/ssrf.py.        *)
(*                                                                            *)
(* A fetch awaits name resolution and then the connection, hop after hop,     *)
(* while the DNS may change its mind in between.  Ports, headers and bodies   *)
(* are left out, but for a body that grows beyond max_bytes.                  *)
EXTENDS Naturals, Sequences

CONSTANTS
  Fetches,       \* the calls of request() under way together
  Urls,
  Scheme, Host,  \* of a URL, functions on Urls
  WellFormed,    \* no userinfo, a host, a port, no literal of a blocked range
  Addresses,
  Blocked,       \* the ones is_blocked_address() is true of
  Answers,       \* what a resolver may answer, a failure being <<>>
  None,
  MaxRedirects

Hosts == {Host[u] : u \in Urls}
AllowedSchemes == {"http", "https"}

ASSUME UrlAssumption ==
  /\ DOMAIN Scheme = Urls /\ DOMAIN Host = Urls
  /\ WellFormed \subseteq Urls
ASSUME AnswerAssumption == Answers \subseteq Seq(Addresses)
ASSUME LimitAssumption == MaxRedirects \in Nat

VARIABLES
  dns,      \* what each host resolves to now
  fetch,    \* the locals of each request()
  sent      \* history: the requests the fetch has sent

vars == <<dns, fetch, sent>>

Running == {"resolve", "connect", "answer"}
Ended == {"done", "refused", "failed"}

(* `url` is current_url, `hop` the loop variable; `answer` and `of` are the  *)
(* addresses of the PinnedTarget (the first is the pin) and its hostname.    *)
Fetch == [at : Running \cup Ended, url : Urls,
          hop : 0..MaxRedirects, answer : Seq(Addresses), of : Hosts \cup {None}]

(* `ip` is the address dialled.                                              *)
Request == [hop : Nat, url : Urls, answer : Seq(Addresses), of : Hosts, ip : Addresses]

Init ==
  /\ dns \in [Hosts -> Answers]
  /\ fetch = [f \in Fetches |-> None]
  /\ sent = [f \in Fetches |-> {}]

-----------------------------------------------------------------------------
(* network/ssrf.py                                                           *)

Admissible(url) == url \in WellFormed /\ Scheme[url] \in AllowedSchemes

Vetted(answer) ==
  /\ answer # <<>>
  /\ \A i \in DOMAIN answer : answer[i] \notin Blocked

Under(f, points) == fetch[f] # None /\ fetch[f].at \in points
At(f, point) == Under(f, {point})

(* validate_and_pin(url) up to its only await.                               *)
Validate(x, url) ==
  [x EXCEPT !.url = url, !.at = IF Admissible(url) THEN "resolve" ELSE "refused",
            !.answer = <<>>, !.of = None]

Resolved(f) ==
  LET answer == dns[Host[fetch[f].url]]
  IN  /\ At(f, "resolve")
      /\ fetch' = [fetch EXCEPT ![f] =
           IF Vetted(answer)
           THEN [@ EXCEPT !.at = "connect", !.answer = answer, !.of = Host[fetch[f].url]]
           ELSE [@ EXCEPT !.at = "refused"]]
      /\ UNCHANGED <<dns, sent>>

-----------------------------------------------------------------------------
(* network/egress.py                                                         *)

Fresh(url) == [at |-> "resolve", url |-> url, hop |-> 0, answer |-> <<>>, of |-> None]

Begin(f, url) ==
  /\ ~Under(f, Running)
  /\ fetch' = [fetch EXCEPT ![f] = Validate(Fresh(url), url)]
  /\ sent' = [sent EXCEPT ![f] = {}]
  /\ UNCHANGED dns

(* By proxy: validate_proxy_endpoint() rejects the proxy's URL, or raises the *)
(* ImportError of a name that network/ssrf.py does not have.  Nothing is ever *)
(* awaited, or sent.                                                         *)
BeginProxied(f, url) ==
  /\ ~Under(f, Running)
  /\ \E end \in {"refused", "failed"} :
       fetch' = [fetch EXCEPT ![f] = [Fresh(url) EXCEPT !.at = end]]
  /\ sent' = [sent EXCEPT ![f] = {}]
  /\ UNCHANGED dns

(* Mutant: the client dials the host's name, which is resolved again.        *)
ConnectedByName(f) ==
  LET x == fetch[f]
  IN  /\ At(f, "connect")
      /\ dns[Host[x.url]] # <<>>
      /\ sent' = [sent EXCEPT ![f] = @ \cup
           {[hop |-> x.hop, url |-> x.url, answer |-> x.answer, of |-> x.of,
             ip |-> dns[Host[x.url]][1]]}]
      /\ fetch' = [fetch EXCEPT ![f].at = "answer"]
      /\ UNCHANGED dns

(* The connection goes to the pin, and the request is sent.                  *)
Connected(f) ==
  LET x == fetch[f]
  IN  /\ At(f, "connect")
      /\ sent' = [sent EXCEPT ![f] = @ \cup
           {[hop |-> x.hop, url |-> x.url, answer |-> x.answer, of |-> x.of,
             ip |-> x.answer[1]]}]
      /\ fetch' = [fetch EXCEPT ![f].at = "answer"]
      /\ UNCHANGED dns

(* An exception that is no SSRFValidationError: of getaddrinfo, of httpx, a  *)
(* timeout.                                                                  *)
Fails(f) ==
  /\ Under(f, Running)
  /\ fetch' = [fetch EXCEPT ![f].at = "failed"]
  /\ UNCHANGED <<dns, sent>>

Downgrade(from, to) == Scheme[from] = "https" /\ Scheme[to] = "http"

(* Mutant: range(max_redirects + 2).                                         *)
RedirectedOnceMore(f, url) ==
  /\ At(f, "answer")
  /\ fetch' = [fetch EXCEPT ![f] =
       IF Downgrade(@.url, url) \/ @.hop > MaxRedirects
       THEN [@ EXCEPT !.at = "refused"]
       ELSE Validate([@ EXCEPT !.hop = fetch[f].hop + 1], url)]
  /\ UNCHANGED <<dns, sent>>

(* Mutant: a redirect is not counted.                                        *)
RedirectedFreely(f, url) ==
  /\ At(f, "answer")
  /\ fetch' = [fetch EXCEPT ![f] =
       IF Downgrade(@.url, url) \/ @.hop = MaxRedirects
       THEN [@ EXCEPT !.at = "refused"]
       ELSE Validate(@, url)]
  /\ UNCHANGED <<dns, sent>>

(* Mutant: the schemes are compared after current_url was assigned.          *)
RedirectedLate(f, url) ==
  /\ At(f, "answer")
  /\ fetch' = [fetch EXCEPT ![f] =
       IF Downgrade(url, url) \/ @.hop = MaxRedirects
       THEN [@ EXCEPT !.at = "refused"]
       ELSE Validate([@ EXCEPT !.hop = fetch[f].hop + 1], url)]
  /\ UNCHANGED <<dns, sent>>

(* A redirect: refused, or the next hop, which is validated anew.            *)
Redirected(f, url) ==
  /\ At(f, "answer")
  /\ fetch' = [fetch EXCEPT ![f] =
       IF Downgrade(@.url, url) \/ @.hop = MaxRedirects
       THEN [@ EXCEPT !.at = "refused"]
       ELSE Validate([@ EXCEPT !.hop = fetch[f].hop + 1], url)]
  /\ UNCHANGED <<dns, sent>>

(* Any other answer is returned, unless it is longer than max_bytes.         *)
Answered(f) ==
  /\ At(f, "answer")
  /\ \E end \in {"done", "refused"} : fetch' = [fetch EXCEPT ![f].at = end]
  /\ UNCHANGED <<dns, sent>>

DnsChanges(h) ==
  /\ \E answer \in Answers \ {dns[h]} : dns' = [dns EXCEPT ![h] = answer]
  /\ UNCHANGED <<fetch, sent>>

-----------------------------------------------------------------------------
Step(f) ==
  \/ Resolved(f)
  \/ Connected(f)
  \/ Fails(f)
  \/ \E url \in Urls : Redirected(f, url)
  \/ Answered(f)

Next ==
  \/ \E f \in Fetches :
       Step(f) \/ \E url \in Urls : Begin(f, url) \/ BeginProxied(f, url)
  \/ \E h \in Hosts : DnsChanges(h)

Spec == Init /\ [][Next]_vars

(* Resolution, connecting and reading end, well or by a timeout.             *)
FairSpec == Spec /\ \A f \in Fetches : WF_vars(Step(f))

-----------------------------------------------------------------------------
(* Properties.                                                               *)

(* The state has its type.                                                   *)
TypeOK ==
  /\ dns \in [Hosts -> Answers]
  /\ fetch \in [Fetches -> {None} \cup Fetch]
  /\ sent \in [Fetches -> SUBSET Request]

(* "Pin the connection to the single validated IP; callers never re-resolve" *)
(* (docs/SECURITY_MODEL.md): whatever the DNS answers before and after, and  *)
(* wherever redirects lead, every request goes to an address of a host all   *)
(* of whose addresses were found public for this very URL.                   *)
OnlyVetted ==
  \A f \in Fetches : \A x \in sent[f] :
    /\ Admissible(x.url)
    /\ x.of = Host[x.url]
    /\ \A i \in DOMAIN x.answer : x.answer[i] \notin Blocked
    /\ \E i \in DOMAIN x.answer : x.ip = x.answer[i]

(* Once a fetch has sent a request by https, it sends none by http, however  *)
(* many redirects lie between (egress.py:187 compares neighbours only).      *)
NeverDowngraded ==
  \A f \in Fetches : \A x, y \in sent[f] :
    x.hop < y.hop /\ Scheme[x.url] = "https" => Scheme[y.url] = "https"

(* A fetch sends one request per hop and follows max_redirects redirects     *)
(* ("Too many redirects").                                                   *)
HopsBounded ==
  \A f \in Fetches :
    /\ \A x, y \in sent[f] : x.hop = y.hop => x = y
    /\ \A x \in sent[f] : x.hop <= MaxRedirects

(* Every fetch ends, redirect loops included.                                *)
FetchEnds == \A f \in Fetches : Under(f, Running) ~> Under(f, Ended)
=============================================================================
