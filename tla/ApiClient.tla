----------------------------- MODULE ApiClient -----------------------------
(* The clients of the HTTP API: the Python SDK (sync and async), the Node     *)
(* SDK, the CLI and the MCP servers.  Each is a call that posts a request and *)
(* may then poll the crawl job it made; they differ in what `kind` says.      *)
(*                                                                            *)
(* The server keeps jobs in memory.  Its answer may be lost on the way back,  *)
(* as an error of the connection or of a gateway, after it made the job.      *)
EXTENDS Naturals, Sequences

CONSTANTS
  Callers,
  Clients,      \* how the client of a call may behave
  MaxRestarts   \* bound: how often the server restarts

(* retries: max_retries; checks: the verbs whose status it looks at; polls:   *)
(* how often it polls, 0 for no limit; waits: whether it polls at all.        *)
Kind == [retries : Nat, checks : SUBSET {"post", "get"}, polls : Nat, waits : BOOLEAN]

ConstantsOK == Clients \subseteq Kind /\ MaxRestarts \in Nat

VARIABLES
  kind,     \* the client of each call
  jobs,     \* the status of each job the server made for a call
  phase,    \* what a call does next, or how it ended
  tries,    \* retries of the request under way
  polled,   \* polls so far, when they are limited
  id,       \* job_id: which of its jobs a call polls, 0 for None
  restarts

vars == <<kind, jobs, phase, tries, polled, id, restarts>>

Terminal == {"completed", "failed", "cancelled"}
Ended == {"returned", "raised", "timed out"}

(* "ok": 2xx; "busy": 429 or 5xx; "refused": another 4xx; "broken": the       *)
(* client raises whatever its kind, since no answer came or none it can read. *)
Answers == {"ok", "busy", "refused", "broken"}

Init ==
  /\ kind \in [Callers -> Clients]
  /\ jobs = [c \in Callers |-> <<>>]
  /\ phase = [c \in Callers |-> "post"]
  /\ tries = [c \in Callers |-> 0]
  /\ polled = [c \in Callers |-> 0]
  /\ id = [c \in Callers |-> 0]
  /\ restarts = 0

Goto(c, p) == phase' = [phase EXCEPT ![c] = p]

(* Mutant: range(max_retries + 2).                                            *)
RetriedOnceMore(c, answer) == answer = "busy" /\ tries[c] <= kind[c].retries

(* _request(): whether the answer makes it try once more.                     *)
Retried(c, answer) == answer = "busy" /\ tries[c] < kind[c].retries

Again(c) ==
  /\ tries' = [tries EXCEPT ![c] = @ + 1]
  /\ UNCHANGED <<phase, polled, id>>

Raises(c, verb, answer) ==
  answer = "broken" \/ (answer # "ok" /\ verb \in kind[c].checks)

Post(c) ==
  /\ phase[c] = "post"
  /\ \E answer \in Answers, made \in BOOLEAN :
       /\ answer = "ok" => made
       /\ answer = "refused" => ~made
       /\ jobs' = IF made THEN [jobs EXCEPT ![c] = Append(@, "running")] ELSE jobs
       /\ IF Retried(c, answer)
            THEN Again(c)
            ELSE /\ tries' = [tries EXCEPT ![c] = 0]
                 /\ id' = [id EXCEPT ![c] = IF answer = "ok" THEN Len(jobs'[c]) ELSE 0]
                 /\ Goto(c, CASE Raises(c, "post", answer) -> "raised"
                              [] kind[c].waits -> "get"
                              [] OTHER -> "returned")
                 /\ UNCHANGED polled
  /\ UNCHANGED <<kind, restarts>>

(* The loop gives up once it has asked kind[c].polls times.                   *)
Poll(c) ==
  IF kind[c].polls = 0
    THEN UNCHANGED <<phase, polled>>
    ELSE /\ polled' = [polled EXCEPT ![c] = @ + 1]
         /\ IF polled'[c] = kind[c].polls THEN Goto(c, "timed out") ELSE UNCHANGED phase

Known(c) == id[c] # 0 /\ jobs[c][id[c]] # "lost"
(* Mutant: "cancelled" is missing from the list.                              *)
FinalUnlessCancelled(c) == jobs[c][id[c]] \in Terminal \ {"cancelled"}

Final(c) == jobs[c][id[c]] \in Terminal

Get(c) ==
  /\ phase[c] = "get"
  /\ \E answer \in Answers :
       /\ answer = "ok" => Known(c)
       /\ answer = "refused" => ~Known(c)
       /\ IF Retried(c, answer)
            THEN Again(c)
            ELSE /\ tries' = [tries EXCEPT ![c] = 0]
                 /\ CASE Raises(c, "get", answer) -> Goto(c, "raised") /\ UNCHANGED polled
                      [] answer = "ok" /\ Final(c) -> Goto(c, "returned") /\ UNCHANGED polled
                      [] OTHER -> Poll(c)
                 /\ UNCHANGED id
  /\ UNCHANGED <<kind, jobs, restarts>>

(* A job ends by itself, or another client cancels it.                        *)
JobEnds(c) ==
  /\ \E i \in DOMAIN jobs[c], status \in Terminal :
       /\ jobs[c][i] = "running"
       /\ jobs' = [jobs EXCEPT ![c][i] = status]
  /\ UNCHANGED <<kind, phase, tries, polled, id, restarts>>

ServerRestarts ==
  /\ restarts < MaxRestarts
  /\ restarts' = restarts + 1
  /\ jobs' = [c \in Callers |-> [i \in DOMAIN jobs[c] |-> "lost"]]
  /\ UNCHANGED <<kind, phase, tries, polled, id>>

Call(c) == Post(c) \/ Get(c)
Next == ServerRestarts \/ \E c \in Callers : Call(c) \/ JobEnds(c)

Spec == Init /\ [][Next]_vars

-----------------------------------------------------------------------------
TypeOK ==
  /\ kind \in [Callers -> Clients]
  /\ jobs \in [Callers -> Seq({"running", "lost"} \cup Terminal)]
  /\ phase \in [Callers -> {"post", "get"} \cup Ended]
  /\ \A c \in Callers :
       /\ tries[c] \in 0..kind[c].retries
       /\ polled[c] \in 0..kind[c].polls
       /\ id[c] \in 0..Len(jobs[c])
  /\ restarts \in 0..MaxRestarts

(* A client that lost the answer to POST posts again and makes a second job:  *)
(* it makes at most one per try, whatever it did after, and a client that     *)
(* does not retry makes at most one.                                          *)
DuplicatesBounded == \A c \in Callers : Len(jobs[c]) <= 1 + kind[c].retries

(* Every call comes to an end, for a client that polls without limit too, if  *)
(* the server is restarted and its job is forgotten, or cancelled by another. *)
CallEnds == \A c \in Callers : <>(phase[c] \in Ended)
=============================================================================
