---------------------------- MODULE JobLifecycle ----------------------------
(* What the crawl API promises a client that polls GET /v1/crawl/{job_id}:    *)
(* the reported status only moves forward, the counters only grow, never past *)
(* max_pages, and only while the job runs, and what a job reports when it     *)
(* ended or was cancelled is what it reports ever after, except that DELETE   *)
(* relabels any job "cancelled".                                              *)
EXTENDS Naturals

CONSTANTS Jobs, Limits     \* the jobs, and the max_pages they may have

VARIABLES status,   \* the status field
          limit,    \* the max_pages field
          pages,    \* the pages_crawled field
          failures  \* the pages_failed field

vars == <<status, limit, pages, failures>>

Init ==
  /\ status = [j \in Jobs |-> "absent"]
  /\ limit = [j \in Jobs |-> 0]
  /\ pages = [j \in Jobs |-> 0]
  /\ failures = [j \in Jobs |-> 0]

(* POST answered 202: the job exists.                                        *)
Submit(j) ==
  /\ status[j] = "absent"
  /\ status' = [status EXCEPT ![j] = "queued"]
  /\ \E n \in Limits : limit' = [limit EXCEPT ![j] = n]
  /\ UNCHANGED <<pages, failures>>

Begin(j) ==
  /\ status[j] = "queued"
  /\ status' = [status EXCEPT ![j] = "running"]
  /\ UNCHANGED <<limit, pages, failures>>

(* A page was returned, or failed, or was skipped; it may be the last one.   *)
Work(j) ==
  /\ status[j] = "running"
  /\ pages[j] < limit[j]
  /\ \/ pages' = [pages EXCEPT ![j] = @ + 1] /\ UNCHANGED failures
     \/ failures' = [failures EXCEPT ![j] = @ + 1] /\ UNCHANGED pages
     \/ UNCHANGED <<pages, failures>>
  /\ \E s \in {"running", "completed"} : status' = [status EXCEPT ![j] = s]
  /\ UNCHANGED limit

Fail(j) ==
  /\ status[j] = "running"
  /\ status' = [status EXCEPT ![j] = "failed"]
  /\ UNCHANGED <<limit, pages, failures>>

Delete(j) ==
  /\ status[j] # "absent"
  /\ status' = [status EXCEPT ![j] = "cancelled"]
  /\ UNCHANGED <<limit, pages, failures>>

Next == \E j \in Jobs : Submit(j) \/ Begin(j) \/ Work(j) \/ Fail(j) \/ Delete(j)

Spec == Init /\ [][Next]_vars
=============================================================================
