--------------------------- MODULE MCCrawlManager ---------------------------
(* Small instances of CrawlManager: two webs, and the ways to link them.      *)
EXTENDS CrawlManager, TLC

Id(S) == [u \in S |-> u]
Everywhere(S, v) == [u \in S |-> v]

(* Web 1, for many jobs: a seed that links to one more page of its host.     *)
PairUrls == {"seed", "page"}
PairNetloc == Everywhere(PairUrls, "site")
PairScheme == Everywhere(PairUrls, "https")
PairLinks == [u \in PairUrls |-> IF u = "seed" THEN {<<"page">>} ELSE {<<>>}]
PairIds == Id(PairUrls)

(* Web 2, for one job.  The site is a -> b, c; b -> d, d#top; c -> d, e;      *)
(* d -> e, a; e -> f and pages elsewhere: a diamond whose entries reach the   *)
(* frontier twice, a long and a short way to e, links by fragment, to another *)
(* host, to ftp, and to the http form of the site; c redirects to b.          *)
WebUrls == {"a", "b", "c", "d", "d#top", "e", "f", "other", "ftp", "http"}
WebDefrag == [Id(WebUrls) EXCEPT !["d#top"] = "d"]
WebNetloc == [Everywhere(WebUrls, "site") EXCEPT !["other"] = "elsewhere"]
WebScheme == [Everywhere(WebUrls, "https") EXCEPT !["ftp"] = "ftp", !["http"] = "http"]
WebFinal == [Id(WebUrls) EXCEPT !["c"] = "b"]
WebLinks == [u \in WebUrls |->
  CASE u = "a" -> {<<"b", "c">>, <<"c", "other", "b">>}
    [] u = "b" -> {<<"d", "d#top", "b">>}
    [] u = "c" -> {<<"d#top", "e">>, <<>>}
    [] u = "d" -> {<<"e", "a">>}
    [] u = "e" -> {<<"ftp", "f", "http">>}
    [] OTHER -> {<<"a">>}]

(* Both webs, for a run of either: a behaviour has one job, which walks web 2 *)
(* within any limits, or all jobs, on web 1 and asking for one page.          *)
BothUrls == PairUrls \cup WebUrls
BothDefrag == WebDefrag @@ PairIds
BothNetloc == WebNetloc @@ Everywhere(PairUrls, "pair")
BothScheme == WebScheme @@ PairScheme
BothFinal == WebFinal @@ PairIds
BothLinks == WebLinks @@ PairLinks

Walker == CHOOSE j \in Jobs : TRUE

OneWeb ==
  \A j \in Jobs : status[j] # "absent" =>
    IF job[j].seed \in PairUrls
    THEN job[j].max_pages = 1 /\ job[j].max_depth = 1
    ELSE j = Walker /\ \A k \in Jobs \ {j} : status[k] = "absent"

BothNext == \E j \in Jobs : Step(j) \/ (Client(j) /\ OneWeb')

(* The fairness of FairSpec: OneWeb says what is created, not what jobs do.   *)
BothSpec == Init /\ [][BothNext]_vars /\ \A j \in Jobs : WF_vars(Prompt(j))
=============================================================================
