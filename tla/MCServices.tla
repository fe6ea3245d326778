----------------------------- MODULE MCServices -----------------------------
(* A small instance of each of the five components.                           *)
EXTENDS Services

(* Calls share nothing but the restarts of the server, so one is enough, of   *)
(* each kind: the sync Python SDK, which retries; the async SDK and the Node  *)
(* SDK; scrape() of the sync SDK; the CLI; an MCP server.  600 polls are three. *)
OneOfEach ==
  {[retries |-> 2, checks |-> {"post", "get"}, polls |-> 0, waits |-> TRUE],
   [retries |-> 0, checks |-> {"post", "get"}, polls |-> 0, waits |-> TRUE],
   [retries |-> 2, checks |-> {"post"}, polls |-> 0, waits |-> FALSE],
   [retries |-> 0, checks |-> {"post"}, polls |-> 3, waits |-> TRUE],
   [retries |-> 0, checks |-> {}, polls |-> 3, waits |-> TRUE]}

(* Pages: an article; one of which trafilatura keeps pictures only; one only  *)
(* BeautifulSoup reads, which is thin.                                        *)
Found(l, w) == [long |-> l, words |-> w]
ShortPages ==
  {[read |-> Found(TRUE, 2), traf |-> Found(TRUE, 1), text |-> 3],
   [read |-> Found(FALSE, 0), traf |-> Found(TRUE, 0), text |-> 2],
   [read |-> Found(FALSE, 0), traf |-> Found(FALSE, 0), text |-> 1]}
FewQueries ==
  [main : {TRUE}, markdown : {TRUE}, cache : {TRUE}, render : {"auto", "static"}]
    \cup {[main |-> FALSE, markdown |-> FALSE, cache |-> FALSE, render |-> "browser"]}

(* Groups of two rules, or two groups of one; a path /a that two rules match. *)
FewPatterns == {"/", "/a", "/b"}
PatternLength == [p \in FewPatterns |-> IF p = "/" THEN 1 ELSE 2]

(* Sitemaps a -> b, c; b -> a, d; d -> e; pages p, p with a fragment, one of  *)
(* another scheme and one of another site.  The links of the seed page are of *)
(* the netloc it redirects to.  A result is full with three URLs.             *)
Few == {"a", "b", "c", "d", "e", "p", "p#", "q", "ftp", "other"}
Index(l) == [children |-> l, pages |-> <<>>]
UrlSet(l) == [children |-> <<>>, pages |-> l]
Serves == [u \in Few |->
  CASE u = "a" -> {Index(<<"b", "c">>), UrlSet(<<"p">>)}
    [] u = "b" -> {Index(<<"a", "d">>)}
    [] u = "c" -> {Index(<<"d">>), UrlSet(<<"p#", "q">>)}
    [] u = "d" -> {Index(<<"e", "b">>), UrlSet(<<"other", "q">>)}
    [] u = "e" -> {Index(<<"c">>), UrlSet(<<"p">>)}
    [] OTHER -> {}]
WithoutFragment == [u \in Few |-> IF u = "p#" THEN "p" ELSE u]
SiteOf == [u \in Few |-> IF u = "other" THEN "else" ELSE "here"]
SeedCandidates == <<"a", "q">>
SchemeOf == [u \in Few |-> IF u = "ftp" THEN "ftp" ELSE "https"]
RobotsLists == {<<"b">>, <<"d", "a">>}
SeedLinks == {<<"q", "ftp", "a">>, <<"other">>}
=============================================================================
