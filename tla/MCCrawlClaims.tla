---------------------------- MODULE MCCrawlClaims ----------------------------
(* What the documentation says of crawls and the code does not do.            *)
EXTENDS MCCrawlManager

(* "Maximum same-origin link depth from the starting URL"                    *)
(* (mcp/python/blazecrawl_mcp/server.py:78), where 0 is a legal max_depth    *)
(* (api/schemas.py:59): no page lies deeper than any client asked for.       *)
NeverDeeperThanAsked ==
  \A j \in Jobs : \A i \in DOMAIN log[j] :
    \E asked \in AskedDepths : asked = None \/ log[j][i].depth <= asked

(* "robots.txt is enforced" on every page fetch (crawler.py:9): no page a    *)
(* job returns was fetched from a URL robots.txt denied to it.               *)
DeniedNeverFetched ==
  \A j \in Jobs : \A i \in DOMAIN pages[j] : pages[j][i] \notin denied[j]

=============================================================================
