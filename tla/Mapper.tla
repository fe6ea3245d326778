------------------------------- MODULE Mapper -------------------------------
(* map_site() of engine/mapper.py: the sitemaps that robots.txt and the usual *)
(* names lead to, walked depth first, and the links of the seed page.         *)
(*                                                                            *)
(* An action is one fetch up to the next, one call that does not fetch, or a  *)
(* round of the loop at the end.  The recursion of _collect_sitemap_urls() is *)
(* a worklist: a child takes its place before what is left of its parent.     *)
EXTENDS Naturals, Sequences, SequencesExt

CONSTANTS
  Links,          \* the URLs sitemaps and pages speak of
  Seed,
  Bare,           \* a URL without its fragment
  Site,           \* its netloc
  Scheme,         \* its scheme, which only the properties speak of
  Candidates,     \* origin + _SITEMAP_CANDIDATES
  Listed,         \* what robots.txt may list, as sequences
  Sitemap,        \* for a URL: the documents it may serve
  LinkLists,      \* what _link_graph() may return
  MaxSitemapDepth, MaxUrls, MaxChildren

VARIABLES
  todo,     \* calls of _collect_sitemap_urls to make: [url, depth]
  cands,    \* candidates not yet tried
  seen,
  found,
  graph,
  rest,     \* URLs the filter at the end has still to look at
  result,   \* `combined`
  step,     \* the fetch awaited, the call or the URL looked at, or the end
  fetched,  \* history: the fetches of sitemaps, and how much was found by then
  refused   \* history: the URLs is_private_ip() has objected to

site == <<seen, found, fetched>>
filter == <<graph, rest, result, refused>>
vars == <<todo, cands, site, filter, step>>

(* children: <loc>s of a <sitemapindex>; pages: those of a <urlset>.          *)
Document == [children : Seq(Links), pages : Seq(Links)]
Call == [url : Links, depth : 0..(MaxSitemapDepth + 1)]
Fetch == [by : {"probe", "walk"}, url : Links, depth : 0..MaxSitemapDepth, had : Nat]

ConstantsOK ==
  /\ Bare \in [Links -> Links] /\ Sitemap \in [Links -> SUBSET Document]
  /\ Candidates \in Seq(Links) /\ Listed \cup LinkLists \subseteq Seq(Links)
  /\ Seed \in Links /\ Site[Bare[Seed]] = Site[Seed]
  /\ MaxSitemapDepth \in Nat /\ MaxUrls \in Nat \ {0} /\ MaxChildren \in Nat

Init ==
  /\ todo = <<>> /\ cands = <<>> /\ seen = {} /\ found = <<>> /\ fetched = <<>>
  /\ graph = <<>> /\ rest = <<>> /\ result = <<>> /\ refused = {}
  /\ step \in {"validate", "validate only"}   \* include_sitemap or not

Await(calls, others) ==
  /\ todo' = calls /\ cands' = others
  /\ step' = CASE calls # <<>> -> "call" [] others # <<>> -> "probe" [] OTHER -> "seed"

(* validate_and_pin() of the seed.                                            *)
Validate ==
  /\ step \in {"validate", "validate only"}
  /\ step' = IF step = "validate" THEN "robots" ELSE "seed"
  /\ UNCHANGED <<todo, cands, site, filter>>

Robots ==
  /\ step = "robots"
  /\ \E list \in Listed \cup {<<>>} : Await(<<>>, Candidates \o list)
  /\ UNCHANGED <<site, filter>>

Fetches(reason, call) ==
  fetched' = Append(fetched, [by |-> reason, url |-> call.url, depth |-> call.depth,
                              had |-> Len(found)])

(* A candidate is fetched, whatever was seen and found before, to see whether *)
(* it is a sitemap; if it is, it is walked, which fetches it again.           *)
Probe ==
  /\ step = "probe"
  /\ LET call == [url |-> Head(cands), depth |-> 0]
     IN /\ Fetches("probe", call)
        /\ \/ Await(<<>>, Tail(cands))
           \/ Sitemap[call.url] # {} /\ Await(<<call>>, Tail(cands))
  /\ UNCHANGED <<seen, found, filter>>

(* Mutant: seen is not consulted.                                             *)
SkippedForgetful(call) == call.depth > MaxSitemapDepth \/ Len(found) >= MaxUrls

(* The checks _collect_sitemap_urls() begins with.                            *)
Skipped(call) ==
  call.depth > MaxSitemapDepth \/ call.url \in seen \/ Len(found) >= MaxUrls

(* A call that returns at once.                                               *)
Skip ==
  /\ step = "call" /\ Skipped(Head(todo))
  /\ Await(Tail(todo), cands)
  /\ UNCHANGED <<site, filter>>

Below(call, children) ==
  [i \in 1..(IF Len(children) < MaxChildren THEN Len(children) ELSE MaxChildren) |->
     [url |-> children[i], depth |-> call.depth + 1]]

(* One that fetches; nothing may come of it.                                  *)
Collect ==
  /\ step = "call" /\ ~Skipped(Head(todo))
  /\ LET call == Head(todo)
     IN /\ seen' = seen \cup {call.url}
        /\ Fetches("walk", call)
        /\ \E doc \in Sitemap[call.url] \cup {[children |-> <<>>, pages |-> <<>>]} :
             /\ found' = found \o doc.pages
             /\ Await(Below(call, doc.children) \o Tail(todo), cands)
  /\ UNCHANGED filter

(* Mutant: the limit cuts the list before it is filtered.                     *)
LinkGraphCut ==
  /\ step = "seed"
  /\ \E list \in LinkLists \cup {<<>>} :
       LET all == <<Seed>> \o list \o found
       IN /\ graph' = list
          /\ rest' = SubSeq(all, 1, IF Len(all) < MaxUrls THEN Len(all) ELSE MaxUrls)
  /\ step' = "filter"
  /\ UNCHANGED <<todo, cands, site, result, refused>>

(* _link_graph(), which swallows every error of its fetch.                    *)
LinkGraph ==
  /\ step = "seed"
  /\ \E list \in LinkLists \cup {<<>>} :
       graph' = list /\ rest' = <<Seed>> \o list \o found
  /\ step' = "filter"
  /\ UNCHANGED <<todo, cands, site, result, refused>>

(* It is looked at no further when it is in the result or of another netloc.  *)
Keep(u) == u \notin ToSet(result) /\ Site[u] = Site[Seed]

(* One URL of the loop at the end: the seed first, then the links of its page,*)
(* then what the sitemaps had.  is_private_ip() asks the DNS anew each time,  *)
(* so that it may refuse a URL, the seed among them, or not.                  *)
Filter ==
  /\ step = "filter"
  /\ LET u == Bare[Head(rest)]
     IN \/ Keep(u) /\ result' = Append(result, u) /\ UNCHANGED refused
        \/ Keep(u) /\ refused' = refused \cup {u} /\ UNCHANGED result
        \/ ~Keep(u) /\ UNCHANGED <<result, refused>>
  /\ rest' = Tail(rest)
  /\ step' = IF rest' = <<>> \/ Len(result') >= MaxUrls THEN "done" ELSE "filter"
  /\ UNCHANGED <<todo, cands, site, graph>>

(* A fetch the SSRF policy rejects, but for the seed page, a sitemap that     *)
(* declares entities, a URL that urlsplit() cannot split: the whole map fails. *)
Reject ==
  /\ step \notin {"done", "rejected"}
  /\ step = "call" => ~Skipped(Head(todo))
  /\ step' = "rejected"
  /\ UNCHANGED <<todo, cands, site, filter>>

Next ==
  \/ Validate \/ Robots \/ Probe \/ Skip \/ Collect \/ LinkGraph \/ Filter \/ Reject

Spec == Init /\ [][Next]_vars

-----------------------------------------------------------------------------
TypeOK ==
  /\ todo \in Seq(Call) /\ cands \in Seq(Links)
  /\ seen \subseteq Links
  /\ {found, graph, rest, result} \subseteq Seq(Links)
  /\ step \in {"validate", "validate only", "robots", "probe", "call", "seed",
             "filter", "done", "rejected"}
  /\ fetched \in Seq(Fetch)
  /\ refused \subseteq Links

Offered == ToSet(Candidates) \cup UNION {ToSet(list) : list \in Listed}

(* Whatever sitemaps say of each other, in circles or in chains, and whether  *)
(* they are met by a candidate, by robots.txt or by an index: none is walked  *)
(* twice, deeper than _MAX_SITEMAP_DEPTH, or once found has reached _MAX_URLS. *)
(* What else is fetched is a look at a candidate, of the usual names or of    *)
(* robots.txt, which no limit stops.                                          *)
WalkBounded ==
  \A i \in DOMAIN fetched :
    \/ fetched[i].by = "probe" /\ fetched[i].url \in Offered
    \/ /\ fetched[i].by = "walk"
       /\ fetched[i].depth <= MaxSitemapDepth /\ fetched[i].had < MaxUrls
       /\ \A j \in DOMAIN fetched :
            fetched[j].by = "walk" /\ fetched[i].url = fetched[j].url => i = j

SameOrigin(u) == Site[u] = Site[Seed] /\ Scheme[u] = Scheme[Seed]

(* The result has only URLs of the seed's netloc that were found, each once,  *)
(* the seed first; and it has every one of the seed's origin that the walk or *)
(* the seed page found, only when it is full may one be missing.  Unless the  *)
(* DNS has come to refuse one's host, be it the seed's.                       *)
PagesKept ==
  step = "done" =>
    LET wanted == {Bare[u] : u \in {Seed} \cup ToSet(graph) \cup ToSet(found)}
    IN /\ Bare[Seed] \notin refused => result # <<>> /\ result[1] = Bare[Seed]
       /\ IsInjective(result)
       /\ \A u \in ToSet(result) : u \in wanted /\ Site[u] = Site[Seed]
       /\ Len(result) = MaxUrls \/
            \A u \in wanted : SameOrigin(u) /\ u \notin refused => u \in ToSet(result)
=============================================================================
