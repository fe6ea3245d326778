---------------------------- MODULE MCPoolClaims ----------------------------
(* What browser_pool.py says of itself and does not do.                       *)
EXTENDS BrowserPool

(* "Contexts are recycled on failure and the browser is restarted on crash"  *)
(* (browser_pool.py:9): once a crashed browser, whose pool had been filled,  *)
(* has lost its last context, so that no recycling is left to ask for a      *)
(* restart, one is on its way.                                               *)
CrashLeadsToRestart ==
  filled = PoolSize /\ browser # 0 /\ browser \notin live /\ ~shut /\ line = <<>>
    /\ all = {} /\ (\A c \in Clients : pc[c] \notin {"swapCreate", "dropCreate"})
  => due > 0 \/ \E r \in Restarters : pc[r] # "off"
=============================================================================
