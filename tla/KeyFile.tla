------------------------------ MODULE KeyFile ------------------------------
(* The first start of a server: api/keyfile.py and effective_api_key() of     *)
(* api/auth.py.  Several servers may share a state directory.  An action is a *)
(* call to the file system, since a process or the machine may stop between   *)
(* any two.                                                                   *)
(*                                                                            *)
(* External: O_EXCL is atomic; fsync of a new file keeps it, entry included;  *)
(* what was not synced a power failure keeps, empties or removes.             *)
CONSTANTS
  Servers,
  Keys     \* bound: the keys _generate_key may draw, each at most once

VARIABLES
  exists,   \* whether <state-dir>/api_key exists
  content,  \* the key in it, as a set: empty while the file is malformed
  synced,   \* whether it is on disk
  at,       \* the call a server makes next, or how its start ended
  key,      \* the key a server has read or drawn, as a set
  shown,    \* history: the keys printed to an operator
  drawn     \* history: the keys drawn

file == <<exists, content, synced>>
vars == <<file, at, key, shown, drawn>>

(* "operator": up with BLAZECRAWL_API_KEY; "up": up with the key of the file. *)
Starting == {"read", "create", "write", "sync", "finish"}
OneOrNone == {{k} : k \in Keys} \cup {{}}

Init ==
  /\ exists = FALSE /\ content = {} /\ synced = FALSE
  /\ at = [s \in Servers |-> "down"]
  /\ key = [s \in Servers |-> {}]
  /\ shown = {} /\ drawn = {}

Goto(s, l) == at' = [at EXCEPT ![s] = l]
Has(s, K) == key' = [key EXCEPT ![s] = K]

(* bootstrap_api_key() up to path.exists().                                   *)
Start(s) ==
  /\ at[s] = "down"
  /\ \/ Goto(s, "operator")
     \/ Goto(s, IF exists THEN "read" ELSE "create")
  /\ UNCHANGED <<file, key, shown, drawn>>

(* _read_key(): a missing, unreadable or malformed file ends the start.       *)
Read(s) ==
  /\ at[s] = "read"
  /\ IF exists /\ content # {}
       THEN Goto(s, "up") /\ Has(s, content)
       ELSE Goto(s, "down") /\ UNCHANGED key
  /\ UNCHANGED <<file, shown, drawn>>

(* Mutant: open() without O_EXCL.                                             *)
CreateAnyway(s) ==
  /\ at[s] = "create"
  /\ \E k \in Keys \ drawn : drawn' = drawn \cup {k} /\ Has(s, {k})
  /\ exists' = TRUE /\ content' = {} /\ synced' = FALSE
  /\ Goto(s, "write")
  /\ UNCHANGED shown

(* _generate_key() and the exclusive open() of _write_key_once().             *)
Create(s) ==
  /\ at[s] = "create"
  /\ \E k \in Keys \ drawn :
       /\ drawn' = drawn \cup {k}
       /\ IF exists
            THEN Goto(s, "down") /\ UNCHANGED <<key, file>>
            ELSE /\ Goto(s, "write") /\ Has(s, {k})
                 /\ exists' = TRUE /\ content' = {} /\ synced' = FALSE
  /\ UNCHANGED shown

Write(s) ==
  /\ at[s] = "write"
  /\ content' = key[s] /\ synced' = FALSE
  /\ Goto(s, "sync")
  /\ UNCHANGED <<exists, key, shown, drawn>>

Sync(s) ==
  /\ at[s] = "sync"
  /\ synced' = TRUE
  /\ Goto(s, "finish")
  /\ UNCHANGED <<exists, content, key, shown, drawn>>

(* chmod(), the check of the mode, and the message that shows the key.        *)
Finish(s) ==
  /\ at[s] = "finish"
  /\ shown' = shown \cup key[s]
  /\ Goto(s, "up")
  /\ UNCHANGED <<file, key, drawn>>

(* Any call raises OSError and the start is given up, or the process ends.    *)
Stop(s) ==
  /\ at[s] # "down"
  /\ Goto(s, "down") /\ Has(s, {})
  /\ UNCHANGED <<file, shown, drawn>>

(* Power fails and comes back.                                                *)
PowerFails ==
  /\ at' = [s \in Servers |-> "down"]
  /\ key' = [s \in Servers |-> {}]
  /\ \/ UNCHANGED file
     \/ ~synced /\ content' = {} /\ exists' \in {FALSE, exists} /\ UNCHANGED synced
  /\ UNCHANGED <<shown, drawn>>

(* The operator removes a file that every start refuses, once none is under   *)
(* way.                                                                       *)
Remove ==
  /\ exists /\ content = {}
  /\ \A s \in Servers : at[s] \notin Starting
  /\ exists' = FALSE
  /\ UNCHANGED <<content, synced, at, key, shown, drawn>>

ServerStep(s) ==
  \/ Start(s) \/ Read(s) \/ Create(s) \/ Write(s) \/ Sync(s) \/ Finish(s) \/ Stop(s)

Next == PowerFails \/ Remove \/ \E s \in Servers : ServerStep(s)

Spec == Init /\ [][Next]_vars

-----------------------------------------------------------------------------
(* The types, and that a key is on disk only in a file.                      *)
TypeOK ==
  /\ exists \in BOOLEAN /\ synced \in BOOLEAN
  /\ content \in OneOrNone
  /\ at \in [Servers -> Starting \cup {"down", "up", "operator"}]
  /\ key \in [Servers -> OneOrNone]
  /\ shown \subseteq drawn /\ drawn \subseteq Keys
  /\ ~exists => content = {}

(* bootstrap_api_key() never lets two keys live: whatever starts race, crash  *)
(* or lose power, a server that took its key from the state file uses the key *)
(* in it now, and a key ever shown to an operator is that key, safe on disk.  *)
OneKey ==
  /\ \A s \in Servers : at[s] = "up" => key[s] = content /\ content # {}
  /\ \A k \in shown : content = {k} /\ synced
=============================================================================
