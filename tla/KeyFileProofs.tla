--------------------------- MODULE KeyFileProofs ---------------------------
(* One key lives, for any number of servers that share a state directory.     *)
EXTENDS KeyFile, TLAPS

Writing == {"write", "sync", "finish"}

(* Only one server ever writes, into a file it has made; what it has written  *)
(* is its key.                                                                *)
OneWriter ==
  /\ \A s, t \in Servers : at[s] \in Writing /\ at[t] \in Writing => s = t
  /\ \A s \in Servers : at[s] \in Writing => key[s] # {}
  /\ \A s \in Servers : at[s] = "write" => exists /\ content = {}
  /\ \A s \in Servers : at[s] \in {"sync", "finish"} => content = key[s]
  /\ \A s \in Servers : at[s] = "finish" => synced

(* Every key anywhere was drawn.                                              *)
Drawn == content \subseteq drawn /\ \A s \in Servers : key[s] \subseteq drawn

Inv == TypeOK /\ OneWriter /\ Drawn /\ OneKey

LEMMA InitInv == Init => Inv
BY DEF Init, Inv, Drawn, TypeOK, OneWriter, OneKey, Writing, Starting, OneOrNone

(* Every step keeps the invariant.                                           *)
LEMMA StepInv == Inv /\ [Next]_vars => Inv'
<1> SUFFICES ASSUME Inv, [Next]_vars PROVE Inv'
  OBVIOUS
<1> USE DEF Inv
<1>0. Drawn'
  <2>1. CASE PowerFails
    BY <2>1 DEF PowerFails, Drawn, file
  <2>2. CASE Remove
    BY <2>2 DEF Remove, Drawn
  <2>3. ASSUME NEW s \in Servers, ServerStep(s) PROVE Drawn'
    BY <2>3 DEF ServerStep, Start, Read, Create, Write, Sync, Finish, Stop,
                Goto, Has, Drawn, TypeOK, file
  <2>4. CASE UNCHANGED vars
    BY <2>4 DEF vars, file, Drawn
  <2> QED BY <2>1, <2>2, <2>3, <2>4 DEF Next
<1>1. CASE PowerFails
  <2>1. TypeOK'
    BY <1>1 DEF PowerFails, TypeOK, OneOrNone, file
  <2>2. OneWriter'
    BY <1>1 DEF PowerFails, OneWriter, Writing
  <2>3. OneKey'
    <3>1. \A s \in Servers : at'[s] # "up"
      BY <1>1 DEF PowerFails
    <3>2. \A k \in shown : content' = {k} /\ synced'
      <4>1. CASE UNCHANGED file
        BY <4>1 DEF OneKey, file
      <4>2. CASE ~synced
        BY <4>2 DEF OneKey
      <4> QED BY <1>1, <4>1, <4>2 DEF PowerFails
    <3> QED BY <1>1, <3>1, <3>2 DEF PowerFails, OneKey
  <2> QED BY <1>0, <2>1, <2>2, <2>3
<1>2. CASE Remove
  <2>1. TypeOK'
    BY <1>2 DEF Remove, TypeOK
  <2>2. OneWriter'
    BY <1>2 DEF Remove, OneWriter, Writing, Starting
  <2>3. OneKey'
    BY <1>2 DEF Remove, OneKey
  <2> QED BY <1>0, <2>1, <2>2, <2>3
<1>3. ASSUME NEW s \in Servers, Start(s) PROVE Inv'
  BY <1>0, <1>3 DEF Start, Goto, TypeOK, OneWriter, OneKey, Writing, Starting, OneOrNone, file
<1>4. ASSUME NEW s \in Servers, Read(s) PROVE Inv'
  BY <1>0, <1>4 DEF Read, Goto, Has, TypeOK, OneWriter, OneKey, Writing, Starting, OneOrNone, file
<1>5. ASSUME NEW s \in Servers, Create(s) PROVE Inv'
  <2>1. TypeOK'
    <3>1. PICK k \in Keys \ drawn :
            /\ drawn' = drawn \cup {k}
            /\ IF exists
                 THEN Goto(s, "down") /\ UNCHANGED <<key, file>>
                 ELSE /\ Goto(s, "write") /\ Has(s, {k})
                      /\ exists' = TRUE /\ content' = {} /\ synced' = FALSE
      BY <1>5 DEF Create
    <3>2. shown' = shown
      BY <1>5 DEF Create
    <3>3. CASE exists
      BY <3>1, <3>2, <3>3 DEF Goto, file, TypeOK, Starting
    <3>4. CASE ~exists
      <4>1. {k} \in OneOrNone /\ {} \in OneOrNone
        BY DEF OneOrNone
      <4> QED BY <3>1, <3>2, <3>4, <4>1 DEF Goto, Has, TypeOK, Starting
    <3> QED BY <3>3, <3>4
  <2>2. OneWriter'
    BY <1>5 DEF Create, Goto, Has, file, TypeOK, OneWriter, Writing
  <2>3. OneKey'
    BY <1>5 DEF Create, Goto, Has, file, TypeOK, OneWriter, OneKey, Writing
  <2> QED BY <1>0, <2>1, <2>2, <2>3
<1>6. ASSUME NEW s \in Servers, Write(s) PROVE Inv'
  BY <1>0, <1>6 DEF Write, Goto, TypeOK, OneWriter, OneKey, Writing, Starting, OneOrNone
<1>7. ASSUME NEW s \in Servers, Sync(s) PROVE Inv'
  BY <1>0, <1>7 DEF Sync, Goto, TypeOK, OneWriter, OneKey, Writing, Starting, OneOrNone
<1>8. ASSUME NEW s \in Servers, Finish(s) PROVE Inv'
  <2>1. TypeOK'
    <3>1. key[s] \in OneOrNone
      BY DEF TypeOK
    <3>2. at' \in [Servers -> Starting \cup {"down", "up", "operator"}]
      BY <1>8 DEF Finish, Goto, TypeOK
    <3> QED BY <1>8, <3>1, <3>2 DEF Finish, TypeOK, Drawn, OneOrNone, file
  <2>2. OneWriter'
    BY <1>8 DEF Finish, Goto, file, TypeOK, OneWriter, Writing
  <2>3. OneKey'
    BY <1>8 DEF Finish, Goto, file, TypeOK, OneWriter, OneKey, Writing, OneOrNone
  <2> QED BY <1>0, <2>1, <2>2, <2>3
<1>9. ASSUME NEW s \in Servers, Stop(s) PROVE Inv'
  BY <1>0, <1>9 DEF Stop, Goto, Has, TypeOK, OneWriter, OneKey, Writing, Starting, OneOrNone, file
<1>10. CASE UNCHANGED vars
  BY <1>0, <1>10 DEF vars, file, TypeOK, OneWriter, OneKey
<1> QED
  BY <1>1, <1>2, <1>3, <1>4, <1>5, <1>6, <1>7, <1>8, <1>9, <1>10 DEF Next, ServerStep

(* The state has its type, and there is a key on disk only in a file.         *)
THEOREM Typing == Spec => []TypeOK
<1> Inv => TypeOK
  BY DEF Inv
<1> QED BY InitInv, StepInv, PTL DEF Spec

(* Whatever starts race, crash or lose power between any two calls to the     *)
(* file system, every server that is up has the key of the file, and any key  *)
(* shown to an operator is that key, on disk.                                 *)
THEOREM OneKeyLives == Spec => []OneKey
<1> Inv => OneKey
  BY DEF Inv
<1> QED BY InitInv, StepInv, PTL DEF Spec
=============================================================================
