-------------------------- MODULE Sessions_proofs --------------------------
(***************************************************************************)
(* NobodyStranded, for any users, browsers, devices and tabs.              *)
(*                                                                         *)
(* A token is held in one jar only: by the jar itself, or by requests of   *)
(* its tabs.  So whoever rotates or revokes the token of a jar is a tab of *)
(* it, whose answer brings the replacement or clears the jar; and a token  *)
(* on its way to a jar is known to nobody else.                            *)
(***************************************************************************)
EXTENDS Sessions, TLAPS

\* Every token that is held anywhere has been issued.
HeldIssued ==
    /\ \A j \in Jars : jar[j].refresh <= issued
    /\ \A b \in Tabs : req[b].token <= issued

\* A token is held in one jar.
OneJar ==
    /\ \A j, k \in Jars : jar[j].refresh # 0 /\ jar[j].refresh = jar[k].refresh => j = k
    /\ \A b \in Tabs : \A j \in Jars :
          req[b].token # 0 /\ req[b].token = jar[j].refresh => JarOf[b] = j
    /\ \A b, c \in Tabs :
          req[b].token # 0 /\ req[b].token = req[c].token => JarOf[b] = JarOf[c]

\* A token on its way to a jar is held by nobody else, and good unless the
\* sessions of its user were ended since.
InTheMail ==
    \A b \in Tabs : At(b, "set") =>
        /\ req[b].token # 0
        /\ \A j \in Jars : jar[j].refresh # req[b].token
        /\ \A c \in Tabs : req[c].token = req[b].token => c = b
        /\ row[req[b].token].state \in Unrevoked \/ row[req[b].token].old

\* What a refresh knows of the token it was sent with.
RefreshKnows ==
    \A b \in Tabs : req[b].pc \in {"lookup", "sweep", "rotate"} =>
        /\ req[b].token # 0
        /\ req[b].user = row[req[b].token].user

\* A jar holds a good token, or has missed an answer, or is about to get one.
JarOK ==
    \A j \in Jars : jar[j].refresh # 0 =>
        \/ row[jar[j].refresh].state \in Unrevoked
        \/ row[jar[j].refresh].old
        \/ j \in astray
        \/ \E b \in Tabs : JarOf[b] = j /\ req[b].pc \in {"set", "clear"}

IInv ==
    /\ TypeOK /\ HeldIssued /\ OneJar /\ InTheMail /\ RefreshKnows /\ JarOK

\* The types of rows and requests, by name.
RowType == [state : {"unissued", "revoked"} \cup Unrevoked, user : Users \cup {Nobody},
            old : BOOLEAN]
ReqType == [pc : {"idle", "insert", "lookup", "rotate", "sweep", "revoke", "commit", "set",
                  "clear"},
            user : Users \cup {Nobody}, token : 0..MaxTokens, old : BOOLEAN]

LEMMA InitHolds == Init => IInv
  BY NobodyAssumption, TokensAssumption, TabsAssumption
     DEF Init, IInv, TypeOK, HeldIssued, OneJar, InTheMail, RefreshKnows, JarOK,
         NoRow, NoCookies, Request, Idle, At, Tokens, Unrevoked

-----------------------------------------------------------------------------
\* Ending the sessions of a user changes the rows of that user alone: all are older
\* than the end and none can be used.
LEMMA EndedRows ==
    ASSUME NEW u, row \in [Tokens -> RowType]
    PROVE  /\ Ended(u) \in [Tokens -> RowType]
           /\ \A t \in Tokens :
                 /\ Ended(u)[t].user = row[t].user
                 /\ row[t].user # u => Ended(u)[t] = row[t]
                 /\ row[t].user = u => Ended(u)[t].old /\ Ended(u)[t].state \notin Unrevoked
  <1> DEFINE End(r) == IF r.user # u THEN r
                       ELSE [r EXCEPT !.old = TRUE,
                                      !.state = IF @ \in Unrevoked THEN "revoked" ELSE @]
  <1>1. ASSUME NEW r \in RowType
        PROVE  /\ End(r) \in RowType
               /\ End(r).user = r.user
               /\ r.user # u => End(r) = r
               /\ r.user = u => End(r).old /\ End(r).state \notin Unrevoked
    BY DEF RowType, Unrevoked
  <1>2. Ended(u) = [t \in Tokens |-> End(row[t])]
    BY DEF Ended
  <1> HIDE DEF End
  <1> QED
    BY <1>1, <1>2

\* The requests it overtakes keep all but their age.
LEMMA OvertakenRequests ==
    ASSUME NEW u, req \in [Tabs -> ReqType]
    PROVE  /\ Overtaken(u) \in [Tabs -> ReqType]
           /\ \A c \in Tabs :
                 /\ Overtaken(u)[c].pc = req[c].pc /\ Overtaken(u)[c].user = req[c].user
                 /\ Overtaken(u)[c].token = req[c].token
                 /\ req[c].old => Overtaken(u)[c].old
  <1> DEFINE Age(r) == IF r.user = u /\ r.pc = "insert"
                       THEN [r EXCEPT !.old = TRUE] ELSE r
  <1>1. ASSUME NEW r \in ReqType
        PROVE  /\ Age(r) \in ReqType
               /\ Age(r).pc = r.pc /\ Age(r).user = r.user /\ Age(r).token = r.token
               /\ r.old => Age(r).old
    BY DEF ReqType
  <1>2. Overtaken(u) = [c \in Tabs |-> Age(req[c])]
    BY DEF Overtaken
  <1> HIDE DEF Age
  <1> QED
    BY <1>1, <1>2

-----------------------------------------------------------------------------
LEMMA RegisterKeeps ==
    ASSUME IInv, NEW b \in Tabs, NEW u \in Users, Register(b, u)
    PROVE  IInv'
  <1>1. TypeOK'
    BY TabsAssumption, TokensAssumption, NobodyAssumption
       DEF IInv, TypeOK, At, Request, Idle, Tokens, Unrevoked, Register, Send, rows
  <1>2. HeldIssued'
    BY TabsAssumption, TokensAssumption, NobodyAssumption
       DEF IInv, TypeOK, At, Request, Idle, Tokens, Unrevoked, Register, Send, rows, HeldIssued
  <1>3. OneJar'
    BY TabsAssumption, TokensAssumption, NobodyAssumption
       DEF IInv, TypeOK, At, Request, Idle, Tokens, Unrevoked, Register, Send, rows, OneJar, HeldIssued
  <1>4. InTheMail'
    BY TabsAssumption, TokensAssumption, NobodyAssumption
       DEF IInv, TypeOK, At, Request, Idle, Tokens, Unrevoked, Register, Send, rows, InTheMail, HeldIssued, OneJar
  <1>5. RefreshKnows'
    BY TabsAssumption, TokensAssumption, NobodyAssumption
       DEF IInv, TypeOK, At, Request, Idle, Tokens, Unrevoked, Register, Send, rows, RefreshKnows, HeldIssued
  <1>6. JarOK'
    BY TabsAssumption, TokensAssumption, NobodyAssumption
       DEF IInv, TypeOK, At, Request, Idle, Tokens, Unrevoked, Register, Send, rows, JarOK, HeldIssued, OneJar, InTheMail
  <1> QED
    BY <1>1, <1>2, <1>3, <1>4, <1>5, <1>6 DEF IInv

LEMMA LoginKeeps ==
    ASSUME IInv, NEW b \in Tabs, NEW u \in Users, Login(b, u)
    PROVE  IInv'
  <1>1. TypeOK'
    BY TabsAssumption, TokensAssumption, NobodyAssumption
       DEF IInv, TypeOK, At, Request, Idle, Tokens, Unrevoked, Login, Send, rows
  <1>2. HeldIssued'
    BY TabsAssumption, TokensAssumption, NobodyAssumption
       DEF IInv, TypeOK, At, Request, Idle, Tokens, Unrevoked, Login, Send, rows, HeldIssued
  <1>3. OneJar'
    BY TabsAssumption, TokensAssumption, NobodyAssumption
       DEF IInv, TypeOK, At, Request, Idle, Tokens, Unrevoked, Login, Send, rows, OneJar, HeldIssued
  <1>4. InTheMail'
    BY TabsAssumption, TokensAssumption, NobodyAssumption
       DEF IInv, TypeOK, At, Request, Idle, Tokens, Unrevoked, Login, Send, rows, InTheMail, HeldIssued, OneJar
  <1>5. RefreshKnows'
    BY TabsAssumption, TokensAssumption, NobodyAssumption
       DEF IInv, TypeOK, At, Request, Idle, Tokens, Unrevoked, Login, Send, rows, RefreshKnows, HeldIssued
  <1>6. JarOK'
    BY TabsAssumption, TokensAssumption, NobodyAssumption
       DEF IInv, TypeOK, At, Request, Idle, Tokens, Unrevoked, Login, Send, rows, JarOK, HeldIssued, OneJar, InTheMail
  <1> QED
    BY <1>1, <1>2, <1>3, <1>4, <1>5, <1>6 DEF IInv

LEMMA InsertTokenKeeps ==
    ASSUME IInv, NEW b \in Tabs, InsertToken(b)
    PROVE  IInv'
  <1>1. TypeOK'
    <2>1. /\ issued + 1 \in Tokens /\ req[b] \in ReqType
          /\ row \in [Tokens -> RowType] /\ req \in [Tabs -> ReqType]
      BY TokensAssumption DEF IInv, TypeOK, RowType, ReqType, InsertToken, MayIssue, Tokens
    <2>2. [state |-> "live", user |-> req[b].user, old |-> req[b].old] \in RowType
      BY <2>1 DEF RowType, ReqType, Unrevoked
    <2>3. row' \in [Tokens -> RowType]
      BY <2>1, <2>2 DEF InsertToken, Issue
    <2>4. [pc |-> "set", user |-> req[b].user, token |-> issued + 1, old |-> FALSE] \in ReqType
      BY <2>1, TokensAssumption DEF ReqType, Tokens
    <2>5. req' \in [Tabs -> ReqType]
      BY <2>1, <2>4 DEF InsertToken, Request
    <2> QED
      BY <2>1, <2>3, <2>5, TokensAssumption DEF IInv, TypeOK, RowType, ReqType, InsertToken, Tokens
  <1>2. HeldIssued'
    BY TabsAssumption, TokensAssumption, NobodyAssumption
       DEF IInv, TypeOK, At, Request, Idle, Tokens, Unrevoked, InsertToken, Issue, MayIssue, HeldIssued
  <1>3. OneJar'
    BY TabsAssumption, TokensAssumption, NobodyAssumption
       DEF IInv, TypeOK, At, Request, Idle, Tokens, Unrevoked, InsertToken, Issue, MayIssue, OneJar, HeldIssued
  <1>4. InTheMail'
    BY TabsAssumption, TokensAssumption, NobodyAssumption
       DEF IInv, TypeOK, At, Request, Idle, Tokens, Unrevoked, InsertToken, Issue, MayIssue, InTheMail, HeldIssued, OneJar
  <1>5. RefreshKnows'
    BY TabsAssumption, TokensAssumption, NobodyAssumption
       DEF IInv, TypeOK, At, Request, Idle, Tokens, Unrevoked, InsertToken, Issue, MayIssue, RefreshKnows, HeldIssued
  <1>6. JarOK'
    BY TabsAssumption, TokensAssumption, NobodyAssumption
       DEF IInv, TypeOK, At, Request, Idle, Tokens, Unrevoked, InsertToken, Issue, MayIssue, JarOK, HeldIssued, OneJar, InTheMail
  <1> QED
    BY <1>1, <1>2, <1>3, <1>4, <1>5, <1>6 DEF IInv

LEMMA RefreshKeeps ==
    ASSUME IInv, NEW b \in Tabs, Refresh(b)
    PROVE  IInv'
  <1>a1. /\ account' = account /\ row' = row /\ issued' = issued
         /\ jar' = jar /\ astray' = astray
         /\ At(b, "idle")
    BY DEF Refresh, Send, rows
  <1>a2. jar[JarOf[b]].refresh \in Tokens /\ jar[JarOf[b]].refresh <= issued
    BY TabsAssumption, TokensAssumption, NobodyAssumption DEF IInv, TypeOK, HeldIssued, Refresh, Tokens
  <1>a3. row \in [Tokens -> RowType] /\ req \in [Tabs -> ReqType]
    BY DEF IInv, TypeOK, RowType, ReqType
  <1>a4. req' = [req EXCEPT ![b] = [pc |-> "lookup", user |-> row[jar[JarOf[b]].refresh].user,
                                     token |-> jar[JarOf[b]].refresh, old |-> FALSE]]
    BY DEF Refresh, Send, Request
  <1>a5. [pc |-> "lookup", user |-> row[jar[JarOf[b]].refresh].user,
                                     token |-> jar[JarOf[b]].refresh, old |-> FALSE] \in ReqType
    BY <1>a2, <1>a3, TokensAssumption DEF ReqType, RowType, Tokens
  <1>a6. req' \in [Tabs -> ReqType]
    BY <1>a3, <1>a4, <1>a5
  <1>a7. \A c \in Tabs : c # b => req'[c] = req[c]
    BY <1>a3, <1>a4
  <1>a8. /\ req'[b].pc = "lookup" /\ req'[b].user = row[jar[JarOf[b]].refresh].user
         /\ req'[b].token = jar[JarOf[b]].refresh /\ req'[b].old = FALSE
    BY <1>a3, <1>a4
  <1>1. TypeOK'
    BY <1>a1, <1>a2, <1>a3, <1>a6, <1>a7, <1>a8
       DEF IInv, TypeOK, RowType, ReqType
  <1>2. HeldIssued'
    BY <1>a1, <1>a2, <1>a3, <1>a6, <1>a7, <1>a8, TabsAssumption, TokensAssumption
       DEF IInv, HeldIssued
  <1>3. OneJar'
    BY <1>a1, <1>a2, <1>a3, <1>a6, <1>a7, <1>a8, TabsAssumption
       DEF IInv, OneJar
  <1>4. InTheMail'
    BY <1>a1, <1>a2, <1>a3, <1>a6, <1>a7, <1>a8, TabsAssumption
       DEF IInv, InTheMail, OneJar, At
  <1>5. RefreshKnows'
    BY <1>a1, <1>a2, <1>a3, <1>a6, <1>a7, <1>a8, TokensAssumption
       DEF IInv, RefreshKnows, At, Tokens, Unrevoked
  <1>6. JarOK'
    <2>1. \A j \in Jars : jar[j].refresh # 0 => jar[j].refresh \in Tokens
      BY TokensAssumption DEF IInv, TypeOK, Tokens
    <2>2. \A t \in Tokens : row[t].state \in Unrevoked \/ row[t].old
                               => row'[t].state \in Unrevoked \/ row'[t].old
      BY <1>a1, <1>a2, <1>a3, <1>a6, <1>a7, <1>a8
    <2>3. \A c \in Tabs : req[c].pc \in {"set", "clear"} => req'[c].pc \in {"set", "clear"}
      BY <1>a1, <1>a2, <1>a3, <1>a6, <1>a7, <1>a8 DEF At
    <2> QED
      BY <2>1, <2>2, <2>3, <1>a1 DEF IInv, JarOK
  <1> QED
    BY <1>1, <1>2, <1>3, <1>4, <1>5, <1>6 DEF IInv

LEMMA LookUpKeeps ==
    ASSUME IInv, NEW b \in Tabs, LookUp(b)
    PROVE  IInv'
  <1>a1. /\ account' = account /\ row' = row /\ issued' = issued
         /\ jar' = jar /\ astray' = astray
    BY DEF LookUp, rows
  <1>a2. At(b, "lookup")
    BY DEF LookUp
  <1>a3. row \in [Tokens -> RowType] /\ req \in [Tabs -> ReqType]
    BY DEF IInv, TypeOK, RowType, ReqType
  <1>a4. req[b].token \in Tokens
    BY <1>a2, <1>a3, TokensAssumption DEF IInv, RefreshKnows, At, ReqType, Tokens
  <1>a5. \/ row[req[b].token].state = "revoked" /\ req' = [req EXCEPT ![b].pc = "sweep"]
         \/ row[req[b].token].state = "live" /\ req' = [req EXCEPT ![b].pc = "rotate"]
         \/ req' = [req EXCEPT ![b] = [pc |-> "idle", user |-> Nobody, token |-> 0, old |-> FALSE]]
    BY DEF LookUp, Goto, Refuse, Request, Idle
  <1>a6. \A c \in Tabs : c # b => req'[c] = req[c]
    BY <1>a3, <1>a5
  <1>a7. \/ /\ req'[b].pc \in {"sweep", "rotate"} /\ req'[b].user = req[b].user
            /\ req'[b].token = req[b].token /\ req'[b].old = req[b].old
            /\ req'[b].pc = "rotate" => row[req[b].token].state = "live"
         \/ req'[b].pc = "idle" /\ req'[b].token = 0
    BY <1>a3, <1>a5 DEF ReqType
  <1>a8. \A pc \in {"sweep", "rotate"} : [req[b] EXCEPT !.pc = pc] \in ReqType
    BY <1>a3 DEF ReqType
  <1>a9. [pc |-> "idle", user |-> Nobody, token |-> 0, old |-> FALSE] \in ReqType
    BY TokensAssumption DEF ReqType
  <1>a10. req' \in [Tabs -> ReqType]
    BY <1>a3, <1>a5, <1>a8, <1>a9
  <1>a11. \A c \in Tabs : req[c].token # 0 => req[c].token \in Tokens
    BY TokensAssumption DEF IInv, TypeOK, Tokens
  <1>a12. issued \in 0..MaxTokens
    BY DEF IInv, TypeOK
  <1>1. TypeOK'
    BY <1>a1, <1>a2, <1>a3, <1>a4, <1>a6, <1>a7, <1>a10, <1>a11, <1>a12
       DEF IInv, TypeOK, RowType, ReqType
  <1>2. HeldIssued'
    BY <1>a1, <1>a2, <1>a3, <1>a4, <1>a6, <1>a7, <1>a10, <1>a11, <1>a12, TabsAssumption, TokensAssumption
       DEF IInv, HeldIssued
  <1>3. OneJar'
    BY <1>a1, <1>a2, <1>a3, <1>a4, <1>a6, <1>a7, <1>a10, <1>a11, <1>a12, TabsAssumption
       DEF IInv, OneJar
  <1>4. InTheMail'
    BY <1>a1, <1>a2, <1>a3, <1>a4, <1>a6, <1>a7, <1>a10, <1>a11, <1>a12, TabsAssumption
       DEF IInv, InTheMail, OneJar, At
  <1>5. RefreshKnows'
    BY <1>a1, <1>a2, <1>a3, <1>a4, <1>a6, <1>a7, <1>a10, <1>a11, <1>a12, TokensAssumption
       DEF IInv, RefreshKnows, At, Tokens, Unrevoked
  <1>6. JarOK'
    <2>1. \A j \in Jars : jar[j].refresh # 0 => jar[j].refresh \in Tokens
      BY TokensAssumption DEF IInv, TypeOK, Tokens
    <2>2. \A t \in Tokens : row[t].state \in Unrevoked \/ row[t].old
                               => row'[t].state \in Unrevoked \/ row'[t].old
      BY <1>a1, <1>a2, <1>a3, <1>a4, <1>a6, <1>a7, <1>a10, <1>a11, <1>a12
    <2>3. \A c \in Tabs : req[c].pc \in {"set", "clear"} => req'[c].pc \in {"set", "clear"}
      BY <1>a1, <1>a2, <1>a3, <1>a4, <1>a6, <1>a7, <1>a10, <1>a11, <1>a12 DEF At
    <2> QED
      BY <2>1, <2>2, <2>3, <1>a1 DEF IInv, JarOK
  <1> QED
    BY <1>1, <1>2, <1>3, <1>4, <1>5, <1>6 DEF IInv

LEMMA SweepReusedKeeps ==
    ASSUME IInv, NEW b \in Tabs, SweepReused(b)
    PROVE  IInv'
  <1>a1. /\ account' = account /\ issued' = issued /\ jar' = jar /\ astray' = astray
         /\ At(b, "sweep")
    BY DEF SweepReused
  <1>a2. row \in [Tokens -> RowType] /\ req \in [Tabs -> ReqType]
    BY DEF IInv, TypeOK, RowType, ReqType
  <1>a3. row' = Ended(req[b].user)
    BY DEF SweepReused
  <1>a4. row' \in [Tokens -> RowType]
    BY <1>a2, <1>a3, EndedRows
  <1>a5. \A t \in Tokens :
           /\ row'[t].user = row[t].user
           /\ row[t].user # req[b].user => row'[t] = row[t]
           /\ row[t].user = req[b].user => row'[t].old /\ row'[t].state \notin Unrevoked
    BY <1>a2, <1>a3, EndedRows
  <1>a6. req' = [Overtaken(req[b].user) EXCEPT ![b] =
                     [pc |-> "idle", user |-> Nobody, token |-> 0, old |-> FALSE]]
    BY DEF SweepReused, Request, Idle
  <1>a7. Overtaken(req[b].user) \in [Tabs -> ReqType]
    BY <1>a2, OvertakenRequests
  <1>a8. req' \in [Tabs -> ReqType]
    BY <1>a6, <1>a7, TokensAssumption DEF ReqType
  <1>a9. \A c \in Tabs : c # b =>
           /\ req'[c].pc = req[c].pc /\ req'[c].user = req[c].user /\ req'[c].token = req[c].token
           /\ req[c].old => req'[c].old
    BY <1>a2, <1>a6, <1>a7, OvertakenRequests
  <1>a10. req'[b].pc = "idle" /\ req'[b].token = 0
    BY <1>a6, <1>a7
  <1>a11. \A c \in Tabs : req[c].token # 0 => req[c].token \in Tokens
    BY TokensAssumption DEF IInv, TypeOK, Tokens
  <1>a12. issued \in 0..MaxTokens
    BY DEF IInv, TypeOK
  <1>1. TypeOK'
    BY <1>a1, <1>a2, <1>a4, <1>a5, <1>a8, <1>a9, <1>a10, <1>a11, <1>a12
       DEF IInv, TypeOK, RowType, ReqType
  <1>2. HeldIssued'
    BY <1>a1, <1>a2, <1>a4, <1>a5, <1>a8, <1>a9, <1>a10, <1>a11, <1>a12, TabsAssumption, TokensAssumption
       DEF IInv, HeldIssued
  <1>3. OneJar'
    BY <1>a1, <1>a2, <1>a4, <1>a5, <1>a8, <1>a9, <1>a10, <1>a11, <1>a12, TabsAssumption
       DEF IInv, OneJar
  <1>4. InTheMail'
    BY <1>a1, <1>a2, <1>a4, <1>a5, <1>a8, <1>a9, <1>a10, <1>a11, <1>a12, TabsAssumption
       DEF IInv, InTheMail, OneJar, At
  <1>5. RefreshKnows'
    BY <1>a1, <1>a2, <1>a4, <1>a5, <1>a8, <1>a9, <1>a10, <1>a11, <1>a12, TokensAssumption
       DEF IInv, RefreshKnows, At, Tokens, Unrevoked
  <1>6. JarOK'
    <2>1. \A j \in Jars : jar[j].refresh # 0 => jar[j].refresh \in Tokens
      BY TokensAssumption DEF IInv, TypeOK, Tokens
    <2>2. \A t \in Tokens : row[t].state \in Unrevoked \/ row[t].old
                               => row'[t].state \in Unrevoked \/ row'[t].old
      BY <1>a1, <1>a2, <1>a4, <1>a5, <1>a8, <1>a9, <1>a10, <1>a11, <1>a12
    <2>3. \A c \in Tabs : req[c].pc \in {"set", "clear"} => req'[c].pc \in {"set", "clear"}
      BY <1>a1, <1>a2, <1>a4, <1>a5, <1>a8, <1>a9, <1>a10, <1>a11, <1>a12 DEF At
    <2> QED
      BY <2>1, <2>2, <2>3, <1>a1 DEF IInv, JarOK
  <1> QED
    BY <1>1, <1>2, <1>3, <1>4, <1>5, <1>6 DEF IInv

LEMMA RotateKeeps ==
    ASSUME IInv, NEW b \in Tabs, Rotate(b)
    PROVE  IInv'
  <1>1. TypeOK'
    <2>1. /\ issued + 1 \in Tokens /\ req[b] \in ReqType
          /\ req[b].token \in Tokens
          /\ row \in [Tokens -> RowType] /\ req \in [Tabs -> ReqType]
      BY TokensAssumption
         DEF IInv, TypeOK, RowType, ReqType, RefreshKnows, Rotate, MayIssue, At, Tokens
    <2>2. /\ row[req[b].token] \in RowType
          /\ [row[req[b].token] EXCEPT !.state = "revoked"] \in RowType
      BY <2>1 DEF RowType
    <2>3. [state |-> "live", user |-> req[b].user, old |-> row[req[b].token].old]
             \in RowType
      BY <2>1, <2>2 DEF RowType, ReqType, Unrevoked
    <2>4. row' \in [Tokens -> RowType]
      BY <2>1, <2>2, <2>3 DEF Rotate, Issue
    <2>5. [pc |-> "set", user |-> req[b].user, token |-> issued + 1, old |-> FALSE] \in ReqType
      BY <2>1, TokensAssumption DEF ReqType, Tokens
    <2>6. req' \in [Tabs -> ReqType]
      BY <2>1, <2>5 DEF Rotate, Request
    <2>7. account' = account /\ jar' = jar /\ astray' = astray /\ issued' = issued + 1
      BY DEF Rotate
    <2> QED
      BY <2>1, <2>4, <2>6, <2>7, TokensAssumption DEF IInv, TypeOK, RowType, ReqType, Tokens
  <1>2. HeldIssued'
    BY TabsAssumption, TokensAssumption, NobodyAssumption
       DEF IInv, TypeOK, At, Request, Idle, Tokens, Unrevoked, Rotate, Issue, MayIssue, HeldIssued
  <1>3. OneJar'
    BY TabsAssumption, TokensAssumption, NobodyAssumption
       DEF IInv, TypeOK, At, Request, Idle, Tokens, Unrevoked, Rotate, Issue, MayIssue, OneJar, HeldIssued
  <1>4. InTheMail'
    BY TabsAssumption, TokensAssumption, NobodyAssumption
       DEF IInv, TypeOK, At, Request, Idle, Tokens, Unrevoked, Rotate, Issue, MayIssue, InTheMail, HeldIssued, OneJar
  <1>5. RefreshKnows'
    <2>1. /\ req[b].token \in 1..issued /\ issued \in 0..MaxTokens /\ issued + 1 \in Tokens
          /\ row \in [Tokens -> RowType] /\ req \in [Tabs -> ReqType]
      BY TabsAssumption, TokensAssumption
         DEF IInv, TypeOK, HeldIssued, RefreshKnows, Rotate, MayIssue, At, Tokens, RowType, ReqType
    <2>2. \A c \in Tabs : req[c].token # 0 => req[c].token \in Tokens /\ req[c].token # issued + 1
      BY <2>1, TokensAssumption DEF IInv, TypeOK, HeldIssued, Tokens
    <2>3. \A t \in Tokens : t # issued + 1 =>
             row'[t].user = row[t].user /\ row'[t].old = row[t].old
      BY <2>1, TokensAssumption DEF Rotate, Issue, Tokens, RowType
    <2>4. /\ \A c \in Tabs : c # b => req'[c] = req[c]
          /\ req'[b].pc = "set"
      BY <2>1 DEF Rotate, Request
    <2> QED
      BY <2>2, <2>3, <2>4 DEF IInv, RefreshKnows, At
  <1>6. JarOK'
    BY TabsAssumption, TokensAssumption, NobodyAssumption
       DEF IInv, TypeOK, At, Request, Idle, Tokens, Unrevoked, Rotate, Issue, MayIssue, JarOK, HeldIssued, OneJar, InTheMail
  <1> QED
    BY <1>1, <1>2, <1>3, <1>4, <1>5, <1>6 DEF IInv

LEMMA LogoutKeeps ==
    ASSUME IInv, NEW b \in Tabs, Logout(b)
    PROVE  IInv'
  <1>a1. /\ account' = account /\ row' = row /\ issued' = issued
         /\ jar' = jar /\ astray' = astray
         /\ At(b, "idle")
    BY DEF Logout, Send, rows
  <1>a2. row \in [Tokens -> RowType] /\ req \in [Tabs -> ReqType]
    BY DEF IInv, TypeOK, RowType, ReqType
  <1>a3. jar[JarOf[b]].refresh \in 0..MaxTokens
    BY TabsAssumption, TokensAssumption, NobodyAssumption DEF IInv, TypeOK
  <1>a4. req' = [req EXCEPT ![b] = [pc |-> "revoke", user |-> Nobody,
                                     token |-> jar[JarOf[b]].refresh, old |-> FALSE]]
    BY DEF Logout, Send, Request
  <1>a5. req' \in [Tabs -> ReqType]
    BY <1>a2, <1>a3, <1>a4 DEF ReqType
  <1>a6. \A c \in Tabs : c # b => req'[c] = req[c]
    BY <1>a2, <1>a4
  <1>a7. req'[b].pc = "revoke" /\ req'[b].token = jar[JarOf[b]].refresh
    BY <1>a2, <1>a4
  <1>1. TypeOK'
    BY <1>a1, <1>a2, <1>a3, <1>a5, <1>a6, <1>a7
       DEF IInv, TypeOK, RowType, ReqType
  <1>2. HeldIssued'
    BY <1>a1, <1>a2, <1>a3, <1>a5, <1>a6, <1>a7, TabsAssumption, TokensAssumption
       DEF IInv, HeldIssued
  <1>3. OneJar'
    BY <1>a1, <1>a2, <1>a3, <1>a5, <1>a6, <1>a7, TabsAssumption
       DEF IInv, OneJar
  <1>4. InTheMail'
    BY <1>a1, <1>a2, <1>a3, <1>a5, <1>a6, <1>a7, TabsAssumption
       DEF IInv, InTheMail, OneJar, At
  <1>5. RefreshKnows'
    BY <1>a1, <1>a2, <1>a3, <1>a5, <1>a6, <1>a7, TokensAssumption
       DEF IInv, RefreshKnows, At, Tokens, Unrevoked
  <1>6. JarOK'
    <2>1. \A j \in Jars : jar[j].refresh # 0 => jar[j].refresh \in Tokens
      BY TokensAssumption DEF IInv, TypeOK, Tokens
    <2>2. \A t \in Tokens : row[t].state \in Unrevoked \/ row[t].old
                               => row'[t].state \in Unrevoked \/ row'[t].old
      BY <1>a1, <1>a2, <1>a3, <1>a5, <1>a6, <1>a7
    <2>3. \A c \in Tabs : req[c].pc \in {"set", "clear"} => req'[c].pc \in {"set", "clear"}
      BY <1>a1, <1>a2, <1>a3, <1>a5, <1>a6, <1>a7 DEF At
    <2> QED
      BY <2>1, <2>2, <2>3, <1>a1 DEF IInv, JarOK
  <1> QED
    BY <1>1, <1>2, <1>3, <1>4, <1>5, <1>6 DEF IInv

LEMMA RevokeTokenKeeps ==
    ASSUME IInv, NEW b \in Tabs, RevokeToken(b)
    PROVE  IInv'
  <1>1. TypeOK'
    <2>1. row \in [Tokens -> RowType] /\ req \in [Tabs -> ReqType]
      BY DEF IInv, TypeOK, RowType, ReqType
    <2>2. ASSUME NEW t \in Tokens PROVE [row[t] EXCEPT !.state = "revoked"] \in RowType
      BY <2>1 DEF RowType
    <2>3. row' \in [Tokens -> RowType]
      BY <2>1, <2>2 DEF RevokeToken, Closed
    <2>4. [req[b] EXCEPT !.pc = "clear"] \in ReqType
      BY <2>1 DEF ReqType
    <2>5. req' \in [Tabs -> ReqType]
      BY <2>1, <2>4 DEF RevokeToken, Goto
    <2> QED
      BY <2>3, <2>5 DEF IInv, TypeOK, RowType, ReqType, RevokeToken
  <1>2. HeldIssued'
    BY TabsAssumption, TokensAssumption, NobodyAssumption
       DEF IInv, TypeOK, At, Request, Idle, Tokens, Unrevoked, RevokeToken, Closed, Goto, HeldIssued
  <1>3. OneJar'
    BY TabsAssumption, TokensAssumption, NobodyAssumption
       DEF IInv, TypeOK, At, Request, Idle, Tokens, Unrevoked, RevokeToken, Closed, Goto, OneJar, HeldIssued
  <1>4. InTheMail'
    BY TabsAssumption, TokensAssumption, NobodyAssumption
       DEF IInv, TypeOK, At, Request, Idle, Tokens, Unrevoked, RevokeToken, Closed, Goto, InTheMail, HeldIssued, OneJar
  <1>5. RefreshKnows'
    BY TabsAssumption, TokensAssumption, NobodyAssumption
       DEF IInv, TypeOK, At, Request, Idle, Tokens, Unrevoked, RevokeToken, Closed, Goto, RefreshKnows, HeldIssued
  <1>6. JarOK'
    BY TabsAssumption, TokensAssumption, NobodyAssumption
       DEF IInv, TypeOK, At, Request, Idle, Tokens, Unrevoked, RevokeToken, Closed, Goto, JarOK, HeldIssued, OneJar, InTheMail
  <1> QED
    BY <1>1, <1>2, <1>3, <1>4, <1>5, <1>6 DEF IInv

LEMMA ChangePasswordKeeps ==
    ASSUME IInv, NEW b \in Tabs, ChangePassword(b)
    PROVE  IInv'
  <1>a1. /\ account' = account /\ row' = row /\ issued' = issued
         /\ jar' = jar /\ astray' = astray
         /\ At(b, "idle")
    BY DEF ChangePassword, Send, rows
  <1>a2. row \in [Tokens -> RowType] /\ req \in [Tabs -> ReqType]
    BY DEF IInv, TypeOK, RowType, ReqType
  <1>a3. jar[JarOf[b]].access \in Users \cup {Nobody}
    BY TabsAssumption, TokensAssumption, NobodyAssumption DEF IInv, TypeOK
  <1>a4. req' = [req EXCEPT ![b] = [pc |-> "commit", user |-> jar[JarOf[b]].access,
                                     token |-> 0, old |-> FALSE]]
    BY DEF ChangePassword, Send, Request
  <1>a5. req' \in [Tabs -> ReqType]
    BY <1>a2, <1>a3, <1>a4, TokensAssumption DEF ReqType
  <1>a6. \A c \in Tabs : c # b => req'[c] = req[c]
    BY <1>a2, <1>a4
  <1>a7. req'[b].pc = "commit" /\ req'[b].token = 0
    BY <1>a2, <1>a4
  <1>a8. \A c \in Tabs : req[c].token # 0 => req[c].token \in Tokens
    BY TokensAssumption DEF IInv, TypeOK, Tokens
  <1>a9. issued \in 0..MaxTokens
    BY DEF IInv, TypeOK
  <1>1. TypeOK'
    BY <1>a1, <1>a2, <1>a3, <1>a5, <1>a6, <1>a7, <1>a8, <1>a9
       DEF IInv, TypeOK, RowType, ReqType
  <1>2. HeldIssued'
    BY <1>a1, <1>a2, <1>a3, <1>a5, <1>a6, <1>a7, <1>a8, <1>a9, TabsAssumption, TokensAssumption
       DEF IInv, HeldIssued
  <1>3. OneJar'
    BY <1>a1, <1>a2, <1>a3, <1>a5, <1>a6, <1>a7, <1>a8, <1>a9, TabsAssumption
       DEF IInv, OneJar
  <1>4. InTheMail'
    BY <1>a1, <1>a2, <1>a3, <1>a5, <1>a6, <1>a7, <1>a8, <1>a9, TabsAssumption
       DEF IInv, InTheMail, OneJar, At
  <1>5. RefreshKnows'
    BY <1>a1, <1>a2, <1>a3, <1>a5, <1>a6, <1>a7, <1>a8, <1>a9, TokensAssumption
       DEF IInv, RefreshKnows, At, Tokens, Unrevoked
  <1>6. JarOK'
    <2>1. \A j \in Jars : jar[j].refresh # 0 => jar[j].refresh \in Tokens
      BY TokensAssumption DEF IInv, TypeOK, Tokens
    <2>2. \A t \in Tokens : row[t].state \in Unrevoked \/ row[t].old
                               => row'[t].state \in Unrevoked \/ row'[t].old
      BY <1>a1, <1>a2, <1>a3, <1>a5, <1>a6, <1>a7, <1>a8, <1>a9
    <2>3. \A c \in Tabs : req[c].pc \in {"set", "clear"} => req'[c].pc \in {"set", "clear"}
      BY <1>a1, <1>a2, <1>a3, <1>a5, <1>a6, <1>a7, <1>a8, <1>a9 DEF At
    <2> QED
      BY <2>1, <2>2, <2>3, <1>a1 DEF IInv, JarOK
  <1> QED
    BY <1>1, <1>2, <1>3, <1>4, <1>5, <1>6 DEF IInv

LEMMA CommitPasswordKeeps ==
    ASSUME IInv, NEW b \in Tabs, CommitPassword(b)
    PROVE  IInv'
  <1>a1. /\ account' = account /\ issued' = issued /\ jar' = jar /\ astray' = astray
         /\ At(b, "commit")
    BY DEF CommitPassword
  <1>a2. row \in [Tokens -> RowType] /\ req \in [Tabs -> ReqType]
    BY DEF IInv, TypeOK, RowType, ReqType
  <1>a3. row' = Ended(req[b].user)
    BY DEF CommitPassword
  <1>a4. row' \in [Tokens -> RowType]
    BY <1>a2, <1>a3, EndedRows
  <1>a5. \A t \in Tokens :
           /\ row'[t].user = row[t].user
           /\ row[t].user # req[b].user => row'[t] = row[t]
           /\ row[t].user = req[b].user => row'[t].old /\ row'[t].state \notin Unrevoked
    BY <1>a2, <1>a3, EndedRows
  <1>a6. req' = [Overtaken(req[b].user) EXCEPT ![b].pc = "clear"]
    BY DEF CommitPassword
  <1>a7. Overtaken(req[b].user) \in [Tabs -> ReqType]
    BY <1>a2, OvertakenRequests
  <1>a8. req' \in [Tabs -> ReqType]
    BY <1>a6, <1>a7 DEF ReqType
  <1>a9. \A c \in Tabs :
           /\ c # b => req'[c].pc = req[c].pc
           /\ req'[c].user = req[c].user /\ req'[c].token = req[c].token
           /\ req[c].old => req'[c].old
    BY <1>a1, <1>a2, <1>a6, <1>a7, OvertakenRequests DEF At, ReqType
  <1>a10. req'[b].pc = "clear"
    BY <1>a6, <1>a7 DEF ReqType
  <1>a11. \A c \in Tabs : req[c].token # 0 => req[c].token \in Tokens
    BY TokensAssumption DEF IInv, TypeOK, Tokens
  <1>a12. issued \in 0..MaxTokens
    BY DEF IInv, TypeOK
  <1>1. TypeOK'
    BY <1>a1, <1>a2, <1>a4, <1>a5, <1>a8, <1>a9, <1>a10, <1>a11, <1>a12
       DEF IInv, TypeOK, RowType, ReqType
  <1>2. HeldIssued'
    BY <1>a1, <1>a2, <1>a4, <1>a5, <1>a8, <1>a9, <1>a10, <1>a11, <1>a12, TabsAssumption, TokensAssumption
       DEF IInv, HeldIssued
  <1>3. OneJar'
    BY <1>a1, <1>a2, <1>a4, <1>a5, <1>a8, <1>a9, <1>a10, <1>a11, <1>a12, TabsAssumption
       DEF IInv, OneJar
  <1>4. InTheMail'
    BY <1>a1, <1>a2, <1>a4, <1>a5, <1>a8, <1>a9, <1>a10, <1>a11, <1>a12, TabsAssumption
       DEF IInv, InTheMail, OneJar, At
  <1>5. RefreshKnows'
    BY <1>a1, <1>a2, <1>a4, <1>a5, <1>a8, <1>a9, <1>a10, <1>a11, <1>a12, TokensAssumption
       DEF IInv, RefreshKnows, At, Tokens, Unrevoked
  <1>6. JarOK'
    <2>1. \A j \in Jars : jar[j].refresh # 0 => jar[j].refresh \in Tokens
      BY TokensAssumption DEF IInv, TypeOK, Tokens
    <2>2. \A t \in Tokens : row[t].state \in Unrevoked \/ row[t].old
                               => row'[t].state \in Unrevoked \/ row'[t].old
      BY <1>a1, <1>a2, <1>a4, <1>a5, <1>a8, <1>a9, <1>a10, <1>a11, <1>a12
    <2>3. \A c \in Tabs : req[c].pc \in {"set", "clear"} => req'[c].pc \in {"set", "clear"}
      BY <1>a1, <1>a2, <1>a4, <1>a5, <1>a8, <1>a9, <1>a10, <1>a11, <1>a12 DEF At
    <2> QED
      BY <2>1, <2>2, <2>3, <1>a1 DEF IInv, JarOK
  <1> QED
    BY <1>1, <1>2, <1>3, <1>4, <1>5, <1>6 DEF IInv

LEMMA AnswerKeeps ==
    ASSUME IInv, NEW b \in Tabs, Answer(b)
    PROVE  IInv'
  <1>a1. /\ account' = account /\ row' = row /\ issued' = issued
         /\ astray' = astray \ {JarOf[b]}
    BY DEF Answer, rows
  <1>a2. row \in [Tokens -> RowType] /\ req \in [Tabs -> ReqType]
    BY DEF IInv, TypeOK, RowType, ReqType
  <1>a3. jar \in [Jars -> [access : Users \cup {Nobody}, refresh : 0..MaxTokens]]
         /\ JarOf[b] \in Jars
    BY TabsAssumption DEF IInv, TypeOK
  <1>a4. req' = [req EXCEPT ![b] = [pc |-> "idle", user |-> Nobody, token |-> 0, old |-> FALSE]]
    BY DEF Answer, Refuse, Request, Idle
  <1>a5. req' \in [Tabs -> ReqType]
    BY <1>a2, <1>a4, TokensAssumption DEF ReqType
  <1>a6. \A c \in Tabs : c # b => req'[c] = req[c]
    BY <1>a2, <1>a4
  <1>a7. req'[b].pc = "idle" /\ req'[b].token = 0
    BY <1>a2, <1>a4
  <1>a8. \/ At(b, "set") /\ jar' = [jar EXCEPT ![JarOf[b]] =
                                     [access |-> req[b].user, refresh |-> req[b].token]]
         \/ At(b, "clear") /\ jar' = [jar EXCEPT ![JarOf[b]] =
                                       [access |-> Nobody, refresh |-> 0]]
    BY DEF Answer, SetAuthCookies, NoCookies
  <1>a9. \A j \in Jars : j # JarOf[b] => jar'[j] = jar[j]
    BY <1>a3, <1>a8
  <1>a10. At(b, "set") => jar'[JarOf[b]].refresh = req[b].token
    BY <1>a3, <1>a8 DEF At
  <1>a11. At(b, "clear") => jar'[JarOf[b]].refresh = 0
    BY <1>a3, <1>a8 DEF At
  <1>a12. At(b, "set") \/ At(b, "clear")
    BY <1>a8
  <1>a13. jar' \in [Jars -> [access : Users \cup {Nobody}, refresh : 0..MaxTokens]]
    BY <1>a2, <1>a3, <1>a8, TokensAssumption DEF ReqType
  <1>a14. \A c \in Tabs : req[c].token # 0 => req[c].token \in Tokens
    BY TokensAssumption DEF IInv, TypeOK, Tokens
  <1>a15. issued \in 0..MaxTokens
    BY DEF IInv, TypeOK
  <1>1. TypeOK'
    BY <1>a1, <1>a2, <1>a3, <1>a5, <1>a6, <1>a7, <1>a9, <1>a10, <1>a11, <1>a12, <1>a13, <1>a14, <1>a15
       DEF IInv, TypeOK, RowType, ReqType
  <1>2. HeldIssued'
    BY <1>a1, <1>a2, <1>a3, <1>a5, <1>a6, <1>a7, <1>a9, <1>a10, <1>a11, <1>a12, <1>a13, <1>a14, <1>a15, TabsAssumption, TokensAssumption
       DEF IInv, HeldIssued
  <1>3. OneJar'
    <2>1. \A c \in Tabs : req'[c].token # 0 => c # b /\ req'[c] = req[c]
      BY <1>a6, <1>a7
    <2>2. \A j \in Jars : jar'[j].refresh # 0 =>
             \/ j # JarOf[b] /\ jar'[j] = jar[j]
             \/ j = JarOf[b] /\ At(b, "set") /\ jar'[j].refresh = req[b].token
      BY <1>a9, <1>a10, <1>a11, <1>a12
    <2>3. At(b, "set") => /\ \A j \in Jars : jar[j].refresh # req[b].token
                          /\ \A c \in Tabs : req[c].token = req[b].token => c = b
      BY DEF IInv, InTheMail
    <2>4. ASSUME NEW j \in Jars, NEW k \in Jars,
                 jar'[j].refresh # 0, jar'[j].refresh = jar'[k].refresh
          PROVE  j = k
      BY <2>2, <2>3, <2>4 DEF IInv, OneJar
    <2>5. ASSUME NEW c \in Tabs, NEW j \in Jars,
                 req'[c].token # 0, req'[c].token = jar'[j].refresh
          PROVE  JarOf[c] = j
      BY <2>1, <2>2, <2>3, <2>5 DEF IInv, OneJar
    <2>6. ASSUME NEW c \in Tabs, NEW d \in Tabs,
                 req'[c].token # 0, req'[c].token = req'[d].token
          PROVE  JarOf[c] = JarOf[d]
      BY <2>1, <2>6 DEF IInv, OneJar
    <2> QED
      BY <2>4, <2>5, <2>6 DEF OneJar
  <1>4. InTheMail'
    <2> SUFFICES ASSUME NEW c \in Tabs, req'[c].pc = "set"
                 PROVE  /\ req'[c].token # 0
                        /\ \A j \in Jars : jar'[j].refresh # req'[c].token
                        /\ \A d \in Tabs : req'[d].token = req'[c].token => d = c
                        /\ row'[req'[c].token].state \in Unrevoked \/ row'[req'[c].token].old
      BY DEF InTheMail, At
    <2>1. c # b /\ req'[c] = req[c]
      BY <1>a6, <1>a7
    <2>2. /\ req[c].token # 0
          /\ \A j \in Jars : jar[j].refresh # req[c].token
          /\ \A d \in Tabs : req[d].token = req[c].token => d = c
          /\ row[req[c].token].state \in Unrevoked \/ row[req[c].token].old
      BY <2>1 DEF IInv, InTheMail, At
    <2>3. ASSUME NEW j \in Jars PROVE jar'[j].refresh # req'[c].token
      BY <2>1, <2>2, <1>a9, <1>a10, <1>a11, <1>a12
    <2>4. ASSUME NEW d \in Tabs, req'[d].token = req'[c].token PROVE d = c
      BY <2>1, <2>2, <2>4, <1>a6, <1>a7
    <2> QED
      BY <2>1, <2>2, <2>3, <2>4, <1>a1
  <1>5. RefreshKnows'
    <2>1. \A c \in Tabs : req'[c].pc # "idle" => req'[c] = req[c]
      BY <1>a6, <1>a7
    <2> QED
      BY <2>1, <1>a1 DEF IInv, RefreshKnows, At
  <1>6. JarOK'
    BY <1>a1, <1>a2, <1>a3, <1>a5, <1>a6, <1>a7, <1>a9, <1>a10, <1>a11, <1>a12, <1>a13, <1>a14, <1>a15, TabsAssumption
       DEF IInv, JarOK, InTheMail, At
  <1> QED
    BY <1>1, <1>2, <1>3, <1>4, <1>5, <1>6 DEF IInv

LEMMA AbortKeeps ==
    ASSUME IInv, NEW b \in Tabs, Abort(b)
    PROVE  IInv'
  <1>1. TypeOK'
    <2>1. req \in [Tabs -> ReqType] /\ JarOf[b] \in Jars /\ astray \in SUBSET Jars
      BY TabsAssumption DEF IInv, TypeOK, ReqType
    <2>2. astray' \in SUBSET Jars
      BY <2>1 DEF Abort
    <2>3. [pc |-> "idle", user |-> Nobody, token |-> 0, old |-> FALSE] \in ReqType
      BY TokensAssumption DEF ReqType
    <2>4. req' \in [Tabs -> ReqType]
      BY <2>1, <2>3 DEF Abort, Refuse, Idle, Request
    <2> QED
      BY <2>2, <2>4 DEF IInv, TypeOK, ReqType, Abort, rows
  <1>2. HeldIssued'
    BY TabsAssumption, TokensAssumption, NobodyAssumption
       DEF IInv, TypeOK, At, Request, Idle, Tokens, Unrevoked, Abort, Refuse, rows, HeldIssued
  <1>3. OneJar'
    BY TabsAssumption, TokensAssumption, NobodyAssumption
       DEF IInv, TypeOK, At, Request, Idle, Tokens, Unrevoked, Abort, Refuse, rows, OneJar, HeldIssued
  <1>4. InTheMail'
    BY TabsAssumption, TokensAssumption, NobodyAssumption
       DEF IInv, TypeOK, At, Request, Idle, Tokens, Unrevoked, Abort, Refuse, rows, InTheMail, HeldIssued, OneJar
  <1>5. RefreshKnows'
    BY TabsAssumption, TokensAssumption, NobodyAssumption
       DEF IInv, TypeOK, At, Request, Idle, Tokens, Unrevoked, Abort, Refuse, rows, RefreshKnows, HeldIssued
  <1>6. JarOK'
    BY TabsAssumption, TokensAssumption, NobodyAssumption
       DEF IInv, TypeOK, At, Request, Idle, Tokens, Unrevoked, Abort, Refuse, rows, JarOK, HeldIssued, OneJar, InTheMail
  <1> QED
    BY <1>1, <1>2, <1>3, <1>4, <1>5, <1>6 DEF IInv

LEMMA AccessExpiresKeeps ==
    ASSUME IInv, NEW j \in Jars, AccessExpires(j)
    PROVE  IInv'
  <1>1. TypeOK'
    BY TabsAssumption, TokensAssumption, NobodyAssumption
       DEF IInv, TypeOK, At, Request, Idle, Tokens, Unrevoked, AccessExpires, rows
  <1>2. HeldIssued'
    BY TabsAssumption, TokensAssumption, NobodyAssumption
       DEF IInv, TypeOK, At, Request, Idle, Tokens, Unrevoked, AccessExpires, rows, HeldIssued
  <1>3. OneJar'
    BY TabsAssumption, TokensAssumption, NobodyAssumption
       DEF IInv, TypeOK, At, Request, Idle, Tokens, Unrevoked, AccessExpires, rows, OneJar, HeldIssued
  <1>4. InTheMail'
    BY TabsAssumption, TokensAssumption, NobodyAssumption
       DEF IInv, TypeOK, At, Request, Idle, Tokens, Unrevoked, AccessExpires, rows, InTheMail, HeldIssued, OneJar
  <1>5. RefreshKnows'
    BY TabsAssumption, TokensAssumption, NobodyAssumption
       DEF IInv, TypeOK, At, Request, Idle, Tokens, Unrevoked, AccessExpires, rows, RefreshKnows, HeldIssued
  <1>6. JarOK'
    BY TabsAssumption, TokensAssumption, NobodyAssumption
       DEF IInv, TypeOK, At, Request, Idle, Tokens, Unrevoked, AccessExpires, rows, JarOK, HeldIssued, OneJar, InTheMail
  <1> QED
    BY <1>1, <1>2, <1>3, <1>4, <1>5, <1>6 DEF IInv

LEMMA TokenExpiresKeeps ==
    ASSUME IInv, NEW t \in Tokens, TokenExpires(t)
    PROVE  IInv'
  <1>1. TypeOK'
    <2>1. row \in [Tokens -> RowType]
      BY DEF IInv, TypeOK, RowType
    <2>2. [row[t] EXCEPT !.state = "expired"] \in RowType
      BY <2>1 DEF RowType, Unrevoked
    <2>3. row' \in [Tokens -> RowType]
      BY <2>1, <2>2 DEF TokenExpires
    <2> QED
      BY <2>3 DEF IInv, TypeOK, RowType, TokenExpires
  <1>2. HeldIssued'
    BY TabsAssumption, TokensAssumption, NobodyAssumption
       DEF IInv, TypeOK, At, Request, Idle, Tokens, Unrevoked, TokenExpires, HeldIssued
  <1>3. OneJar'
    BY TabsAssumption, TokensAssumption, NobodyAssumption
       DEF IInv, TypeOK, At, Request, Idle, Tokens, Unrevoked, TokenExpires, OneJar, HeldIssued
  <1>4. InTheMail'
    BY TabsAssumption, TokensAssumption, NobodyAssumption
       DEF IInv, TypeOK, At, Request, Idle, Tokens, Unrevoked, TokenExpires, InTheMail, HeldIssued, OneJar
  <1>5. RefreshKnows'
    BY TabsAssumption, TokensAssumption, NobodyAssumption
       DEF IInv, TypeOK, At, Request, Idle, Tokens, Unrevoked, TokenExpires, RefreshKnows, HeldIssued
  <1>6. JarOK'
    BY TabsAssumption, TokensAssumption, NobodyAssumption
       DEF IInv, TypeOK, At, Request, Idle, Tokens, Unrevoked, TokenExpires, JarOK, HeldIssued, OneJar, InTheMail
  <1> QED
    BY <1>1, <1>2, <1>3, <1>4, <1>5, <1>6 DEF IInv

LEMMA StutterKeeps ==
    ASSUME IInv, UNCHANGED vars
    PROVE  IInv'
  <1>1. TypeOK'
    BY TabsAssumption, TokensAssumption, NobodyAssumption
       DEF IInv, TypeOK, At, Request, Idle, Tokens, Unrevoked, vars, rows
  <1>2. HeldIssued'
    BY TabsAssumption, TokensAssumption, NobodyAssumption
       DEF IInv, TypeOK, At, Request, Idle, Tokens, Unrevoked, vars, rows, HeldIssued
  <1>3. OneJar'
    BY TabsAssumption, TokensAssumption, NobodyAssumption
       DEF IInv, TypeOK, At, Request, Idle, Tokens, Unrevoked, vars, rows, OneJar, HeldIssued
  <1>4. InTheMail'
    BY TabsAssumption, TokensAssumption, NobodyAssumption
       DEF IInv, TypeOK, At, Request, Idle, Tokens, Unrevoked, vars, rows, InTheMail, HeldIssued, OneJar
  <1>5. RefreshKnows'
    BY TabsAssumption, TokensAssumption, NobodyAssumption
       DEF IInv, TypeOK, At, Request, Idle, Tokens, Unrevoked, vars, rows, RefreshKnows, HeldIssued
  <1>6. JarOK'
    BY TabsAssumption, TokensAssumption, NobodyAssumption
       DEF IInv, TypeOK, At, Request, Idle, Tokens, Unrevoked, vars, rows, JarOK, HeldIssued, OneJar, InTheMail
  <1> QED
    BY <1>1, <1>2, <1>3, <1>4, <1>5, <1>6 DEF IInv

-----------------------------------------------------------------------------
\* The inductive invariant.
THEOREM SessionsInvariance == Spec => []IInv
  <1>1. IInv /\ [Next]_vars => IInv'
    <2> SUFFICES ASSUME IInv, [Next]_vars PROVE IInv'
      OBVIOUS
    <2>1. ASSUME NEW b \in Tabs, Ask(b) PROVE IInv'
      BY <2>1, RegisterKeeps, LoginKeeps, ChangePasswordKeeps, RefreshKeeps, LogoutKeeps DEF Ask
    <2>2. ASSUME NEW b \in Tabs, Proceed(b) PROVE IInv'
      BY <2>2, InsertTokenKeeps, LookUpKeeps, RotateKeeps, SweepReusedKeeps, RevokeTokenKeeps,
         CommitPasswordKeeps, AnswerKeeps DEF Proceed
    <2> QED
      BY <2>1, <2>2, AbortKeeps, AccessExpiresKeeps, TokenExpiresKeeps, StutterKeeps DEF Next
  <1> QED
    BY <1>1, InitHolds, PTL DEF Spec

\* Every variable keeps its type; in particular no more tokens than the bound are
\* issued and a cookie names a token that exists.
THEOREM SessionsTypeCorrect == Spec => []TypeOK
  BY SessionsInvariance, PTL DEF IInv

\* A browser that has missed no answer is never left with a token that was revoked
\* and not replaced (auth.service.ts:206).
THEOREM NobodyIsStranded == Spec => []NobodyStranded
  <1>1. IInv => NobodyStranded
    BY DEF IInv, JarOK, NobodyStranded, At
  <1> QED
    BY <1>1, SessionsInvariance, PTL
=============================================================================
