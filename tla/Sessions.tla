------------------------------ MODULE Sessions ------------------------------
(***************************************************************************)
(* Signing in and staying signed in: the refresh tokens of                 *)
(* modules/auth/auth.service.ts, the cookies that carry them, and the      *)
(* requests that register, log in, refresh, log out and change a password. *)
(* Requests interleave at their statements, die with the process, and      *)
(* their answers can be lost.                                              *)
(*                                                                         *)
(* A jar is the cookie jar of one browser or device; its tabs send         *)
(* requests with the cookies it holds and share what is set.  An access    *)
(* token is the name of its user: it is verified without the database and  *)
(* is gone when it expires, as is the cookie that carries it.              *)
(***************************************************************************)
EXTENDS Naturals, FiniteSets

CONSTANTS Users, Jars, Tabs, JarOf,
          MaxTokens,    \* bound: how many refresh tokens are ever issued
          Nobody

ASSUME TabsAssumption == JarOf \in [Tabs -> Jars]
ASSUME TokensAssumption == MaxTokens \in Nat
ASSUME NobodyAssumption == Nobody \notin Users

VARIABLES account,      \* users: no row, or active (nothing in the code clears is_active)
          row,          \* refresh_tokens, by id: state, user, and history: old, it
                        \* goes back to before the sessions of its user were ended
          issued,       \* how many of them there are
          jar,          \* the cookies: [access, refresh], 0 when there is no refresh token
          astray,       \* history: jars that missed an answer that changes cookies
          req           \* the request each tab has in flight

rows == <<row, issued>>
vars == <<account, rows, jar, astray, req>>

Tokens == 1..MaxTokens
NoRow == [state |-> "unissued", user |-> Nobody, old |-> FALSE]
NoCookies == [access |-> Nobody, refresh |-> 0]

\* revokedAt is set in "revoked" alone; "expired" is past expiresAt.
Unrevoked == {"live", "expired"}

\* A request at a statement of its handler, with the user and the token it knows;
\* old: the sessions of the user were ended since its check.
Request(pc, u, t) == [pc |-> pc, user |-> u, token |-> t, old |-> FALSE]
Idle == Request("idle", Nobody, 0)

TypeOK ==
    /\ account \in [Users -> {"none", "active"}]
    /\ row \in [Tokens -> [state : {"unissued", "revoked"} \cup Unrevoked,
                           user  : Users \cup {Nobody},
                           old   : BOOLEAN]]
    /\ issued \in 0..MaxTokens
    /\ jar \in [Jars -> [access : Users \cup {Nobody}, refresh : 0..MaxTokens]]
    /\ astray \in SUBSET Jars
    /\ req \in [Tabs -> [pc    : {"idle", "insert", "lookup", "rotate", "sweep", "revoke",
                                  "commit", "set", "clear"},
                         user  : Users \cup {Nobody},
                         token : 0..MaxTokens,
                         old   : BOOLEAN]]

Init ==
    /\ account = [u \in Users |-> "none"]
    /\ row = [t \in Tokens |-> NoRow]
    /\ issued = 0
    /\ jar = [j \in Jars |-> NoCookies]
    /\ astray = {}
    /\ req = [b \in Tabs |-> Idle]

-----------------------------------------------------------------------------
\* Helpers.

At(b, pc) == req[b].pc = pc
Send(b, r) == At(b, "idle") /\ req' = [req EXCEPT ![b] = r]
Goto(b, pc) == req' = [req EXCEPT ![b].pc = pc]
Refuse(b) == req' = [req EXCEPT ![b] = Idle]

\* requireAuth, and the active flag that log-ins, refreshes and password changes
\* read.
Authenticated(b) == jar[JarOf[b]].access # Nobody
ActiveUser(u) == account[u] = "active"

\* The next row of the table.
MayIssue == issued < MaxTokens
Issue(table, u, old) ==
    [table EXCEPT ![issued + 1] = [state |-> "live", user |-> u, old |-> old]]

\* revokeAllSessions: every row of the user that has no revokedAt gets one.
Ended(u) ==
    [t \in Tokens |->
        IF row[t].user # u THEN row[t]
        ELSE [row[t] EXCEPT !.old = TRUE,
                            !.state = IF @ \in Unrevoked THEN "revoked" ELSE @]]

\* The log-ins of the user that have passed their check and are yet to insert their
\* token are now older than the end of the sessions.
Overtaken(u) ==
    [c \in Tabs |-> IF req[c].user = u /\ req[c].pc = "insert"
                    THEN [req[c] EXCEPT !.old = TRUE] ELSE req[c]]

-----------------------------------------------------------------------------
\* register, login and issueTokens.

\* The transaction that creates the user and the wallet: the unique index on
\* the email lets one through.
Register(b, u) ==
    /\ account[u] = "none"
    /\ account' = [account EXCEPT ![u] = "active"]
    /\ Send(b, Request("insert", u, 0))
    /\ UNCHANGED <<rows, jar, astray>>

\* login reads the user once, verifies the password against the hash it read,
\* which takes its time, and goes on to issueTokens.  (Refusals change nothing.)
Login(b, u) ==
    /\ ActiveUser(u)
    /\ Send(b, Request("insert", u, 0))
    /\ UNCHANGED <<account, rows, jar, astray>>

InsertToken(b) ==
    /\ At(b, "insert") /\ MayIssue
    /\ row' = Issue(row, req[b].user, req[b].old)
    /\ issued' = issued + 1
    /\ req' = [req EXCEPT ![b] = Request("set", @.user, issued + 1)]
    /\ UNCHANGED <<account, jar, astray>>

-----------------------------------------------------------------------------
\* refresh.

Refresh(b) ==
    LET t == jar[JarOf[b]].refresh IN
    /\ t # 0
    /\ Send(b, Request("lookup", row[t].user, t))
    /\ UNCHANGED <<account, rows, jar, astray>>

LookUp(b) ==
    LET found == row[req[b].token] IN
    /\ At(b, "lookup")
    /\ \/ found.state = "revoked" /\ Goto(b, "sweep")
       \/ found.state = "live" /\ ActiveUser(found.user) /\ Goto(b, "rotate")
       \/ found.state = "expired" /\ Refuse(b)
    /\ UNCHANGED <<account, rows, jar, astray>>

\* An already revoked token was presented: end every session of the user.
SweepReused(b) ==
    /\ At(b, "sweep")
    /\ row' = Ended(req[b].user)
    /\ req' = [Overtaken(req[b].user) EXCEPT ![b] = Idle]
    /\ UNCHANGED <<account, issued, jar, astray>>

\* One batch: revoke the token that was looked up, whatever it is by now, and
\* insert its replacement.
Rotate(b) ==
    /\ At(b, "rotate") /\ MayIssue
    /\ row' = Issue([row EXCEPT ![req[b].token].state = "revoked"],
                    req[b].user, row[req[b].token].old)
    /\ issued' = issued + 1
    /\ req' = [req EXCEPT ![b] = Request("set", @.user, issued + 1)]
    /\ UNCHANGED <<account, jar, astray>>

-----------------------------------------------------------------------------
\* logout and changePassword.

Logout(b) ==
    /\ Send(b, Request("revoke", Nobody, jar[JarOf[b]].refresh))
    /\ UNCHANGED <<account, rows, jar, astray>>

\* Mutant of Closed: logging out ends every session of the user.
ClosedEverywhere(t) ==
    [s \in Tokens |-> IF t # 0 /\ row[s].user = row[t].user /\ row[s].state \in Unrevoked
                      THEN [row[s] EXCEPT !.state = "revoked"] ELSE row[s]]

\* updateMany for the presented token, if it has no revokedAt.
Closed(t) ==
    [s \in Tokens |-> IF s = t /\ row[s].state \in Unrevoked
                      THEN [row[s] EXCEPT !.state = "revoked"] ELSE row[s]]

RevokeToken(b) ==
    /\ At(b, "revoke")
    /\ row' = Closed(req[b].token)
    /\ Goto(b, "clear")
    /\ UNCHANGED <<account, issued, jar, astray>>

\* requireAuth, requireActiveUser, the read of the hash and its verification;
\* then the new password is hashed, which takes its time.
ChangePassword(b) ==
    LET u == jar[JarOf[b]].access IN
    /\ Authenticated(b) /\ ActiveUser(u)
    /\ Send(b, Request("commit", u, 0))
    /\ UNCHANGED <<account, rows, jar, astray>>

\* One batch: the new hash and the end of every session.
CommitPassword(b) ==
    /\ At(b, "commit")
    /\ row' = Ended(req[b].user)
    /\ req' = [Overtaken(req[b].user) EXCEPT ![b].pc = "clear"]
    /\ UNCHANGED <<account, issued, jar, astray>>

-----------------------------------------------------------------------------
\* Answers.

\* Mutant of SetAuthCookies: the two tokens swapped.
SetSwapped(b) == [access |-> req[b].token, refresh |-> req[b].user]

SetAuthCookies(b) == [access |-> req[b].user, refresh |-> req[b].token]

\* The answer reaches the browser, which applies its Set-Cookie headers.
Answer(b) ==
    /\ \/ At(b, "set") /\ jar' = [jar EXCEPT ![JarOf[b]] = SetAuthCookies(b)]
       \/ At(b, "clear") /\ jar' = [jar EXCEPT ![JarOf[b]] = NoCookies]
    /\ astray' = astray \ {JarOf[b]}
    /\ Refuse(b)
    /\ UNCHANGED <<account, rows>>

\* The connection is lost, or the process dies with the request.
Abort(b) ==
    /\ ~At(b, "idle")
    /\ astray' = IF req[b].pc \in {"set", "clear"} THEN astray \cup {JarOf[b]} ELSE astray
    /\ Refuse(b)
    /\ UNCHANGED <<account, rows, jar>>

\* Time.
AccessExpires(j) ==
    /\ jar[j].access # Nobody
    /\ jar' = [jar EXCEPT ![j].access = Nobody]
    /\ UNCHANGED <<account, rows, astray, req>>

TokenExpires(t) ==
    /\ row[t].state = "live"
    /\ row' = [row EXCEPT ![t].state = "expired"]
    /\ UNCHANGED <<account, issued, jar, astray, req>>

Ask(b) ==
    \/ \E u \in Users : Register(b, u) \/ Login(b, u)
    \/ ChangePassword(b) \/ Refresh(b) \/ Logout(b)

Proceed(b) ==
    \/ InsertToken(b) \/ LookUp(b) \/ Rotate(b) \/ SweepReused(b)
    \/ RevokeToken(b) \/ CommitPassword(b) \/ Answer(b)

Next ==
    \/ \E b \in Tabs : Ask(b) \/ Proceed(b) \/ Abort(b)
    \/ \E j \in Jars : AccessExpires(j)
    \/ \E t \in Tokens : TokenExpires(t)

Spec == Init /\ [][Next]_vars

-----------------------------------------------------------------------------
\* A browser whose tabs have no request in flight and that has missed no answer
\* holds a refresh token that has not been revoked, unless all the sessions of
\* its user were ended since: no crash between two steps, no other tab's
\* refresh, log-in or log-out, and no other device's log-out leaves it with a
\* token that was revoked and never replaced (auth.service.ts:206, 231).
NobodyStranded ==
    \A j \in Jars :
        LET t == jar[j].refresh IN
        (t # 0 /\ j \notin astray /\ \A b \in Tabs : JarOf[b] = j => At(b, "idle"))
            => row[t].state \in Unrevoked \/ row[t].old

-----------------------------------------------------------------------------
\* What the comments promise and the code does not keep.

\* "Changes the password and ends every session": no session that goes back to
\* before the end can still be refreshed, whichever requests were under way.
SessionsEnd == \A t \in Tokens : row[t].old => row[t].state \notin Unrevoked
=============================================================================
