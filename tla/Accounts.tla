------------------------------- MODULE Accounts -------------------------------
(***************************************************************************)
(* Accounts and sessions of the back end (src/auth): sign-in by Google,    *)
(* sessions that several tabs of a browser share, rotation of the token    *)
(* and the CSRF token, sign-out, revocation, and the choice of a user name.*)
(*                                                                         *)
(* A request is a handler with awaits, so it is a record in reqs that one  *)
(* action per data base call moves on; requests interleave and answers     *)
(* arrive in any order or never.  A browser has any number of tabs, hence  *)
(* any request its pages can make may be made at any time.                 *)
(*                                                                         *)
(* Time: an auth token is "old" after TOKEN_ROTATION_MINUTES, a CSRF token *)
(* "stale" after 24 hours, a session "expired" after SESSION_TTL_DAYS, all *)
(* of them long compared with a request.  A token is bound to its session  *)
(* and carries the session's tokenFamily, which never changes: the reuse   *)
(* check of validateAndRefreshToken never finds another family.            *)
(***************************************************************************)
EXTENDS Naturals, FiniteSets

CONSTANTS
  Users,      \* Google accounts, one e-mail address each
  Browsers,   \* ipAddress and userAgent
  Sids,       \* bound: session ids
  Reqs,       \* bound: requests in flight
  Names,      \* user names
  Admitted,   \* those the DTO and updateUsername admit
  Prefix,     \* of a user's e-mail address, the first name
  Folded,     \* a name without its case
  None

ASSUME AccountsAssumption ==
  /\ Admitted \subseteq Names /\ Prefix \in [Users -> Names] /\ DOMAIN Folded = Names
  /\ None \notin Users \cup Sids \cup Names

VARIABLES
  users,     \* table User (with its Account)
  sessions,  \* table Session
  jar,       \* a browser's cookies
  reqs,
  overtaken    \* history: a name was written after another was since it was checked

accountsVars == <<users, sessions, jar, reqs, overtaken>>

User == [known: BOOLEAN, linked: BOOLEAN, name: Names \cup {None}, usernameSet: BOOLEAN]
Session == [user: Users, client: Browsers, isValid: BOOLEAN, expired: BOOLEAN]
ASSUME NoneAssumption == None \notin Session

Jar == [auth: Sids \cup {None}, old: BOOLEAN, csrf: Sids \cup {None}, stale: BOOLEAN]
NoCookies == [auth |-> None, old |-> FALSE, csrf |-> None, stale |-> FALSE]
\* What answers with a session put into the jar: setCookie and setCsrfCookie
Cookies(s) == [auth |-> s, old |-> FALSE, csrf |-> s, stale |-> FALSE]

Kinds == {"login", "me", "username", "logout", "revoke", "revokeOthers"}
\* sid: of the token, or the session a login gives; arg: what the request is about;
\* sets: what the answer does to the cookies; crossed: history, see Cross
Request ==
  [kind: Kinds, from: Browsers, sid: Sids \cup {None}, arg: Users \cup Names \cup Sids \cup {None},
   step: {"start", "create", "link", "session", "write", "refresh", "expire", "handle", "commit", "answer"},
   sets: {"keep", "set", "clear"}, crossed: BOOLEAN]

AccountsTypeOK ==
  /\ users \in [Users -> User]
  /\ \A u \in Users : /\ users[u].linked => users[u].known
                      /\ users[u].known <=> users[u].name # None
                      /\ users[u].usernameSet => users[u].name \in Admitted
  /\ sessions \in [Sids -> Session \cup {None}]
  /\ jar \in [Browsers -> Jar]
  /\ reqs \in [Reqs -> Request \cup {None}]
  /\ overtaken \in BOOLEAN

AccountsInit ==
  /\ users = [u \in Users |->
       [known |-> FALSE, linked |-> FALSE, name |-> None, usernameSet |-> FALSE]]
  /\ sessions = [s \in Sids |-> None]
  /\ jar = [b \in Browsers |-> NoCookies]
  /\ reqs = [r \in Reqs |-> None]
  /\ overtaken = FALSE

At(r, step) == reqs[r] # None /\ reqs[r].step = step
Go(r, step) == reqs' = [reqs EXCEPT ![r].step = step]
Done(r) == reqs' = [reqs EXCEPT ![r] = None]
Owner(s) == sessions[s].user
Live(s) == sessions[s] # None /\ sessions[s].isValid /\ ~ sessions[s].expired
Same(m, n) == Folded[m] = Folded[n]

-----------------------------------------------------------------------------
(* The browser *)

\* A token that is old when it is sent is rotated, by any request that is let in.
Rotates(b) == jar[b].old

Send(r, kind, b, sid, arg) ==
  reqs' = [reqs EXCEPT ![r] =
    [kind |-> kind, from |-> b, sid |-> sid, arg |-> arg, step |-> "start",
     sets |-> IF sid # None /\ Rotates(b) THEN "set" ELSE "keep", crossed |-> FALSE]]

\* Bound: a session id is used again when the session is over and nothing names it,
\* and a login starts only while there is an id left for it.
Unused ==
  {s \in Sids : /\ ~ Live(s) /\ \A b \in Browsers : jar[b].auth # s
                /\ \A r \in Reqs : reqs[r] # None => s \notin {reqs[r].sid, reqs[r].arg}}
SidsLeft == Cardinality({r \in Reqs : reqs[r] # None /\ reqs[r].kind = "login"}) < Cardinality(Unused)

\* The browser comes back from Google to /auth/google/callback.
SignIn(r, b, u) ==
  /\ reqs[r] = None /\ SidsLeft
  /\ Send(r, "login", b, None, u)
  /\ UNCHANGED <<users, sessions, jar, overtaken>>

\* The auth context asks who is signed in, on every page load and after a new name.
AskMe(r, b) ==
  /\ reqs[r] = None /\ jar[b].auth # None
  /\ Send(r, "me", b, jar[b].auth, None)
  /\ UNCHANGED <<users, sessions, jar, overtaken>>

\* apiFetch sends the CSRF cookie in a header; the token is good for 24 hours and
\* for its session only; CsrfMiddleware asks for both.
CsrfHeader(b) == jar[b].csrf
ValidateCsrfToken(b, s) == CsrfHeader(b) = s /\ ~ jar[b].stale
PassesCsrf(b) == CsrfHeader(b) # None /\ ValidateCsrfToken(b, jar[b].auth)

\* What changes something is refused without the token.
Change(r, b, kind, arg) ==
  /\ reqs[r] = None /\ jar[b].auth # None /\ PassesCsrf(b)
  /\ Send(r, kind, b, jar[b].auth, arg)
  /\ UNCHANGED <<users, sessions, jar, overtaken>>

\* The form "Choose Your Username", and the one in the settings.  They admit what
\* the DTO and updateUsername admit; the name out of the e-mail address is not
\* looked at.
FirstName(r, b) ==
  /\ jar[b].auth # None /\ ~ users[Owner(jar[b].auth)].usernameSet
  /\ \E n \in Admitted : Change(r, b, "username", n)
NewName(r, b) ==
  /\ jar[b].auth # None
  /\ \E n \in Admitted \ {users[Owner(jar[b].auth)].name} : Change(r, b, "username", n)

\* "Sign out" of the user menu, and the API for the user's sessions
SignOut(r, b) == Change(r, b, "logout", None)
EndSession(r, b) == \E s \in Sids : sessions[s] # None /\ Change(r, b, "revoke", s)
EndOthers(r, b) == Change(r, b, "revokeOthers", None)

\* The answer arrives; a browser applies all cookies of an answer at once.
Answer(r) ==
  /\ At(r, "answer")
  /\ LET q == reqs[r] IN
     jar' = [jar EXCEPT ![q.from] =
       CASE q.sets = "set" -> Cookies(q.sid) [] q.sets = "clear" -> NoCookies [] OTHER -> @]
  /\ Done(r)
  /\ UNCHANGED <<users, sessions, overtaken>>

\* The tab was closed, or the connection lost.
Unheard(r) == At(r, "answer") /\ Done(r) /\ UNCHANGED <<users, sessions, jar, overtaken>>

-----------------------------------------------------------------------------
(* handleOAuthLogin *)

\* Fault: what the look-up found is not asked.
FindUserUnchecked(r) ==
  /\ At(r, "start") /\ reqs[r].kind = "login"
  /\ Go(r, "link")
  /\ UNCHANGED <<users, sessions, jar, overtaken>>

FindUser(r) ==
  /\ At(r, "start") /\ reqs[r].kind = "login"
  /\ Go(r, IF users[reqs[r].arg].known THEN "link" ELSE "create")
  /\ UNCHANGED <<users, sessions, jar, overtaken>>

\* email and username are unique in the table; what is not is answered 409.
Unique(u, n) == \A v \in Users \ {u} : users[v].name # n

\* Refused are a second sign-up of the user, and any sign-up while another user has
\* the name before the @.
CreateUser(r) ==
  /\ At(r, "create")
  /\ LET u == reqs[r].arg IN
     IF users[u].known \/ ~ Unique(u, Prefix[u])
     THEN Done(r) /\ UNCHANGED users
     ELSE /\ users' = [users EXCEPT ![u].known = TRUE, ![u].name = Prefix[u]]
          /\ Go(r, "link")
  /\ UNCHANGED <<sessions, jar, overtaken>>

LinkAccount(r) ==
  /\ At(r, "link")
  /\ users' = [users EXCEPT ![reqs[r].arg].linked = TRUE]
  /\ Go(r, "session")
  /\ UNCHANGED <<sessions, jar, overtaken>>

\* Fault: sessions that were signed out are found too.
ReusableEnded(u, b) ==
  {s \in Sids : sessions[s] # None /\ Owner(s) = u /\ sessions[s].client = b}

Reusable(u, b) == {s \in Sids : Live(s) /\ Owner(s) = u /\ sessions[s].client = b}

\* createSession looks for a session of the same user and client ...
FindSession(r) ==
  /\ At(r, "session")
  /\ LET q == reqs[r]
         found == Reusable(q.arg, q.from) IN
     \E s \in IF found = {} THEN {None} ELSE found :
       reqs' = [reqs EXCEPT ![r].step = "write", ![r].sid = s]
  /\ UNCHANGED <<users, sessions, jar, overtaken>>

\* ... and renews it, or creates one.
WriteSession(r) ==
  /\ At(r, "write")
  /\ LET q == reqs[r] IN
     \E s \in IF q.sid # None THEN {q.sid} ELSE Unused :
       /\ sessions' = [sessions EXCEPT ![s] =
            IF q.sid # None THEN [@ EXCEPT !.expired = FALSE]
            ELSE [user |-> q.arg, client |-> q.from, isValid |-> TRUE, expired |-> FALSE]]
       /\ reqs' = [reqs EXCEPT ![r].sid = s, ![r].step = "answer", ![r].sets = "set"]
  /\ UNCHANGED <<users, jar, overtaken>>

-----------------------------------------------------------------------------
(* JwtStrategy and validateAndRefreshToken *)

Authenticate(r) ==
  /\ At(r, "start") /\ reqs[r].kind # "login"
  /\ LET q == reqs[r] IN
     CASE ~ sessions[q.sid].isValid -> Done(r)
       [] sessions[q.sid].isValid /\ sessions[q.sid].expired -> Go(r, "expire")
       [] OTHER -> Go(r, "refresh")
  /\ UNCHANGED <<users, sessions, jar, overtaken>>

\* History: the end of a session crosses the logins that are about to give it out.
Cross(rs, ended) ==
  [r \in Reqs |->
     IF rs[r] # None /\ rs[r].kind = "login" /\ rs[r].sid \in ended
     THEN [rs[r] EXCEPT !.crossed = TRUE] ELSE rs[r]]

\* Sessions end, and request r goes on with next.
Invalidate(r, ended, next) ==
  /\ sessions' = [s \in Sids |-> IF s \in ended THEN [sessions[s] EXCEPT !.isValid = FALSE]
                                 ELSE sessions[s]]
  /\ reqs' = Cross([reqs EXCEPT ![r] = next], ended)

ExpireSession(r) ==
  /\ At(r, "expire")
  /\ Invalidate(r, {reqs[r].sid}, None)
  /\ UNCHANGED <<users, jar, overtaken>>

Refresh(r) ==
  /\ At(r, "refresh")
  /\ sessions' = [sessions EXCEPT ![reqs[r].sid].expired = FALSE]
  /\ Go(r, IF reqs[r].kind = "me" THEN "answer" ELSE "handle")
  /\ UNCHANGED <<users, jar, overtaken>>

-----------------------------------------------------------------------------
(* The handlers *)

\* Fault: the look-up minds the case.
TakenAsWritten(u, n) == \E v \in Users \ {u} : users[v].name = n

Taken(u, n) == \E v \in Users \ {u} : users[v].name # None /\ Same(users[v].name, n)

\* updateUsername looks for the name first; 409 when it is taken ...
CheckName(r) ==
  /\ At(r, "handle") /\ reqs[r].kind = "username"
  /\ Go(r, IF Taken(Owner(reqs[r].sid), reqs[r].arg) THEN "answer" ELSE "commit")
  /\ UNCHANGED <<users, sessions, jar, overtaken>>

\* ... and writes it then; 409 again when the very name is in the table by now.
Rename(r) ==
  /\ At(r, "commit") /\ reqs[r].kind = "username"
  /\ LET u == Owner(reqs[r].sid)
         n == reqs[r].arg IN
     IF ~ Unique(u, n)
     THEN Go(r, "answer") /\ UNCHANGED <<users, overtaken>>
     ELSE /\ users' = [users EXCEPT ![u].name = n, ![u].usernameSet = TRUE]
          /\ reqs' = [k \in Reqs |->
               CASE k = r -> [reqs[r] EXCEPT !.step = "answer"]
                 [] k # r /\ At(k, "commit") /\ reqs[k].kind = "username" ->
                      [reqs[k] EXCEPT !.crossed = TRUE]
                 [] OTHER -> reqs[k]]
          /\ overtaken' = (overtaken \/ reqs[r].crossed)
  /\ UNCHANGED <<sessions, jar>>

\* logout: the session ends and both cookies are cleared.
Logout(r) ==
  /\ At(r, "handle") /\ reqs[r].kind = "logout"
  /\ Invalidate(r, {reqs[r].sid}, [reqs[r] EXCEPT !.step = "answer", !.sets = "clear"])
  /\ UNCHANGED <<users, jar, overtaken>>

\* invalidateSession looks whose session it is, 403 unless the user's own ...
CheckSession(r) ==
  /\ At(r, "handle") /\ reqs[r].kind = "revoke"
  /\ Go(r, IF Owner(reqs[r].arg) = Owner(reqs[r].sid) THEN "commit" ELSE "answer")
  /\ UNCHANGED <<users, sessions, jar, overtaken>>

\* ... and ends it.
Revoke(r) ==
  /\ At(r, "commit") /\ reqs[r].kind = "revoke"
  /\ Invalidate(r, {reqs[r].arg}, [reqs[r] EXCEPT !.step = "answer"])
  /\ UNCHANGED <<users, jar, overtaken>>

\* invalidateAllUserSessions, all but the present one.
RevokeOthers(r) ==
  /\ At(r, "handle") /\ reqs[r].kind = "revokeOthers"
  /\ Invalidate(r, {s \in Sids : /\ sessions[s] # None /\ sessions[s].isValid
                                 /\ Owner(s) = Owner(reqs[r].sid) /\ s # reqs[r].sid},
                [reqs[r] EXCEPT !.step = "answer"])
  /\ UNCHANGED <<users, jar, overtaken>>

-----------------------------------------------------------------------------
(* Time passes while no request is under way *)

Quiet == \A r \in Reqs : reqs[r] = None

Age(b) ==
  /\ Quiet /\ jar[b].auth # None
  /\ \/ jar' = [jar EXCEPT ![b].old = TRUE]
     \/ jar[b].old /\ jar' = [jar EXCEPT ![b].stale = TRUE]
  /\ UNCHANGED <<users, sessions, reqs, overtaken>>

\* The cookies of the session's browser expire with it at the latest.
SessionEnds(s) ==
  /\ Quiet /\ sessions[s] # None /\ ~ sessions[s].expired
  /\ sessions' = [sessions EXCEPT ![s].expired = TRUE]
  /\ jar' \in {jar, [b \in Browsers |-> IF jar[b].auth = s THEN NoCookies ELSE jar[b]]}
  /\ UNCHANGED <<users, reqs, overtaken>>

Login(r) ==
  FindUser(r) \/ CreateUser(r) \/ LinkAccount(r) \/ FindSession(r) \/ WriteSession(r)
Guarded(r) == Authenticate(r) \/ ExpireSession(r) \/ Refresh(r)
Handled(r) ==
  CheckName(r) \/ Rename(r) \/ Logout(r) \/ CheckSession(r) \/ Revoke(r) \/ RevokeOthers(r)

AccountsNext ==
  \/ \E r \in Reqs :
       \/ \E b \in Browsers :
            \/ \E u \in Users : SignIn(r, b, u)
            \/ AskMe(r, b) \/ FirstName(r, b) \/ NewName(r, b)
            \/ SignOut(r, b) \/ EndSession(r, b) \/ EndOthers(r, b)
       \/ Login(r) \/ Guarded(r) \/ Handled(r) \/ Answer(r) \/ Unheard(r)
  \/ \E b \in Browsers : Age(b)
  \/ \E s \in Sids : SessionEnds(s)

AccountsSpec == AccountsInit /\ [][AccountsNext]_accountsVars

-----------------------------------------------------------------------------
(* Properties *)

\* The table only keeps equal names apart, and updateUsername compares without
\* case in a call of its own: two chosen names differ by their case alone only
\* if a name was written between another's check and its write.
NamesClashOnlyByOverlap ==
  \A u, v \in Users :
    u # v /\ users[u].usernameSet /\ users[v].usernameSet /\ Same(users[u].name, users[v].name)
      => overtaken

\* createSession finds a session and renews it in two calls: a login answers with a
\* session that is signed out already only if that was ended while the login ran.
LoginGivesLiveSession ==
  \A r \in Reqs :
    At(r, "answer") /\ reqs[r].kind = "login" => Live(reqs[r].sid) \/ reqs[r].crossed

\* In whichever order the answers of several tabs arrive, the two cookies belong to
\* one session, and the CSRF token grows stale only when the next reading request
\* rotates it: nobody who is signed in is refused for good.
CookiesMatch ==
  \A b \in Browsers : /\ jar[b].auth = jar[b].csrf
                      /\ jar[b].stale => jar[b].old

\* What a login gives works.
SignInHolds == LoginGivesLiveSession /\ CookiesMatch
=============================================================================
