------------------------------ MODULE Sessions ------------------------------
(***************************************************************************)
(* Sign-in sessions: rows in the database read through a cache in the one  *)
(* process that serves the application, while accounts are changed, time   *)
(* passes and the process is restarted.                                    *)
(*                                                                         *)
(* Time is kept as ages: what was n ticks ago is n, capped where nothing   *)
(* tells it from older.  A request judges everything against the clock as  *)
(* it read it when it came in, however long its queries then take.         *)
(***************************************************************************)
EXTENDS Accounts

CONSTANTS Tokens,   \* the cookies that are ever handed out
          Visitors, \* requests through the proxy in flight at once
          TTL,      \* CACHE_TTL_MS, a minute
          Touch,    \* TOUCH_INTERVAL_MS, an hour
          IdleLimit, \* IDLE_MS, seven days
          Lifetime, \* ABSOLUTE_MS, thirty days
          Slow      \* the longest a request waits for its queries (assumed)

ASSUME TimesAssumption ==
  /\ {TTL, Touch, IdleLimit, Lifetime, Slow} \subseteq Nat
  /\ 0 < TTL /\ TTL <= Touch /\ Touch < IdleLimit /\ IdleLimit <= Lifetime

VARIABLES sessions, \* the sessions table: of each token handed out, whose it is,
                    \* whether it is revoked, and its ages
          cache,    \* the map in the process, of the tokens it answers for: the age
                    \* of its lastSeenAt and how long it is still fresh
          visitor,  \* what each request is doing
          used,     \* ticks since the session last let somebody in (history)
          ended     \* ticks since it was revoked or its user deactivated (history)

sessionVars == <<sessions, cache, visitor>>
vars == <<accountVars, sessionVars, used, ended>>

Exists(t) == t \in DOMAIN sessions
Cached(t) == t \in DOMAIN cache
Ended(t) == Exists(t) /\ (sessions[t].revoked \/ ~users[sessions[t].user].isActive)

\* age: ticks since it was made; seen: since last_seen_at.
Session == [user : Users, revoked : BOOLEAN, age : 0..(Lifetime + Slow + 1),
            seen : 0..(IdleLimit + Slow + 1)]
Entry == [seen : Nat, fresh : 1..TTL]

VisitorIdle == [op |-> "idle"]
Asking(op, t, u) == [op |-> op, token |-> t, user |-> u, since |-> 0]

Older(n, limit) == IF n > limit THEN n ELSE n + 1
With(f, x, y) == [z \in DOMAIN f \cup {x} |-> IF z = x THEN y ELSE f[z]]
Without(f, x) == [z \in DOMAIN f \ {x} |-> f[z]]

Init ==
  /\ AccountsInit
  /\ sessions = <<>>
  /\ cache = <<>>
  /\ visitor = [v \in Visitors |-> VisitorIdle]
  /\ used = [t \in Tokens |-> 0]
  /\ ended = [t \in Tokens |-> 0]

-----------------------------------------------------------------------------
Going(v, request) == visitor' = [visitor EXCEPT ![v] = request]
AtWork(v, op, t) == visitor[v].op = op /\ visitor[v].token = t

\* resolveSignIn: the account is looked up, and linked.  The token will be new.
SignIn(v, t, u) ==
  /\ visitor[v].op = "idle" /\ ~Exists(t)
  /\ \A w \in Visitors : ~AtWork(w, "signIn", t)
  /\ users[u].isActive
  /\ Going(v, Asking("signIn", t, u))
  /\ UNCHANGED <<accountVars, sessions, cache, used>>

\* createSession, in the callback, once that transaction is over.
CreateSession(v, t) ==
  /\ AtWork(v, "signIn", t)
  /\ sessions' = With(sessions, t, [user |-> visitor[v].user, revoked |-> FALSE,
                                     age |-> 0, seen |-> 0])
  /\ used' = [used EXCEPT ![t] = 0]
  /\ Going(v, VisitorIdle)
  /\ UNCHANGED <<accountVars, cache>>

-----------------------------------------------------------------------------
\* readSession.

\* A fresh entry is judged by its own figures and answers without a query.
Hit(v, t) ==
  /\ visitor[v].op = "idle"
  /\ Cached(t) /\ sessions[t].age <= Lifetime /\ cache[t].seen <= IdleLimit
  /\ used' = [used EXCEPT ![t] = 0]
  /\ UNCHANGED <<accountVars, sessions, cache, visitor>>

\* ...or is found to have expired and is dropped.
Forget(v, t) ==
  /\ visitor[v].op = "idle"
  /\ Cached(t) /\ ~(sessions[t].age <= Lifetime /\ cache[t].seen <= IdleLimit)
  /\ cache' = Without(cache, t)
  /\ UNCHANGED <<accountVars, sessions, visitor, used>>

Miss(v, t) ==
  /\ visitor[v].op = "idle" /\ Exists(t) /\ ~Cached(t)
  /\ Going(v, Asking("read", t, sessions[t].user))
  /\ UNCHANGED <<accountVars, sessions, cache, used>>

\* Mutant: a session whose account was deactivated is read as before.
AcceptableWhoever(t, since) ==
  /\ ~sessions[t].revoked
  /\ sessions[t].age - since <= Lifetime /\ sessions[t].seen - since <= IdleLimit

\* The row and its user, judged at the moment the request came in.
Acceptable(t, since) ==
  /\ ~Ended(t)
  /\ sessions[t].age - since <= Lifetime /\ sessions[t].seen - since <= IdleLimit

\* Mutant: last_seen_at is written once a session has been idle too long.
StaleSeenNever(t, since) == sessions[t].seen - since > IdleLimit

\* last_seen_at is written at most once in a while.
StaleSeen(t, since) == sessions[t].seen - since > Touch

ReadRow(v, t) ==
  LET since == visitor[v].since IN
  /\ AtWork(v, "read", t)
  /\ Going(v, IF ~Acceptable(t, since) THEN VisitorIdle
              ELSE [visitor[v] EXCEPT !.op = IF StaleSeen(t, since) THEN "touch" ELSE "fill"])
  /\ UNCHANGED <<accountVars, sessions, cache, used>>

\* By id: whatever has become of the row, and of a later request's touch.
TouchRow(v, t) ==
  /\ AtWork(v, "touch", t)
  /\ sessions' = [sessions EXCEPT ![t].seen = visitor[v].since]
  /\ Going(v, [visitor[v] EXCEPT !.op = "fill"])
  /\ UNCHANGED <<accountVars, cache, used>>

\* Mutant: an entry may be written that has run out already.
FreshForEver(since) == TTL + 1 - since

\* Mutant: the entry counts its minute from when it is written.
FreshFromNow(since) == TTL

\* The entry counts its minute from when the request came in.
FreshFor(since) == IF since < TTL THEN TTL - since ELSE 0

Fill(v, t) ==
  LET since == visitor[v].since
      entry == [seen |-> since, fresh |-> FreshFor(since)] IN
  /\ AtWork(v, "fill", t)
  /\ cache' = IF entry.fresh > 0 THEN With(cache, t, entry) ELSE Without(cache, t)
  /\ used' = [used EXCEPT ![t] = 0]
  /\ Going(v, VisitorIdle)
  /\ UNCHANGED <<accountVars, sessions>>

-----------------------------------------------------------------------------
\* revokeSession, from the sign-out route: the entry at once, the row by a query.
SignOut(v, t) ==
  /\ visitor[v].op = "idle" /\ Exists(t)
  /\ cache' = Without(cache, t)
  /\ Going(v, Asking("signOut", t, sessions[t].user))
  /\ UNCHANGED <<accountVars, sessions, used>>

RevokeSession(v, t) ==
  /\ AtWork(v, "signOut", t)
  /\ sessions' = [sessions EXCEPT ![t].revoked = TRUE]
  /\ Going(v, VisitorIdle)
  /\ UNCHANGED <<accountVars, cache, used>>

\* revokeSessions of the users screen: the rows, and nothing in the cache.
RevokeSessions(m) ==
  /\ Revoke(m)
  /\ sessions' = [t \in DOMAIN sessions |->
       IF sessions[t].user = manager[m].target THEN [sessions[t] EXCEPT !.revoked = TRUE]
       ELSE sessions[t]]
  /\ UNCHANGED <<cache, visitor, used>>

\* A request whose query fails answers nobody.
Lost(v) ==
  /\ visitor[v].op # "idle"
  /\ Going(v, VisitorIdle)
  /\ UNCHANGED <<accountVars, sessions, cache, used>>

\* The process is replaced: what was in it is gone, the rows are not.
Restart ==
  /\ cache' = <<>>
  /\ visitor' = [v \in Visitors |-> VisitorIdle]
  /\ manager' = [m \in Managers |-> ManagerIdle]
  /\ UNCHANGED <<users, sessions, used>>

Tick ==
  /\ \A v \in Visitors : visitor[v].op # "idle" => visitor[v].since < Slow
  /\ sessions' = [t \in DOMAIN sessions |->
       [sessions[t] EXCEPT !.age = Older(@, Lifetime + Slow), !.seen = Older(@, IdleLimit + Slow)]]
  /\ cache' = [t \in {c \in DOMAIN cache : cache[c].fresh > 1} |->
       [seen |-> cache[t].seen + 1, fresh |-> cache[t].fresh - 1]]
  /\ visitor' = [v \in Visitors |->
       IF visitor[v].op = "idle" THEN VisitorIdle ELSE [visitor[v] EXCEPT !.since = @ + 1]]
  /\ used' = [t \in Tokens |-> IF Exists(t) THEN Older(used[t], IdleLimit + Slow) ELSE 0]
  /\ ended' = [t \in Tokens |-> IF Ended(t) THEN Older(ended[t], TTL) ELSE 0]
  /\ UNCHANGED accountVars

-----------------------------------------------------------------------------
\* The requests of the users screen, with no session of anybody's touched.
Manage(m) ==
  /\ \/ \E a, u \in Users, intent \in Intent : Authorise(m, a, u, intent)
     \/ AddUser(m) \/ ReadTarget(m) \/ CountOwners(m) \/ LockTarget(m)
     \/ \E u \in Users : LockOwner(m, u)
     \/ Write(m) \/ Fail(m)
  /\ UNCHANGED <<sessionVars, used>>

\* A request in flight goes on, and in the end answers.
Answer(v, t) ==
  CreateSession(v, t) \/ ReadRow(v, t) \/ TouchRow(v, t) \/ Fill(v, t) \/ RevokeSession(v, t)

Begin(v, t) ==
  \/ \E u \in Users : SignIn(v, t, u)
  \/ Hit(v, t) \/ Forget(v, t) \/ Miss(v, t) \/ SignOut(v, t)

\* Nothing but a tick makes an ending older.
Remember == ended' = [t \in Tokens |-> IF Ended(t)' THEN ended[t] ELSE 0]

Next ==
  \/ /\ \/ \E m \in Managers : Manage(m) \/ RevokeSessions(m)
        \/ \E v \in Visitors, t \in Tokens : Begin(v, t) \/ Answer(v, t)
        \/ \E v \in Visitors : Lost(v)
        \/ Restart
     /\ Remember
  \/ Tick

Spec == Init /\ [][Next]_vars

-----------------------------------------------------------------------------
(* Properties.                                                             *)

\* Types: accounts, rows, entries and requests are what the code can hold.
TypeOK ==
  /\ users \in [Users -> User \cup {NoUser}]
  /\ manager \in [Managers -> Requests \cup {ManagerIdle}]
  /\ DOMAIN sessions \subseteq Tokens /\ \A t \in DOMAIN sessions : sessions[t] \in Session
  /\ DOMAIN cache \subseteq DOMAIN sessions /\ \A t \in DOMAIN cache : cache[t] \in Entry
  /\ visitor \in [Visitors ->
       [op : {"signIn", "read", "touch", "fill", "signOut"}, token : Tokens, user : Users,
        since : 0..Slow] \cup {VisitorIdle}]
  /\ used \in [Tokens -> 0..(IdleLimit + Slow + 1)]
  /\ ended \in [Tokens -> 0..(TTL + 1)]

\* An active owner always remains, however many owners are demoting and
\* deactivating one another at once (guard_last_owner behind guardrailBreach).
LastOwnerRemains == \E u \in Users : ActiveOwner(u)

\* The cache answers for a session that has ended for less than its minute,
\* whatever was in flight when it ended: a slow read cannot put back an entry that
\* outlives what it read (readSession's cachedUntil, revokeSession, revokeSessions).
\* The code's comment promises more than this bound: see CacheIsCoherent below.
StaleAtMostTTL ==
  \A t \in DOMAIN cache : ended[t] + cache[t].fresh <= TTL

\* A session in use is not refused as idle: last_seen_at lags what the session was
\* really used for by no more than an interval and a cached answer, though it is
\* written seldom and by requests that may overtake one another (readSession).
UseKeepsAlive ==
  \A t \in DOMAIN sessions :
    ~Ended(t) /\ sessions[t].age <= Lifetime /\ used[t] + Touch + TTL <= IdleLimit
      => sessions[t].seen <= IdleLimit

\* Nobody is let in on a session past its lifetime, or on one that has ended, except
\* by an entry still fresh or by a request that came in before (readSession).  That
\* an ending takes effect at once, as the design has it, is EndedLetsNobodyIn below.
LetInInTime ==
  [][\A t \in Tokens :
       /\ (\E v \in Visitors : Hit(v, t)) => sessions[t].age <= Lifetime /\ ended[t] < TTL
       /\ (\E v \in Visitors : Fill(v, t)) =>
            sessions[t].age <= Lifetime + Slow /\ ended[t] <= Slow]_vars

-----------------------------------------------------------------------------
(* What the repository says and the code does not keep.                    *)

\* "Coherent by construction [...]: revocation deletes the entry synchronously in the
\* same call that writes the row": the cache answers for no session that has ended
\* (session.ts:44).  RevokeSessions clears nothing, and a slow Fill puts back what
\* SignOut took out.
CacheIsCoherent == \A t \in DOMAIN cache : ~Ended(t)

\* "The owner changes a method, deactivates a person, or presses Sign out everywhere,
\* and the effect must be immediate": no request that comes in once a session has
\* ended is let in on it (sso-design.md:291; session.test.ts:141, "without waiting for
\* the cache to expire").
EndedLetsNobodyIn ==
  [][\A v \in Visitors, t \in Tokens : Hit(v, t) => ~Ended(t)]_vars
=============================================================================
