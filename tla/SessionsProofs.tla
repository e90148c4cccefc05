--------------------------- MODULE SessionsProofs ---------------------------
(***************************************************************************)
(* Proofs about Accounts and Sessions for any people, requests, tokens and *)
(* times: an owner always remains, and no cached answer outlives its       *)
(* minute.                                                                 *)
(*                                                                         *)
(* An owner remains because the owners a write has counted are rows it has *)
(* locked, no two writes hold one row, and only the holder of a row may    *)
(* change it.  A cached answer is bounded because a read that has found    *)
(* its session live found it so after the moment it counts its minute from.*)
(***************************************************************************)
EXTENDS Sessions, TLAPS

AccountsTyped ==
  /\ users \in [Users -> User \cup {NoUser}]
  /\ manager \in [Managers -> Requests \cup {ManagerIdle}]

Exclusive == \A m, n \in Managers : m # n => Locks(m) \cap Locks(n) = {}

\* What a write has counted it holds, and it is not the row it is about to change.
CountedOK(m) ==
  manager[m].op = "locking" =>
    /\ manager[m].target \in manager[m].locked
    /\ manager[m].target \notin manager[m].asked
    /\ manager[m].counted \subseteq manager[m].locked \ {manager[m].target}
    /\ \A u \in manager[m].counted : ActiveOwner(u)

\* What a request is about to write is somebody's row, for no row ever goes.
KnownOK(m) ==
  manager[m].op \in {"counting", "writing", "locking"} => users[manager[m].target] \in User

AccountsInv ==
  AccountsTyped /\ Exclusive /\ (\A m \in Managers : KnownOK(m)) /\ (\A m \in Managers : CountedOK(m)) /\ LastOwnerRemains

Askings == [op : {"signIn", "read", "touch", "fill", "signOut"}, token : Tokens, user : Users,
            since : 0..Slow]

SessionsTyped ==
  /\ DOMAIN sessions \subseteq Tokens /\ \A t \in DOMAIN sessions : sessions[t] \in Session
  /\ DOMAIN cache \subseteq DOMAIN sessions /\ \A t \in DOMAIN cache : cache[t] \in Entry
  /\ visitor \in [Visitors -> Askings \cup {VisitorIdle}]
  /\ used \in [Tokens -> 0..(IdleLimit + Slow + 1)]
  /\ ended \in [Tokens -> 0..(TTL + 1)]

\* A request past its read found the session live since it came in.
VisitorOK(v) ==
  /\ visitor[v].op \in {"read", "touch", "fill", "signOut"} => visitor[v].token \in DOMAIN sessions
  /\ visitor[v].op \in {"touch", "fill"} =>
       /\ ended[visitor[v].token] <= visitor[v].since
       /\ sessions[visitor[v].token].age <= Lifetime + visitor[v].since

SessionsInv == SessionsTyped /\ (\A v \in Visitors : VisitorOK(v)) /\ StaleAtMostTTL

-----------------------------------------------------------------------------
\* The users screen.

\* A step of a request that holds no lock before or after it, and writes no user,
\* keeps everything.
LEMMA UnlockedStep ==
  ASSUME NEW m \in Managers, NEW request \in Requests \cup {ManagerIdle},
         request.op # "locking",
         request.op \in {"counting", "writing"} => users[request.target] \in User,
         AccountsInv, Goes(m, request), UNCHANGED users
  PROVE  AccountsInv'
<1>1. AccountsTyped'
  BY DEF AccountsInv, AccountsTyped, Goes
<1>2. \A n \in Managers : Locks(n)' \subseteq Locks(n)
  BY DEF AccountsInv, AccountsTyped, Goes, Locks
<1>3. Exclusive'
  BY <1>2 DEF AccountsInv, Exclusive
<1>4. \A n \in Managers : CountedOK(n)'
  BY DEF AccountsInv, AccountsTyped, Goes, CountedOK, ActiveOwner
<1>5. LastOwnerRemains'
  BY DEF AccountsInv, LastOwnerRemains, ActiveOwner
<1>6. \A n \in Managers : KnownOK(n)'
  BY DEF AccountsInv, AccountsTyped, Goes, KnownOK
<1> QED BY <1>1, <1>3, <1>4, <1>5, <1>6 DEF AccountsInv

LEMMA AuthoriseKeeps ==
  ASSUME NEW m \in Managers, NEW a \in Users, NEW u \in Users, NEW intent \in Intent,
         AccountsInv, Authorise(m, a, u, intent)
  PROVE  AccountsInv'
<1> DEFINE request == Request("authorised", u, intent, users[a].role = "owner")
<1>1. request \in Requests /\ request.op \notin {"locking", "counting", "writing"}
  BY DEF Request, Requests
<1>2. Goes(m, request) /\ UNCHANGED users
  BY DEF Authorise
<1> QED BY <1>1, <1>2, UnlockedStep

LEMMA ReadTargetKeeps ==
  ASSUME NEW m \in Managers, AccountsInv, ReadTarget(m)
  PROVE  AccountsInv'
<1> DEFINE op == IF Removes(users[manager[m].target], manager[m].intent) THEN "counting" ELSE "writing"
           request == [manager[m] EXCEPT !.op = op]
<1>1. manager[m] \in Requests
  BY DEF AccountsInv, AccountsTyped, ReadTarget, ManagerIdle
<1>2. request \in Requests /\ request.op # "locking"
  BY <1>1 DEF Requests
<1>3. Goes(m, request) /\ UNCHANGED users
  BY DEF ReadTarget
<1>4. request.target \in Users /\ users[request.target] \in User
  BY <1>1 DEF Requests, ReadTarget, AccountsInv, AccountsTyped
<1> QED BY <1>2, <1>3, <1>4, UnlockedStep

LEMMA CountOwnersKeeps ==
  ASSUME NEW m \in Managers, AccountsInv, CountOwners(m)
  PROVE  AccountsInv'
<1> DEFINE request == [manager[m] EXCEPT !.op = "writing"]
<1>1. manager[m] \in Requests
  BY DEF AccountsInv, AccountsTyped, CountOwners, ManagerIdle
<1>2. request \in Requests /\ request.op # "locking"
  BY <1>1 DEF Requests
<1>3. Goes(m, request) /\ UNCHANGED users
  BY DEF CountOwners
<1>4. users[request.target] \in User
  BY <1>1 DEF Requests, CountOwners, AccountsInv, KnownOK
<1> QED BY <1>2, <1>3, <1>4, UnlockedStep

\* A row nobody had is nobody's lock and was no owner.
LEMMA AddUserKeeps ==
  ASSUME NEW m \in Managers, AccountsInv, AddUser(m)
  PROVE  AccountsInv'
<1>1. manager[m] \in Requests
  BY DEF AccountsInv, AccountsTyped, AddUser, ManagerIdle
<1> DEFINE target == manager[m].target
           row == [role |-> manager[m].intent.role, isActive |-> TRUE]
<1>2. target \in Users /\ row \in User
  BY <1>1, RolesAssumption DEF Requests, Intent, User
<1>3. users' = [users EXCEPT ![target] = row] /\ Goes(m, ManagerIdle) /\ users[target] = NoUser
  BY DEF AddUser
<1>4. AccountsTyped'
  BY <1>2, <1>3 DEF AccountsInv, AccountsTyped, Goes
<1>5. ~ActiveOwner(target) /\ \A u \in Users \ {target} : ActiveOwner(u)' = ActiveOwner(u)
  BY <1>2, <1>3 DEF AccountsInv, AccountsTyped, ActiveOwner, OwnerRow, NoUser
<1>6. \A n \in Managers : Locks(n)' \subseteq Locks(n)
  BY <1>3 DEF AccountsInv, AccountsTyped, Goes, Locks, ManagerIdle
<1>7. Exclusive'
  BY <1>6 DEF AccountsInv, Exclusive
<1>8. \A n \in Managers : CountedOK(n)'
  <2> TAKE n \in Managers
  <2>1. CASE n = m
    BY <1>3, <2>1 DEF AccountsInv, AccountsTyped, Goes, CountedOK, ManagerIdle
  <2>2. CASE n # m
    <3>1. manager'[n] = manager[n]
      BY <1>3, <2>2 DEF AccountsInv, AccountsTyped, Goes
    <3>2. manager[n].op = "locking" => \A u \in manager[n].counted : u \in Users \ {target}
      <4>1. manager[n].op = "locking" => manager[n] \in Requests
        BY DEF AccountsInv, AccountsTyped, ManagerIdle
      <4> QED BY <4>1, <1>5 DEF AccountsInv, CountedOK, Requests
    <3> QED BY <3>1, <3>2, <1>5 DEF AccountsInv, CountedOK
  <2> QED BY <2>1, <2>2
<1>9. LastOwnerRemains'
  BY <1>5 DEF AccountsInv, LastOwnerRemains
<1>10. \A n \in Managers : KnownOK(n)'
  BY <1>2, <1>3 DEF AccountsInv, AccountsTyped, Goes, KnownOK, ManagerIdle
<1> QED BY <1>4, <1>7, <1>8, <1>9, <1>10 DEF AccountsInv

LEMMA LockTargetKeeps ==
  ASSUME NEW m \in Managers, AccountsInv, LockTarget(m)
  PROVE  AccountsInv'
<1>1. manager[m] \in Requests
  BY DEF AccountsInv, AccountsTyped, LockTarget, ManagerIdle
<1> DEFINE target == manager[m].target
           request == [manager[m] EXCEPT !.op = "locking", !.locked = {target}, !.asked = Others(m),
                                    !.counted = {}]
<1>2. Others(m) \subseteq Users \ {target}
  BY DEF Others
<1>3. request \in Requests
  BY <1>1, <1>2 DEF Requests
<1>4. Goes(m, request) /\ UNCHANGED users
  BY DEF LockTarget
<1>5. AccountsTyped'
  BY <1>3, <1>4 DEF AccountsInv, AccountsTyped, Goes
<1>6. Locks(m)' = {target} /\ \A n \in Managers \ {m} : Locks(n)' = Locks(n) /\ target \notin Locks(n)
  BY <1>1, <1>4 DEF AccountsInv, AccountsTyped, Goes, Locks, LockTarget, Free, Requests
<1>7. Exclusive'
  BY <1>6 DEF AccountsInv, Exclusive
<1>8. \A n \in Managers : CountedOK(n)'
  <2> TAKE n \in Managers
  <2>1. CASE n = m
    <3>1. manager'[m] = request
      BY <1>4 DEF AccountsInv, AccountsTyped, Goes
    <3> QED BY <1>1, <1>2, <2>1, <3>1 DEF CountedOK, Requests
  <2>2. CASE n # m
    BY <1>4, <2>2 DEF AccountsInv, AccountsTyped, Goes, CountedOK, ActiveOwner
  <2> QED BY <2>1, <2>2
<1>9. LastOwnerRemains'
  BY <1>4 DEF AccountsInv, LastOwnerRemains, ActiveOwner
<1>10. \A n \in Managers : KnownOK(n)'
  <2>1. users[target] \in User
    BY DEF AccountsInv, KnownOK, LockTarget
  <2>2. manager'[m] = request /\ \A n \in Managers \ {m} : manager'[n] = manager[n]
    BY <1>4 DEF AccountsInv, AccountsTyped, Goes
  <2>3. request.target = target
    BY <1>1 DEF Requests
  <2> QED BY <1>4, <2>1, <2>2, <2>3 DEF AccountsInv, KnownOK
<1> QED BY <1>5, <1>7, <1>8, <1>9, <1>10 DEF AccountsInv

LEMMA LockOwnerKeeps ==
  ASSUME NEW m \in Managers, NEW u \in Users, AccountsInv, LockOwner(m, u)
  PROVE  AccountsInv'
<1>1. manager[m] \in Requests /\ manager[m].op = "locking"
  BY DEF AccountsInv, AccountsTyped, LockOwner, ManagerIdle
<1> DEFINE counted == IF ActiveOwner(u) THEN manager[m].counted \cup {u} ELSE manager[m].counted
           request == [manager[m] EXCEPT !.asked = manager[m].asked \ {u},
                         !.locked = manager[m].locked \cup {u}, !.counted = counted]
<1>2. request \in Requests /\ request.op = "locking"
  BY <1>1 DEF Requests
<1>3. Goes(m, request) /\ UNCHANGED users
  BY DEF LockOwner
<1>4. AccountsTyped'
  BY <1>2, <1>3 DEF AccountsInv, AccountsTyped, Goes
<1>5. manager'[m] = request /\ \A n \in Managers \ {m} : manager'[n] = manager[n]
  BY <1>3 DEF AccountsInv, AccountsTyped, Goes
<1>6. /\ Locks(m)' = Locks(m) \cup {u}
      /\ \A n \in Managers \ {m} : Locks(n)' = Locks(n) /\ u \notin Locks(n)
  <2>1. request.op = "locking" /\ request.locked = manager[m].locked \cup {u}
    BY <1>1 DEF Requests
  <2>2. Locks(m)' = Locks(m) \cup {u}
    BY <1>1, <1>5, <2>1 DEF Locks
  <2>3. \A n \in Managers \ {m} : Locks(n)' = Locks(n)
    BY <1>5 DEF Locks
  <2> QED BY <2>2, <2>3 DEF LockOwner, Free
<1>7. Exclusive'
  BY <1>6 DEF AccountsInv, Exclusive
<1>8. \A n \in Managers : CountedOK(n)'
  <2> TAKE n \in Managers
  <2>1. CASE n = m
    <3>1. CountedOK(m) /\ u \in manager[m].asked
      BY DEF AccountsInv, LockOwner
    <3>2. /\ request.target = manager[m].target /\ request.asked = manager[m].asked \ {u}
          /\ request.locked = manager[m].locked \cup {u} /\ request.counted = counted
      BY <1>1 DEF Requests
    <3>3. \A v \in counted : v \in manager[m].counted \/ (v = u /\ ActiveOwner(u))
      OBVIOUS
    <3>4. u # manager[m].target
      BY <1>1, <3>1 DEF CountedOK
    <3>5. \A v \in counted : v \in (manager[m].locked \cup {u}) \ {manager[m].target} /\ ActiveOwner(v)
      BY <1>1, <3>1, <3>3, <3>4 DEF CountedOK
    <3> HIDE DEF counted, request
    <3> QED BY <1>1, <1>3, <1>5, <2>1, <3>1, <3>2, <3>4, <3>5 DEF CountedOK, ActiveOwner
  <2>2. CASE n # m
    BY <1>3, <1>5, <2>2 DEF AccountsInv, CountedOK, ActiveOwner
  <2> QED BY <2>1, <2>2
<1>9. LastOwnerRemains'
  BY <1>3 DEF AccountsInv, LastOwnerRemains, ActiveOwner
<1>10. \A n \in Managers : KnownOK(n)'
  <2>1. request.target = manager[m].target
    BY <1>1 DEF Requests
  <2>2. KnownOK(m)'
    <3>1. manager'[m] = request /\ users' = users
      BY <1>3, <1>5
    <3>2. KnownOK(m)
      BY DEF AccountsInv
    <3> HIDE DEF request
    <3> QED BY <1>1, <1>2, <2>1, <3>1, <3>2 DEF KnownOK
  <2>3. ASSUME NEW n \in Managers \ {m} PROVE KnownOK(n)'
    BY <1>3, <1>5, <2>3 DEF AccountsInv, KnownOK
  <2> QED BY <2>2, <2>3
<1> QED BY <1>4, <1>7, <1>8, <1>9, <1>10 DEF AccountsInv

\* The write itself: what another write has counted is not this row, and what this
\* one has counted stays when an owner goes.
LEMMA WriteKeeps ==
  ASSUME NEW m \in Managers, AccountsInv, Write(m)
  PROVE  AccountsInv'
<1>1. manager[m] \in Requests /\ manager[m].op = "locking"
  BY DEF AccountsInv, AccountsTyped, Write, ManagerIdle
<1> DEFINE target == manager[m].target
           intent == manager[m].intent
           after == Applied(users[target], intent)
           request == IF intent.sets = "role" \/ ~intent.isActive
                      THEN Request("revoking", target, intent, manager[m].byOwner)
                      ELSE ManagerIdle
<1>2. target \in Users /\ intent \in Intent
  BY <1>1 DEF Requests
<1>3. request \in Requests \cup {ManagerIdle} /\ request.op # "locking"
  BY <1>1 DEF Request, Requests, ManagerIdle
<1>4. users' = [users EXCEPT ![target] = after] /\ Goes(m, request)
  BY DEF Write
<1>5. CountedOK(m) /\ target \in Locks(m)
  BY <1>1 DEF AccountsInv, CountedOK, Locks
<1>6. users[target] \in User /\ after \in User
  BY <1>1, <1>2, RolesAssumption DEF AccountsInv, KnownOK, Applied, Intent, User
<1>7. manager'[m] = request /\ \A n \in Managers \ {m} : manager'[n] = manager[n]
  BY <1>4 DEF AccountsInv, AccountsTyped, Goes
<1>8. users'[target] = after /\ \A u \in Users \ {target} : users'[u] = users[u]
  BY <1>2, <1>4 DEF AccountsInv, AccountsTyped
<1>9. AccountsTyped'
  BY <1>3, <1>4, <1>6 DEF AccountsInv, AccountsTyped, Goes
<1>10. Locks(m)' = {} /\ \A n \in Managers \ {m} : Locks(n)' = Locks(n)
  BY <1>3, <1>7 DEF Locks
<1>11. Exclusive'
  BY <1>10 DEF AccountsInv, Exclusive
<1>12. \A n \in Managers : CountedOK(n)'
  <2> TAKE n \in Managers
  <2>1. CASE n = m
    BY <1>3, <1>7, <2>1 DEF CountedOK
  <2>2. CASE n # m /\ manager[n].op = "locking"
    <3>1. CountedOK(n) /\ manager[n] \in Requests
      BY <2>2 DEF AccountsInv, AccountsTyped, ManagerIdle
    <3>2. target \notin Locks(n)
      BY <1>5, <2>2 DEF AccountsInv, Exclusive
    <3>3. \A u \in manager[n].counted : u \in Users \ {target}
      BY <2>2, <3>1, <3>2 DEF CountedOK, Locks, Requests
    <3> QED BY <1>7, <1>8, <2>2, <3>1, <3>3 DEF CountedOK, ActiveOwner
  <2>3. CASE n # m /\ manager[n].op # "locking"
    BY <1>7, <2>3 DEF CountedOK
  <2> QED BY <2>1, <2>2, <2>3
<1>13. \A n \in Managers : KnownOK(n)'
  <2> TAKE n \in Managers
  <2>1. CASE n = m
    <3>1. request.op \notin {"counting", "writing", "locking"}
      BY DEF Request, ManagerIdle
    <3> QED BY <1>7, <2>1, <3>1 DEF KnownOK
  <2>2. CASE n # m
    <3>1. KnownOK(n)
      BY DEF AccountsInv
    <3>2. CASE manager[n].target = target
      BY <1>6, <1>7, <1>8, <2>2, <3>2 DEF KnownOK
    <3>3. CASE manager[n].target # target
      <4>1. manager[n].op # "idle" => manager[n].target \in Users
        BY DEF AccountsInv, AccountsTyped, Requests, ManagerIdle
      <4> QED BY <1>7, <1>8, <2>2, <3>1, <3>3, <4>1 DEF KnownOK
    <3> QED BY <3>2, <3>3
  <2> QED BY <2>1, <2>2
<1>14. LastOwnerRemains'
  <2>1. PICK o \in Users : ActiveOwner(o)
    BY DEF AccountsInv, LastOwnerRemains
  <2>2. CASE o # target
    BY <1>8, <2>1, <2>2 DEF LastOwnerRemains, ActiveOwner
  <2>3. CASE OwnerRow(after)
    BY <1>2, <1>8, <2>3 DEF LastOwnerRemains, ActiveOwner
  <2>4. CASE o = target /\ ~OwnerRow(after)
    <3>1. manager[m].counted # {}
      BY <2>1, <2>4 DEF Write, ActiveOwner
    <3>2. PICK u \in manager[m].counted : TRUE
      BY <3>1
    <3>3. u \in Users \ {target} /\ ActiveOwner(u)
      BY <1>1, <1>5, <3>2 DEF CountedOK, Requests
    <3> QED BY <1>8, <3>3 DEF LastOwnerRemains, ActiveOwner
  <2> QED BY <2>2, <2>3, <2>4
<1> QED BY <1>9, <1>11, <1>12, <1>13, <1>14 DEF AccountsInv

LEMMA RevokeKeeps ==
  ASSUME NEW m \in Managers, AccountsInv, Revoke(m)
  PROVE  AccountsInv'
<1>1. ManagerIdle.op \notin {"locking", "counting", "writing"}
  BY DEF ManagerIdle
<1> QED BY <1>1, UnlockedStep DEF Revoke

LEMMA FailKeeps ==
  ASSUME NEW m \in Managers, AccountsInv, Fail(m)
  PROVE  AccountsInv'
<1>1. ManagerIdle.op \notin {"locking", "counting", "writing"}
  BY DEF ManagerIdle
<1> QED BY <1>1, UnlockedStep DEF Fail

-----------------------------------------------------------------------------
\* Sessions.

LEMMA RememberLowers ==
  ASSUME SessionsInv, Remember
  PROVE  /\ ended' \in [Tokens -> 0..(TTL + 1)]
         /\ \A t \in Tokens : /\ ended[t] \in Int /\ ended'[t] \in Int
                              /\ ended'[t] <= ended[t] /\ (~Ended(t)' => ended'[t] = 0)
<1>1. ended \in [Tokens -> 0..(TTL + 1)]
  BY DEF SessionsInv, SessionsTyped
<1>2. \A t \in Tokens : ended'[t] = IF Ended(t)' THEN ended[t] ELSE 0
  BY DEF Remember
<1>3. ended' = [t \in Tokens |-> ended'[t]]
  BY DEF Remember
<1> QED BY <1>1, <1>2, <1>3, TimesAssumption

\* What every step but a tick has to show: no session gets older or goes, the cache
\* gains nothing that outlives its minute, and who moves is where he may be.
LEMMA QuietStep ==
  ASSUME SessionsInv, Remember,
         DOMAIN sessions' \subseteq Tokens,
         \A t \in DOMAIN sessions' : sessions'[t] \in Session,
         \A t \in DOMAIN sessions : t \in DOMAIN sessions' /\ sessions'[t].age <= sessions[t].age,
         DOMAIN cache' \subseteq DOMAIN sessions',
         \A t \in DOMAIN cache' :
           /\ cache'[t] \in Entry
           /\ (t \in DOMAIN cache /\ cache'[t] = cache[t]) \/ ended'[t] + cache'[t].fresh <= TTL,
         visitor' \in [Visitors -> Askings \cup {VisitorIdle}],
         \A w \in Visitors : visitor'[w] = visitor[w] \/ VisitorOK(w)',
         used' \in [Tokens -> 0..(IdleLimit + Slow + 1)]
  PROVE  SessionsInv'
<1>1. SessionsTyped'
  BY RememberLowers DEF SessionsTyped
<1>2. ASSUME NEW w \in Visitors
      PROVE  VisitorOK(w)'
  <2>1. CASE visitor'[w] = visitor[w]
    <3>1. VisitorOK(w)
      BY DEF SessionsInv
    <3>2. visitor[w].op \in {"touch", "fill"} =>
            /\ visitor[w].token \in DOMAIN sessions /\ visitor[w].token \in Tokens
            /\ visitor[w].since \in 0..Slow
      BY <3>1 DEF SessionsInv, SessionsTyped, Askings, VisitorIdle, VisitorOK
    <3>3. \A t \in Tokens : ended'[t] <= ended[t] /\ ended[t] \in Int /\ ended'[t] \in Int
      BY RememberLowers
    <3>4. \A t \in DOMAIN sessions : sessions[t].age \in Int /\ sessions'[t].age \in Int
      BY TimesAssumption DEF SessionsInv, SessionsTyped, Session
    <3> QED BY <2>1, <3>1, <3>2, <3>3, <3>4, TimesAssumption DEF VisitorOK
  <2> QED BY <2>1
<1>3. StaleAtMostTTL'
  <2> SUFFICES ASSUME NEW t \in DOMAIN cache'
               PROVE  ended'[t] + cache'[t].fresh <= TTL
    BY DEF StaleAtMostTTL
  <2>1. CASE t \in DOMAIN cache /\ cache'[t] = cache[t]
    <3>1. t \in Tokens /\ cache[t].fresh \in Int /\ ended[t] + cache[t].fresh <= TTL
      BY <2>1, TimesAssumption DEF SessionsInv, SessionsTyped, StaleAtMostTTL, Entry
    <3>2. ended'[t] <= ended[t] /\ ended[t] \in Int /\ ended'[t] \in Int
      BY <3>1, RememberLowers
    <3> QED BY <2>1, <3>1, <3>2, TimesAssumption
  <2> QED BY <2>1
<1> QED BY <1>1, <1>2, <1>3 DEF SessionsInv

\* Where a visitor goes that touches nothing.
LEMMA VisitorStep ==
  ASSUME NEW v \in Visitors, NEW request \in Askings \cup {VisitorIdle},
         SessionsInv, Remember, Going(v, request), UNCHANGED <<sessions, cache, used>>,
         request.op \in {"read", "touch", "fill", "signOut"} => request.token \in DOMAIN sessions,
         request.op \in {"touch", "fill"} =>
           /\ ended'[request.token] <= request.since
           /\ sessions[request.token].age <= Lifetime + request.since
  PROVE  SessionsInv'
<1>1. visitor' \in [Visitors -> Askings \cup {VisitorIdle}] /\ visitor'[v] = request
      /\ \A w \in Visitors \ {v} : visitor'[w] = visitor[w]
  BY DEF SessionsInv, SessionsTyped, Going
<1>2. VisitorOK(v)'
  BY <1>1 DEF VisitorOK
<1>3. \A t \in DOMAIN sessions : sessions[t].age <= sessions[t].age
  BY TimesAssumption DEF SessionsInv, SessionsTyped, Session
<1> QED BY <1>1, <1>2, <1>3, QuietStep DEF SessionsInv, SessionsTyped

LEMMA UntouchedStep ==
  ASSUME SessionsInv, Remember, UNCHANGED <<sessionVars, used>>
  PROVE  SessionsInv'
<1>1. UNCHANGED <<sessions, cache, visitor, used>>
  BY DEF sessionVars
<1>3. \A t \in DOMAIN sessions : sessions[t].age <= sessions[t].age
  BY TimesAssumption DEF SessionsInv, SessionsTyped, Session
<1> QED BY <1>1, <1>3, QuietStep DEF SessionsInv, SessionsTyped

LEMMA SignInKeeps ==
  ASSUME SessionsInv, Remember, NEW v \in Visitors, NEW t \in Tokens, NEW u \in Users, SignIn(v, t, u)
  PROVE  SessionsInv'
<1> DEFINE request == Asking("signIn", t, u)
<1>1. request \in Askings /\ request.op \notin {"read", "touch", "fill", "signOut"}
  BY TimesAssumption DEF Asking, Askings
<1>2. Going(v, request) /\ UNCHANGED <<sessions, cache, used>>
  BY DEF SignIn, Asking
<1> QED BY <1>1, <1>2, VisitorStep

LEMMA MissKeeps ==
  ASSUME SessionsInv, Remember, NEW v \in Visitors, NEW t \in Tokens, Miss(v, t)
  PROVE  SessionsInv'
<1> DEFINE request == Asking("read", t, sessions[t].user)
<1>1. t \in DOMAIN sessions /\ sessions[t].user \in Users
  BY DEF Miss, Exists, SessionsInv, SessionsTyped, Session
<1>2. request \in Askings /\ request.op = "read" /\ request.token = t
  BY <1>1, TimesAssumption DEF Asking, Askings
<1>3. Going(v, request) /\ UNCHANGED <<sessions, cache, used>>
  BY DEF Miss
<1> QED BY <1>1, <1>2, <1>3, VisitorStep

LEMMA LostKeeps ==
  ASSUME SessionsInv, Remember, NEW v \in Visitors, Lost(v)
  PROVE  SessionsInv'
<1>1. VisitorIdle.op \notin {"read", "touch", "fill", "signOut"}
  BY DEF VisitorIdle
<1> QED BY <1>1, VisitorStep DEF Lost

\* The row is judged at a moment past the one the request came in.
LEMMA ReadRowKeeps ==
  ASSUME SessionsInv, Remember, NEW v \in Visitors, NEW t \in Tokens, ReadRow(v, t)
  PROVE  SessionsInv'
<1>1. visitor[v] \in Askings /\ visitor[v].op = "read" /\ visitor[v].token = t
  BY DEF ReadRow, SessionsInv, SessionsTyped, AtWork, VisitorIdle
<1>2. t \in DOMAIN sessions
  BY <1>1 DEF SessionsInv, VisitorOK
<1> DEFINE since == visitor[v].since
           op == IF StaleSeen(t, since) THEN "touch" ELSE "fill"
           request == [visitor[v] EXCEPT !.op = op]
<1>3. UNCHANGED <<sessions, cache, used, users>>
  BY DEF ReadRow, accountVars
<1>4. CASE ~Acceptable(t, since)
  <2>1. Going(v, VisitorIdle)
    BY <1>4 DEF ReadRow
  <2>2. VisitorIdle.op \notin {"read", "touch", "fill", "signOut"}
    BY DEF VisitorIdle
  <2> QED BY <1>3, <2>1, <2>2, VisitorStep
<1>5. CASE Acceptable(t, since)
  <2>1. Going(v, request)
    BY <1>5 DEF ReadRow
  <2>2. request \in Askings /\ request.token = t /\ request.since = since /\ since \in 0..Slow
    BY <1>1 DEF Askings
  <2>3. ~Ended(t)' /\ sessions[t].age - since <= Lifetime
    BY <1>3, <1>5 DEF Acceptable, Ended, Exists
  <2>4. ended'[t] = 0
    BY <2>3, RememberLowers
  <2>5. sessions[t].age \in Int
    BY <1>2, TimesAssumption DEF SessionsInv, SessionsTyped, Session
  <2>6. ended'[t] <= since /\ sessions[t].age <= Lifetime + since
    BY <2>2, <2>3, <2>4, <2>5, TimesAssumption
  <2> HIDE DEF request
  <2> QED BY <1>2, <1>3, <2>1, <2>2, <2>6, VisitorStep
<1> QED BY <1>4, <1>5

LEMMA HitKeeps ==
  ASSUME SessionsInv, Remember, NEW v \in Visitors, NEW t \in Tokens, Hit(v, t)
  PROVE  SessionsInv'
<1>1. UNCHANGED <<sessions, cache, visitor>> /\ used' = [used EXCEPT ![t] = 0]
  BY DEF Hit
<1>2. used' \in [Tokens -> 0..(IdleLimit + Slow + 1)]
  BY <1>1, TimesAssumption DEF SessionsInv, SessionsTyped
<1>3. \A c \in DOMAIN sessions : sessions[c].age <= sessions[c].age
  BY TimesAssumption DEF SessionsInv, SessionsTyped, Session
<1> QED BY <1>1, <1>2, <1>3, QuietStep DEF SessionsInv, SessionsTyped

LEMMA ForgetKeeps ==
  ASSUME SessionsInv, Remember, NEW v \in Visitors, NEW t \in Tokens, Forget(v, t)
  PROVE  SessionsInv'
<1>1. UNCHANGED <<sessions, visitor, used>> /\ cache' = Without(cache, t)
  BY DEF Forget
<1>2. DOMAIN cache' = DOMAIN cache \ {t} /\ \A c \in DOMAIN cache' : cache'[c] = cache[c]
  BY <1>1 DEF Without
<1>3. \A c \in DOMAIN sessions : sessions[c].age <= sessions[c].age
  BY TimesAssumption DEF SessionsInv, SessionsTyped, Session
<1> QED BY <1>1, <1>2, <1>3, QuietStep DEF SessionsInv, SessionsTyped

LEMMA SignOutKeeps ==
  ASSUME SessionsInv, Remember, NEW v \in Visitors, NEW t \in Tokens, SignOut(v, t)
  PROVE  SessionsInv'
<1> DEFINE request == Asking("signOut", t, sessions[t].user)
<1>1. UNCHANGED <<sessions, used>> /\ cache' = Without(cache, t) /\ Going(v, request)
      /\ t \in DOMAIN sessions
  BY DEF SignOut, Exists
<1>2. DOMAIN cache' = DOMAIN cache \ {t} /\ \A c \in DOMAIN cache' : cache'[c] = cache[c]
  BY <1>1 DEF Without
<1>3. request \in Askings /\ request.op = "signOut" /\ request.token = t
  BY <1>1, TimesAssumption DEF Asking, Askings, SessionsInv, SessionsTyped, Session
<1>4. visitor' \in [Visitors -> Askings \cup {VisitorIdle}] /\ visitor'[v] = request
      /\ \A w \in Visitors \ {v} : visitor'[w] = visitor[w]
  BY <1>1, <1>3 DEF SessionsInv, SessionsTyped, Going
<1>5. VisitorOK(v)'
  BY <1>1, <1>3, <1>4 DEF VisitorOK
<1>6. \A c \in DOMAIN sessions : sessions[c].age <= sessions[c].age
  BY TimesAssumption DEF SessionsInv, SessionsTyped, Session
<1> HIDE DEF request
<1> QED BY <1>1, <1>2, <1>4, <1>5, <1>6, QuietStep DEF SessionsInv, SessionsTyped

\* A step that writes rows and takes none away, and leaves its visitor idle.
LEMMA RowsStep ==
  ASSUME SessionsInv, Remember, UNCHANGED cache,
         DOMAIN sessions' \subseteq Tokens,
         \A t \in DOMAIN sessions' : sessions'[t] \in Session,
         \A t \in DOMAIN sessions : t \in DOMAIN sessions' /\ sessions'[t].age <= sessions[t].age,
         visitor' \in [Visitors -> Askings \cup {VisitorIdle}],
         \A w \in Visitors : visitor'[w] = visitor[w] \/ visitor'[w] = VisitorIdle,
         used' \in [Tokens -> 0..(IdleLimit + Slow + 1)]
  PROVE  SessionsInv'
<1>1. \A w \in Visitors : visitor'[w] = VisitorIdle => VisitorOK(w)'
  <2>1. VisitorIdle.op \notin {"read", "touch", "fill", "signOut"}
    BY DEF VisitorIdle
  <2> QED BY <2>1 DEF VisitorOK
<1> QED BY <1>1, QuietStep DEF SessionsInv, SessionsTyped

LEMMA CreateSessionKeeps ==
  ASSUME SessionsInv, Remember, NEW v \in Visitors, NEW t \in Tokens, CreateSession(v, t)
  PROVE  SessionsInv'
<1>1. visitor[v] \in Askings
  BY DEF CreateSession, SessionsInv, SessionsTyped, AtWork, VisitorIdle
<1> DEFINE row == [user |-> visitor[v].user, revoked |-> FALSE, age |-> 0, seen |-> 0]
<1>2. row \in Session
  BY <1>1, TimesAssumption DEF Askings, Session
<1>3. /\ DOMAIN sessions' = DOMAIN sessions \cup {t}
      /\ \A c \in DOMAIN sessions' : sessions'[c] = IF c = t THEN row ELSE sessions[c]
  BY DEF CreateSession, With
<1>4. \A c \in DOMAIN sessions : sessions[c].age \in Nat
  BY TimesAssumption DEF SessionsInv, SessionsTyped, Session
<1>5. used' \in [Tokens -> 0..(IdleLimit + Slow + 1)]
  BY TimesAssumption DEF SessionsInv, SessionsTyped, CreateSession
<1>6. /\ visitor' \in [Visitors -> Askings \cup {VisitorIdle}]
      /\ \A w \in Visitors : visitor'[w] = visitor[w] \/ visitor'[w] = VisitorIdle
  BY DEF SessionsInv, SessionsTyped, CreateSession, Going
<1>7. UNCHANGED cache
  BY DEF CreateSession
<1>8. row.age = 0
  OBVIOUS
<1> HIDE DEF row
<1>9. \A c \in DOMAIN sessions : sessions'[c].age <= sessions[c].age
  BY <1>3, <1>4, <1>8
<1>10. \A c \in DOMAIN sessions' : sessions'[c] \in Session
  BY <1>2, <1>3 DEF SessionsInv, SessionsTyped
<1>11. DOMAIN sessions' \subseteq Tokens /\ DOMAIN sessions \subseteq DOMAIN sessions'
  BY <1>3 DEF SessionsInv, SessionsTyped
<1> QED BY <1>5, <1>6, <1>7, <1>9, <1>10, <1>11, RowsStep

LEMMA RevokeSessionKeeps ==
  ASSUME SessionsInv, Remember, NEW v \in Visitors, NEW t \in Tokens, RevokeSession(v, t)
  PROVE  SessionsInv'
<1>1. /\ DOMAIN sessions' = DOMAIN sessions
      /\ \A c \in DOMAIN sessions : sessions'[c] \in Session /\ sessions'[c].age = sessions[c].age
  BY DEF RevokeSession, SessionsInv, SessionsTyped, Session
<1>2. \A c \in DOMAIN sessions : sessions[c].age \in Nat
  BY TimesAssumption DEF SessionsInv, SessionsTyped, Session
<1>3. /\ visitor' \in [Visitors -> Askings \cup {VisitorIdle}]
      /\ \A w \in Visitors : visitor'[w] = visitor[w] \/ visitor'[w] = VisitorIdle
  BY DEF SessionsInv, SessionsTyped, RevokeSession, Going
<1>4. UNCHANGED <<cache, used>>
  BY DEF RevokeSession
<1> QED BY <1>1, <1>2, <1>3, <1>4, RowsStep DEF SessionsInv, SessionsTyped

LEMMA RevokeSessionsKeeps ==
  ASSUME SessionsInv, Remember, NEW m \in Managers, RevokeSessions(m)
  PROVE  SessionsInv'
<1>1. /\ DOMAIN sessions' = DOMAIN sessions
      /\ \A c \in DOMAIN sessions : sessions'[c] \in Session /\ sessions'[c].age = sessions[c].age
  BY DEF RevokeSessions, SessionsInv, SessionsTyped, Session
<1>2. \A c \in DOMAIN sessions : sessions[c].age \in Nat
  BY TimesAssumption DEF SessionsInv, SessionsTyped, Session
<1>3. UNCHANGED <<cache, visitor, used>>
  BY DEF RevokeSessions
<1> QED BY <1>1, <1>2, <1>3, RowsStep DEF SessionsInv, SessionsTyped

LEMMA RestartKeeps ==
  ASSUME SessionsInv, Remember, Restart
  PROVE  SessionsInv'
<1>1. DOMAIN cache' = {}
  BY SMT DEF Restart
<1>2. visitor' \in [Visitors -> Askings \cup {VisitorIdle}] /\ \A w \in Visitors : VisitorOK(w)'
  <2>1. VisitorIdle.op \notin {"read", "touch", "fill", "signOut"}
    BY DEF VisitorIdle
  <2> QED BY <2>1 DEF Restart, VisitorOK
<1>3. \A c \in DOMAIN sessions : sessions[c].age <= sessions[c].age
  BY TimesAssumption DEF SessionsInv, SessionsTyped, Session
<1>4. UNCHANGED <<sessions, used>>
  BY DEF Restart
<1> QED BY <1>1, <1>2, <1>3, <1>4, QuietStep DEF SessionsInv, SessionsTyped

LEMMA TouchRowKeeps ==
  ASSUME SessionsInv, Remember, NEW v \in Visitors, NEW t \in Tokens, TouchRow(v, t)
  PROVE  SessionsInv'
<1>1. visitor[v] \in Askings /\ visitor[v].op = "touch" /\ visitor[v].token = t
  BY DEF TouchRow, SessionsInv, SessionsTyped, AtWork, VisitorIdle
<1>2. t \in DOMAIN sessions /\ VisitorOK(v)
  BY <1>1 DEF SessionsInv, VisitorOK
<1> DEFINE since == visitor[v].since
           request == [visitor[v] EXCEPT !.op = "fill"]
<1>3. request \in Askings /\ request.op = "fill" /\ request.token = t /\ request.since = since
  BY <1>1 DEF Askings
<1>4. Going(v, request) /\ UNCHANGED <<cache, used>>
  BY DEF TouchRow
<1>5. since \in 0..Slow /\ since \in 0..(IdleLimit + Slow + 1)
  BY <1>1, TimesAssumption DEF Askings
<1>6. /\ DOMAIN sessions' = DOMAIN sessions
      /\ \A c \in DOMAIN sessions : sessions'[c] \in Session /\ sessions'[c].age = sessions[c].age
  BY <1>2, <1>5 DEF TouchRow, SessionsInv, SessionsTyped, Session
<1>7. \A c \in DOMAIN sessions : sessions[c].age \in Nat
  BY TimesAssumption DEF SessionsInv, SessionsTyped, Session
<1>8. visitor' \in [Visitors -> Askings \cup {VisitorIdle}] /\ visitor'[v] = request
      /\ \A w \in Visitors \ {v} : visitor'[w] = visitor[w]
  BY <1>3, <1>4 DEF SessionsInv, SessionsTyped, Going
<1>9. VisitorOK(v)'
  <2>1. ended[t] <= since /\ sessions[t].age <= Lifetime + since
    BY <1>1, <1>2 DEF VisitorOK
  <2>2. ended'[t] <= ended[t] /\ ended[t] \in Int /\ ended'[t] \in Int /\ t \in Tokens
    BY RememberLowers
  <2>3. ended'[t] <= since /\ sessions'[t].age <= Lifetime + since
    BY <1>2, <1>5, <1>6, <2>1, <2>2, TimesAssumption
  <2> HIDE DEF request, since
  <2> QED BY <1>2, <1>3, <1>6, <1>8, <2>3 DEF VisitorOK
<1> HIDE DEF request
<1> QED BY <1>4, <1>6, <1>7, <1>8, <1>9, QuietStep DEF SessionsInv, SessionsTyped

\* The entry's minute began when the request came in, and so did what it may miss.
LEMMA FillKeeps ==
  ASSUME SessionsInv, Remember, NEW v \in Visitors, NEW t \in Tokens, Fill(v, t)
  PROVE  SessionsInv'
<1>1. visitor[v] \in Askings /\ visitor[v].op = "fill" /\ visitor[v].token = t
  BY DEF Fill, SessionsInv, SessionsTyped, AtWork, VisitorIdle
<1>2. t \in DOMAIN sessions /\ VisitorOK(v)
  BY <1>1 DEF SessionsInv, VisitorOK
<1> DEFINE since == visitor[v].since
           entry == [seen |-> since, fresh |-> FreshFor(since)]
<1>3. since \in Nat /\ ended[t] <= since /\ FreshFor(since) \in 0..TTL
  BY <1>1, <1>2, TimesAssumption DEF Askings, VisitorOK, FreshFor
<1>4. FreshFor(since) > 0 => since + FreshFor(since) = TTL
  BY <1>3, TimesAssumption DEF FreshFor
<1>5. ended'[t] <= ended[t] /\ ended[t] \in Int /\ ended'[t] \in Int
  BY RememberLowers
<1>6. FreshFor(since) > 0 => ended'[t] + FreshFor(since) <= TTL
  BY <1>3, <1>4, <1>5, TimesAssumption
<1>7. FreshFor(since) > 0 => entry \in Entry
  BY <1>3 DEF Entry
<1>8. UNCHANGED sessions /\ Going(v, VisitorIdle)
      /\ cache' = IF FreshFor(since) > 0 THEN With(cache, t, entry) ELSE Without(cache, t)
  BY DEF Fill, accountVars
<1>9. \A c \in DOMAIN cache' :
        \/ c \in DOMAIN cache /\ cache'[c] = cache[c]
        \/ c = t /\ FreshFor(since) > 0 /\ cache'[c] = entry
  BY <1>8 DEF With, Without
<1>10. \A c \in DOMAIN cache' :
        /\ c \in DOMAIN sessions /\ cache'[c] \in Entry
        /\ (c \in DOMAIN cache /\ cache'[c] = cache[c]) \/ ended'[c] + cache'[c].fresh <= TTL
  BY <1>2, <1>6, <1>7, <1>9 DEF SessionsInv, SessionsTyped
<1>11. used' \in [Tokens -> 0..(IdleLimit + Slow + 1)]
  BY TimesAssumption DEF SessionsInv, SessionsTyped, Fill
<1>12. /\ visitor' \in [Visitors -> Askings \cup {VisitorIdle}]
       /\ \A w \in Visitors : visitor'[w] = visitor[w] \/ VisitorOK(w)'
  <2>1. VisitorIdle.op \notin {"read", "touch", "fill", "signOut"}
    BY DEF VisitorIdle
  <2> QED BY <1>8, <2>1 DEF SessionsInv, SessionsTyped, Going, VisitorOK
<1>13. \A c \in DOMAIN sessions : sessions[c].age <= sessions[c].age
  BY TimesAssumption DEF SessionsInv, SessionsTyped, Session
<1> QED BY <1>8, <1>10, <1>11, <1>12, <1>13, QuietStep DEF SessionsInv, SessionsTyped

LEMMA OlderBound ==
  ASSUME NEW limit \in Nat, NEW n \in 0..(limit + 1)
  PROVE  Older(n, limit) \in 0..(limit + 1) /\ Older(n, limit) <= n + 1
BY DEF Older

\* A tick ages what a request has missed no faster than the request itself, and
\* what a session has outlived no faster than the entry that answers for it.
LEMMA TickKeeps ==
  ASSUME SessionsInv, Tick
  PROVE  SessionsInv'
<1>0. Lifetime + Slow \in Nat /\ IdleLimit + Slow \in Nat
  BY TimesAssumption
<1>1. /\ DOMAIN sessions' = DOMAIN sessions
      /\ \A t \in DOMAIN sessions : /\ sessions'[t] \in Session
                                   /\ sessions'[t].age <= sessions[t].age + 1
                                   /\ sessions[t].age \in Int /\ sessions'[t].age \in Int
  <2>1. DOMAIN sessions' = DOMAIN sessions
    BY DEF Tick
  <2>2. ASSUME NEW t \in DOMAIN sessions
        PROVE  /\ sessions'[t] \in Session /\ sessions'[t].age <= sessions[t].age + 1
               /\ sessions[t].age \in Int /\ sessions'[t].age \in Int
    <3>1. sessions[t] \in Session
      BY DEF SessionsInv, SessionsTyped
    <3> DEFINE age == Older(sessions[t].age, Lifetime + Slow)
               seen == Older(sessions[t].seen, IdleLimit + Slow)
    <3>2. sessions[t].age \in 0..(Lifetime + Slow + 1) /\ sessions[t].seen \in 0..(IdleLimit + Slow + 1)
      BY <3>1 DEF Session
    <3>3. age \in 0..(Lifetime + Slow + 1) /\ age <= sessions[t].age + 1
      BY <1>0, <3>2, OlderBound
    <3>4. seen \in 0..(IdleLimit + Slow + 1)
      BY <1>0, <3>2, OlderBound
    <3>5. sessions'[t] = [[sessions[t] EXCEPT !.age = age] EXCEPT !.seen = seen]
      BY DEF Tick
    <3> HIDE DEF age, seen
    <3>6. sessions'[t] \in Session /\ sessions'[t].age = age
      BY <3>1, <3>3, <3>4, <3>5 DEF Session
    <3> QED BY <3>2, <3>3, <3>6, TimesAssumption
  <2> QED BY <2>1, <2>2
<1>2. /\ ended' \in [Tokens -> 0..(TTL + 1)]
      /\ \A t \in Tokens : ended'[t] <= ended[t] + 1 /\ ended[t] \in Int /\ ended'[t] \in Int
  <2>1. ended' = [t \in Tokens |-> ended'[t]]
    BY DEF Tick
  <2>2. ASSUME NEW t \in Tokens
        PROVE  /\ ended'[t] \in 0..(TTL + 1) /\ ended'[t] <= ended[t] + 1
               /\ ended[t] \in Int /\ ended'[t] \in Int
    <3>1. ended[t] \in 0..(TTL + 1)
      BY DEF SessionsInv, SessionsTyped
    <3>2. Older(ended[t], TTL) \in 0..(TTL + 1) /\ Older(ended[t], TTL) <= ended[t] + 1
      BY <3>1, OlderBound, TimesAssumption
    <3>3. ended'[t] = IF Ended(t) THEN Older(ended[t], TTL) ELSE 0
      BY DEF Tick
    <3> QED BY <3>1, <3>2, <3>3, TimesAssumption
  <2> QED BY <2>1, <2>2
<1>3. used' \in [Tokens -> 0..(IdleLimit + Slow + 1)]
  <2>1. ASSUME NEW t \in Tokens
        PROVE  (IF Exists(t) THEN Older(used[t], IdleLimit + Slow) ELSE 0) \in 0..(IdleLimit + Slow + 1)
    <3>1. used[t] \in 0..(IdleLimit + Slow + 1)
      BY DEF SessionsInv, SessionsTyped
    <3>2. Older(used[t], IdleLimit + Slow) \in 0..(IdleLimit + Slow + 1)
      BY <1>0, <3>1, OlderBound
    <3>3. 0 \in 0..(IdleLimit + Slow + 1)
      BY TimesAssumption
    <3> QED BY <3>2, <3>3
  <2> QED BY <2>1 DEF Tick
<1>4. \A w \in Visitors :
        \/ visitor[w] = VisitorIdle /\ visitor'[w] = VisitorIdle
        \/ /\ visitor[w] \in Askings /\ visitor'[w] \in Askings
           /\ visitor'[w].op = visitor[w].op /\ visitor'[w].token = visitor[w].token
           /\ visitor'[w].since = visitor[w].since + 1
  <2> SUFFICES ASSUME NEW w \in Visitors, visitor[w] # VisitorIdle
               PROVE  /\ visitor[w] \in Askings /\ visitor'[w] \in Askings
                      /\ visitor'[w].op = visitor[w].op /\ visitor'[w].token = visitor[w].token
                      /\ visitor'[w].since = visitor[w].since + 1
    BY DEF Tick, VisitorIdle
  <2>1. visitor[w] \in Askings
    BY DEF SessionsInv, SessionsTyped
  <2>2. visitor[w].op # "idle"
    BY <2>1 DEF Askings
  <2>3. visitor'[w] = [visitor[w] EXCEPT !.since = visitor[w].since + 1]
    BY <2>2 DEF Tick
  <2>4. visitor[w].since \in 0..Slow /\ visitor[w].since < Slow
    BY <2>1, <2>2 DEF Askings, Tick
  <2>5. visitor[w].since + 1 \in 0..Slow
    BY <2>4, TimesAssumption
  <2> QED BY <2>1, <2>3, <2>5 DEF Askings
<1>5. visitor' \in [Visitors -> Askings \cup {VisitorIdle}]
  BY <1>4 DEF Tick
<1>6. /\ DOMAIN cache' \subseteq DOMAIN cache
      /\ \A t \in DOMAIN cache' : /\ cache'[t] \in Entry /\ cache[t].fresh \in Int
                                 /\ cache'[t].fresh = cache[t].fresh - 1
  <2>1. DOMAIN cache' \subseteq DOMAIN cache
    BY DEF Tick
  <2>2. ASSUME NEW t \in DOMAIN cache'
        PROVE  /\ cache'[t] \in Entry /\ cache[t].fresh \in Int
               /\ cache'[t].fresh = cache[t].fresh - 1
    <3>1. cache'[t] = [seen |-> cache[t].seen + 1, fresh |-> cache[t].fresh - 1] /\ cache[t].fresh > 1
      BY DEF Tick
    <3>2. cache[t].seen \in Nat /\ cache[t].fresh \in 1..TTL
      BY <2>1 DEF SessionsInv, SessionsTyped, Entry
    <3>3. cache[t].fresh - 1 \in 1..TTL /\ cache[t].seen + 1 \in Nat
      BY <3>1, <3>2, TimesAssumption
    <3> QED BY <3>1, <3>2, <3>3, TimesAssumption DEF Entry
  <2> QED BY <2>1, <2>2
<1>7. SessionsTyped'
  BY <1>1, <1>2, <1>3, <1>5, <1>6 DEF SessionsInv, SessionsTyped
<1>8. ASSUME NEW w \in Visitors
      PROVE  VisitorOK(w)'
  <2>1. CASE visitor'[w] = VisitorIdle
    BY <2>1 DEF VisitorOK, VisitorIdle
  <2>2. CASE visitor[w] \in Askings /\ visitor'[w] # VisitorIdle
    <3>1. VisitorOK(w)
      BY DEF SessionsInv
    <3>2. visitor[w].token \in Tokens /\ visitor[w].since \in Int
      BY <2>2, TimesAssumption DEF Askings
    <3> QED BY <1>1, <1>2, <1>4, <2>2, <3>1, <3>2, TimesAssumption DEF VisitorOK
  <2> QED BY <1>4, <2>1, <2>2
<1>9. StaleAtMostTTL'
  <2> SUFFICES ASSUME NEW t \in DOMAIN cache'
               PROVE  ended'[t] + cache'[t].fresh <= TTL
    BY DEF StaleAtMostTTL
  <2>1. t \in DOMAIN cache /\ t \in Tokens
    BY <1>6 DEF SessionsInv, SessionsTyped
  <2>2. ended[t] + cache[t].fresh <= TTL
    BY <2>1 DEF SessionsInv, StaleAtMostTTL
  <2> QED BY <1>2, <1>6, <2>1, <2>2, TimesAssumption
<1> QED BY <1>7, <1>8, <1>9 DEF SessionsInv

-----------------------------------------------------------------------------
\* The whole.

IInv == AccountsInv /\ SessionsInv

LEMMA InitHolds == ASSUME Init PROVE IInv
<1>1. PICK o \in Users :
        users = [u \in Users |-> IF u = o THEN [role |-> "owner", isActive |-> TRUE] ELSE NoUser]
  BY DEF Init, AccountsInit
<1>2. manager = [m \in Managers |-> ManagerIdle]
  BY DEF Init, AccountsInit
<1>3. AccountsTyped
  BY <1>1, <1>2, RolesAssumption DEF AccountsTyped, User
<1>4. Exclusive /\ \A m \in Managers : CountedOK(m) /\ KnownOK(m)
  BY <1>2 DEF Exclusive, Locks, CountedOK, KnownOK, ManagerIdle
<1>5. LastOwnerRemains
  BY <1>1 DEF LastOwnerRemains, ActiveOwner, OwnerRow
<1>6. DOMAIN sessions = {} /\ DOMAIN cache = {}
  BY SMT DEF Init
<1>7. SessionsTyped
  BY <1>6, TimesAssumption DEF Init, SessionsTyped
<1>8. \A v \in Visitors : VisitorOK(v)
  BY DEF Init, VisitorOK, VisitorIdle
<1>9. StaleAtMostTTL
  BY <1>6 DEF StaleAtMostTTL
<1> QED BY <1>3, <1>4, <1>5, <1>7, <1>8, <1>9 DEF IInv, AccountsInv, SessionsInv

\* The users screen's own steps, and the others that touch its requests.
LEMMA ManageKeeps ==
  ASSUME IInv, Remember, NEW m \in Managers, Manage(m)
  PROVE  IInv'
<1>1. AccountsInv'
  <2>1. AccountsInv
    BY DEF IInv
  <2>2. ASSUME NEW a \in Users, NEW u \in Users, NEW intent \in Intent, Authorise(m, a, u, intent)
        PROVE  AccountsInv'
    BY <2>1, <2>2, AuthoriseKeeps
  <2>3. ASSUME NEW u \in Users, LockOwner(m, u)
        PROVE  AccountsInv'
    BY <2>1, <2>3, LockOwnerKeeps
  <2> QED BY <2>1, <2>2, <2>3, AddUserKeeps, ReadTargetKeeps, CountOwnersKeeps, LockTargetKeeps,
             WriteKeeps, FailKeeps DEF Manage
<1>2. SessionsInv'
  BY UntouchedStep DEF IInv, Manage
<1> QED BY <1>1, <1>2 DEF IInv

LEMMA AccountsUntouched ==
  ASSUME AccountsInv, UNCHANGED accountVars
  PROVE  AccountsInv'
<1>1. UNCHANGED <<users, manager>>
  BY DEF accountVars
<1> QED BY <1>1 DEF AccountsInv, AccountsTyped, Exclusive, Locks, CountedOK, KnownOK,
                   LastOwnerRemains, ActiveOwner

LEMMA RestartKeepsAccounts ==
  ASSUME AccountsInv, Restart
  PROVE  AccountsInv'
<1>1. users' = users /\ manager' = [m \in Managers |-> ManagerIdle]
  BY DEF Restart
<1>2. \A m \in Managers : manager'[m].op = "idle"
  BY <1>1 DEF ManagerIdle
<1>3. AccountsTyped'
  BY <1>1 DEF AccountsInv, AccountsTyped
<1>4. LastOwnerRemains'
  BY <1>1 DEF AccountsInv, LastOwnerRemains, ActiveOwner
<1>5. Exclusive' /\ \A m \in Managers : KnownOK(m)' /\ CountedOK(m)'
  BY <1>2 DEF Exclusive, Locks, KnownOK, CountedOK
<1> QED BY <1>3, <1>4, <1>5 DEF AccountsInv

LEMMA BeginKeeps ==
  ASSUME IInv, Remember, NEW v \in Visitors, NEW t \in Tokens, Begin(v, t)
  PROVE  IInv'
<1>1. SessionsInv'
  <2>1. SessionsInv
    BY DEF IInv
  <2>2. ASSUME NEW u \in Users, SignIn(v, t, u)
        PROVE  SessionsInv'
    BY <2>1, <2>2, SignInKeeps
  <2> QED BY <2>1, <2>2, HitKeeps, ForgetKeeps, MissKeeps, SignOutKeeps DEF Begin
<1>2. UNCHANGED accountVars
  BY DEF Begin, SignIn, Hit, Forget, Miss, SignOut
<1> QED BY <1>1, <1>2, AccountsUntouched DEF IInv

LEMMA AnswerKeeps ==
  ASSUME IInv, Remember, NEW v \in Visitors, NEW t \in Tokens, Answer(v, t)
  PROVE  IInv'
<1>1. SessionsInv'
  BY CreateSessionKeeps, ReadRowKeeps, TouchRowKeeps, FillKeeps, RevokeSessionKeeps DEF Answer, IInv
<1>2. UNCHANGED accountVars
  BY DEF Answer, CreateSession, ReadRow, TouchRow, Fill, RevokeSession
<1> QED BY <1>1, <1>2, AccountsUntouched DEF IInv

LEMMA StepKeeps ==
  ASSUME IInv, [Next]_vars
  PROVE  IInv'
<1>1. CASE UNCHANGED vars
  BY <1>1 DEF vars, accountVars, sessionVars, IInv, AccountsInv, AccountsTyped, Exclusive, Locks,
     CountedOK, KnownOK, LastOwnerRemains, ActiveOwner, SessionsInv, SessionsTyped, VisitorOK,
     StaleAtMostTTL
<1>2. CASE Tick
  BY <1>2, TickKeeps, AccountsUntouched DEF IInv, Tick
<1>3. ASSUME NEW m \in Managers, Manage(m), Remember
      PROVE  IInv'
  BY <1>3, ManageKeeps
<1>4. ASSUME NEW m \in Managers, RevokeSessions(m), Remember
      PROVE  IInv'
  BY <1>4, RevokeKeeps, RevokeSessionsKeeps DEF IInv, RevokeSessions
<1>5. ASSUME NEW v \in Visitors, NEW t \in Tokens, Begin(v, t), Remember
      PROVE  IInv'
  BY <1>5, BeginKeeps
<1>6. ASSUME NEW v \in Visitors, NEW t \in Tokens, Answer(v, t), Remember
      PROVE  IInv'
  BY <1>6, AnswerKeeps
<1>7. ASSUME NEW v \in Visitors, Lost(v), Remember
      PROVE  IInv'
  BY <1>7, LostKeeps, AccountsUntouched DEF IInv, Lost
<1>8. CASE Restart /\ Remember
  BY <1>8, RestartKeeps, RestartKeepsAccounts DEF IInv
<1> QED BY <1>1, <1>2, <1>3, <1>4, <1>5, <1>6, <1>7, <1>8 DEF Next

-----------------------------------------------------------------------------
\* The results.

\* Accounts and sessions are always what the locks and the clock allow (users
\* screen, guard_last_owner, readSession): the invariant the others come from.
THEOREM AccountsAndSessions == Spec => []IInv
<1>1. Init => IInv
  BY InitHolds
<1>2. IInv /\ [Next]_vars => IInv'
  BY StepKeeps
<1> QED BY <1>1, <1>2, PTL DEF Spec

\* Accounts, rows, entries and requests keep their types (schema.ts, session.ts).
THEOREM AccountsTypeCorrect == Spec => []TypeOK
<1>1. IInv => TypeOK
  BY DEF IInv, AccountsInv, AccountsTyped, SessionsInv, SessionsTyped, TypeOK, Askings
<1> QED BY <1>1, AccountsAndSessions, PTL

\* However many owners demote and deactivate one another at once, an active owner
\* always remains (guard_last_owner).
THEOREM AnOwnerRemains == Spec => []LastOwnerRemains
<1>1. IInv => LastOwnerRemains
  BY DEF IInv, AccountsInv
<1> QED BY <1>1, AccountsAndSessions, PTL

\* The cache never answers for a session that ended a minute ago or more (readSession).
THEOREM StaleIsBounded == Spec => []StaleAtMostTTL
<1>1. IInv => StaleAtMostTTL
  BY DEF IInv, SessionsInv
<1> QED BY <1>1, AccountsAndSessions, PTL

\* Whoever is let in has a session within its lifetime that was alive a minute ago, or
\* when he came in (readSession).
THEOREM LetInsAreInTime == Spec => LetInInTime
<1> DEFINE P == \A t \in Tokens :
      /\ (\E v \in Visitors : Hit(v, t)) => sessions[t].age <= Lifetime /\ ended[t] < TTL
      /\ (\E v \in Visitors : Fill(v, t)) =>
           sessions[t].age <= Lifetime + Slow /\ ended[t] <= Slow
<1>1. IInv => P
  <2> SUFFICES ASSUME IInv, NEW t \in Tokens, NEW v \in Visitors
               PROVE  /\ Hit(v, t) => sessions[t].age <= Lifetime /\ ended[t] < TTL
                      /\ Fill(v, t) => sessions[t].age <= Lifetime + Slow /\ ended[t] <= Slow
    OBVIOUS
  <2>1. ended[t] \in Int
    BY TimesAssumption DEF IInv, SessionsInv, SessionsTyped
  <2>2. ASSUME Hit(v, t) PROVE sessions[t].age <= Lifetime /\ ended[t] < TTL
    <3>1. t \in DOMAIN cache /\ sessions[t].age <= Lifetime
      BY <2>2 DEF Hit, Cached
    <3>2. cache[t].fresh \in 1..TTL /\ ended[t] + cache[t].fresh <= TTL
      BY <3>1 DEF IInv, SessionsInv, SessionsTyped, Entry, StaleAtMostTTL
    <3> QED BY <2>1, <3>1, <3>2, TimesAssumption
  <2>3. ASSUME Fill(v, t) PROVE sessions[t].age <= Lifetime + Slow /\ ended[t] <= Slow
    <3>1. visitor[v] \in Askings /\ visitor[v].op = "fill" /\ visitor[v].token = t
      BY <2>3 DEF Fill, IInv, SessionsInv, SessionsTyped, AtWork, VisitorIdle
    <3>2. VisitorOK(v)
      BY DEF IInv, SessionsInv
    <3>3. /\ t \in DOMAIN sessions /\ ended[t] <= visitor[v].since
          /\ sessions[t].age <= Lifetime + visitor[v].since
      BY <3>1, <3>2 DEF VisitorOK
    <3>4. visitor[v].since \in 0..Slow
      BY <3>1 DEF Askings
    <3>5. sessions[t].age \in Int
      BY <3>3, TimesAssumption DEF IInv, SessionsInv, SessionsTyped, Session
    <3> QED BY <2>1, <3>3, <3>4, <3>5, TimesAssumption
  <2> QED BY <2>2, <2>3
<1>2. IInv => [P]_vars
  BY <1>1
<1> HIDE DEF P
<1>3. Spec => [][P]_vars
  BY <1>2, AccountsAndSessions, PTL
<1> QED BY <1>3 DEF LetInInTime, P

-----------------------------------------------------------------------------
(* A session in use is kept. *)

Filling(v, t) == visitor[v].op = "fill" /\ visitor[v].token = t

\* last_seen_at is no older than the last use, an interval and a cached answer; and
\* what is about to let somebody in, an entry or a request, is on a row seen lately.
UseInv ==
  /\ \A t \in DOMAIN sessions : sessions[t].seen <= used[t] + Touch + TTL
  /\ \A t \in DOMAIN cache : sessions[t].seen + cache[t].fresh <= Touch + TTL
  /\ \A v \in Visitors, t \in DOMAIN sessions :
       Filling(v, t) => sessions[t].seen <= Touch + visitor[v].since

\* A step that is not a tick: a row is seen anew or as it was, a use has an entry or a
\* request behind it, an entry comes of a request, and a request of a row seen lately.
LEMMA UseStep ==
  ASSUME IInv, IInv', UseInv, Slow <= TTL,
         \A t \in DOMAIN sessions' :
           (t \in DOMAIN sessions /\ sessions'[t].seen = sessions[t].seen) \/ sessions'[t].seen <= TTL,
         \A t \in DOMAIN sessions :
           \/ sessions'[t].seen <= TTL
           \/ used'[t] = used[t]
           \/ t \in DOMAIN cache
           \/ \E v \in Visitors : Filling(v, t),
         \A t \in DOMAIN cache' :
           \/ t \in DOMAIN cache /\ cache'[t] = cache[t]
           \/ \E v \in Visitors : Filling(v, t) /\ cache'[t].fresh = TTL - visitor[v].since,
         \A v \in Visitors, t \in DOMAIN sessions' :
           Filling(v, t)' => \/ visitor'[v] = visitor[v]
                             \/ sessions'[t].seen <= Touch + visitor'[v].since
  PROVE  UseInv'
<1>1. /\ TTL \in Nat /\ Touch \in Nat /\ Slow \in Nat /\ TTL <= Touch
  BY TimesAssumption
<1>2. /\ \A t \in DOMAIN sessions : sessions[t].seen \in Int /\ used[t] \in Nat
      /\ \A t \in DOMAIN sessions' : sessions'[t].seen \in Int /\ used'[t] \in Nat
  BY TimesAssumption DEF IInv, SessionsInv, SessionsTyped, Session
<1>3. /\ DOMAIN cache \subseteq DOMAIN sessions /\ DOMAIN cache' \subseteq DOMAIN sessions'
      /\ \A t \in DOMAIN cache : cache[t].fresh \in 1..TTL
      /\ \A t \in DOMAIN cache' : cache'[t].fresh \in 1..TTL
  BY DEF IInv, SessionsInv, SessionsTyped, Entry
<1>4. /\ \A v \in Visitors, t \in DOMAIN sessions :
           Filling(v, t) => visitor[v].since \in 0..Slow
      /\ \A v \in Visitors, t \in DOMAIN sessions' :
           Filling(v, t)' => visitor'[v].since \in 0..Slow
  BY DEF IInv, SessionsInv, SessionsTyped, Filling, Askings, VisitorIdle
<1>5. ASSUME NEW t \in DOMAIN sessions'
      PROVE  sessions'[t].seen <= used'[t] + Touch + TTL
  <2>1. CASE sessions'[t].seen <= TTL
    BY <2>1, <1>1, <1>2
  <2>2. CASE t \in DOMAIN sessions /\ sessions'[t].seen = sessions[t].seen
    <3>1. CASE used'[t] = used[t]
      BY <2>2, <3>1, <1>2 DEF UseInv
    <3>2. CASE t \in DOMAIN cache
      <4>1. sessions[t].seen + cache[t].fresh <= Touch + TTL
        BY <3>2 DEF UseInv
      <4> QED BY <4>1, <2>2, <3>2, <1>1, <1>2, <1>3
    <3>3. ASSUME NEW v \in Visitors, Filling(v, t)
          PROVE  sessions'[t].seen <= used'[t] + Touch + TTL
      <4>1. sessions[t].seen <= Touch + visitor[v].since /\ visitor[v].since \in 0..Slow
        BY <2>2, <3>3, <1>4 DEF UseInv
      <4> QED BY <4>1, <2>2, <1>1, <1>2
    <3> QED BY <2>1, <2>2, <3>1, <3>2, <3>3
  <2> QED BY <2>1, <2>2
<1>6. ASSUME NEW t \in DOMAIN cache'
      PROVE  sessions'[t].seen + cache'[t].fresh <= Touch + TTL
  <2>1. t \in DOMAIN sessions' /\ cache'[t].fresh \in 1..TTL /\ sessions'[t].seen \in Int
    BY <1>2, <1>3
  <2>2. CASE sessions'[t].seen <= TTL
    BY <2>1, <2>2, <1>1
  <2>3. CASE t \in DOMAIN sessions /\ sessions'[t].seen = sessions[t].seen
    <3>1. CASE t \in DOMAIN cache /\ cache'[t] = cache[t]
      BY <2>3, <3>1 DEF UseInv
    <3>2. ASSUME NEW v \in Visitors, Filling(v, t), cache'[t].fresh = TTL - visitor[v].since
          PROVE  sessions'[t].seen + cache'[t].fresh <= Touch + TTL
      <4>1. sessions[t].seen <= Touch + visitor[v].since /\ visitor[v].since \in 0..Slow
        BY <2>3, <3>2, <1>4 DEF UseInv
      <4> QED BY <4>1, <2>1, <2>3, <3>2, <1>1
    <3> QED BY <3>1, <3>2
  <2> QED BY <2>1, <2>2, <2>3
<1>7. ASSUME NEW v \in Visitors, NEW t \in DOMAIN sessions', Filling(v, t)'
      PROVE  sessions'[t].seen <= Touch + visitor'[v].since
  <2>1. visitor'[v].since \in 0..Slow /\ sessions'[t].seen \in Int
    BY <1>2, <1>4, <1>7
  <2>2. CASE sessions'[t].seen <= TTL
    BY <2>1, <2>2, <1>1
  <2>3. CASE t \in DOMAIN sessions /\ sessions'[t].seen = sessions[t].seen
    <3>1. CASE visitor'[v] = visitor[v]
      <4>1. Filling(v, t)
        BY <3>1, <1>7 DEF Filling
      <4> QED BY <4>1, <2>3, <3>1 DEF UseInv
    <3> QED BY <2>3, <3>1, <1>7
  <2> QED BY <2>2, <2>3
<1> QED BY <1>5, <1>6, <1>7 DEF UseInv

LEMMA TickKeepsUse ==
  ASSUME IInv, UseInv, Tick
  PROVE  UseInv'
<1>1. Lifetime + Slow \in Nat /\ IdleLimit + Slow \in Nat /\ TTL \in Nat /\ Touch \in Nat /\ Slow \in Nat
  BY TimesAssumption
<1>2. /\ DOMAIN sessions' = DOMAIN sessions
      /\ \A t \in DOMAIN sessions :
           /\ sessions[t].seen \in 0..(IdleLimit + Slow + 1)
           /\ sessions'[t].seen = Older(sessions[t].seen, IdleLimit + Slow)
  <2>1. DOMAIN sessions' = DOMAIN sessions
    BY DEF Tick
  <2>2. ASSUME NEW t \in DOMAIN sessions
        PROVE  /\ sessions[t].seen \in 0..(IdleLimit + Slow + 1)
               /\ sessions'[t].seen = Older(sessions[t].seen, IdleLimit + Slow)
    <3>1. sessions[t] \in Session
      BY DEF IInv, SessionsInv, SessionsTyped
    <3> DEFINE age == Older(sessions[t].age, Lifetime + Slow)
               seen == Older(sessions[t].seen, IdleLimit + Slow)
    <3>2. sessions'[t] = [[sessions[t] EXCEPT !.age = age] EXCEPT !.seen = seen]
      BY DEF Tick
    <3> HIDE DEF age, seen
    <3>3. sessions'[t].seen = seen /\ sessions[t].seen \in 0..(IdleLimit + Slow + 1)
      BY <3>1, <3>2 DEF Session
    <3> QED BY <3>3 DEF seen
  <2> QED BY <2>1, <2>2
<1>3. \A t \in DOMAIN sessions : /\ used[t] \in 0..(IdleLimit + Slow + 1)
                                 /\ used'[t] = Older(used[t], IdleLimit + Slow)
  BY DEF IInv, SessionsInv, SessionsTyped, Tick, Exists
<1>4. \A t \in DOMAIN sessions : sessions'[t].seen <= sessions[t].seen + 1 /\ sessions'[t].seen \in Int
  <2> SUFFICES ASSUME NEW t \in DOMAIN sessions
               PROVE  sessions'[t].seen <= sessions[t].seen + 1 /\ sessions'[t].seen \in Int
    OBVIOUS
  <2>1. PICK seen : seen = sessions[t].seen
    OBVIOUS
  <2>2. PICK limit : limit = IdleLimit + Slow
    OBVIOUS
  <2>3. limit \in Nat /\ seen \in 0..(limit + 1) /\ sessions'[t].seen = Older(seen, limit)
    BY <2>1, <2>2, <1>1, <1>2
  <2>4. Older(seen, limit) \in 0..(limit + 1) /\ Older(seen, limit) <= seen + 1
    BY <2>3, OlderBound
  <2> QED BY <2>1, <2>3, <2>4
<1>5. ASSUME NEW t \in DOMAIN sessions
      PROVE  sessions'[t].seen <= used'[t] + Touch + TTL
  <2>1. sessions[t].seen <= used[t] + Touch + TTL
    BY DEF UseInv
  <2> QED BY <2>1, <1>1, <1>2, <1>3 DEF Older
<1>6. ASSUME NEW t \in DOMAIN cache'
      PROVE  sessions'[t].seen + cache'[t].fresh <= Touch + TTL
  <2>1. t \in DOMAIN cache /\ cache'[t].fresh = cache[t].fresh - 1
    BY DEF Tick
  <2>2. t \in DOMAIN sessions /\ cache[t].fresh \in Int /\ sessions[t].seen \in Int
    BY <2>1, <1>1, <1>2, TimesAssumption DEF IInv, SessionsInv, SessionsTyped, Entry
  <2>3. sessions[t].seen + cache[t].fresh <= Touch + TTL
    BY <2>1 DEF UseInv
  <2> QED BY <2>1, <2>2, <2>3, <1>1, <1>4
<1>7. ASSUME NEW v \in Visitors, NEW t \in DOMAIN sessions, Filling(v, t)'
      PROVE  sessions'[t].seen <= Touch + visitor'[v].since
  <2>1. visitor'[v] = IF visitor[v].op = "idle" THEN VisitorIdle
                      ELSE [visitor[v] EXCEPT !.since = visitor[v].since + 1]
    BY DEF Tick
  <2>2. visitor[v] # VisitorIdle /\ visitor[v].op # "idle"
    BY <2>1, <1>7 DEF Filling, VisitorIdle
  <2>3. visitor[v] \in Askings
    BY <2>2 DEF IInv, SessionsInv, SessionsTyped
  <2>4. /\ visitor'[v].since = visitor[v].since + 1 /\ visitor[v].since \in Int
        /\ visitor'[v].op = visitor[v].op /\ visitor'[v].token = visitor[v].token
    BY <2>1, <2>2, <2>3, <1>1 DEF Askings
  <2>5. Filling(v, t)
    BY <2>4, <1>7 DEF Filling
  <2>6. sessions[t].seen <= Touch + visitor[v].since
    BY <2>5 DEF UseInv
  <2>7. sessions[t].seen <= Touch + visitor[v].since /\ sessions[t].seen \in Int
    BY <2>6, <1>1, <1>2
  <2> QED BY <2>4, <2>7, <1>1, <1>4
<1> QED BY <1>2, <1>5, <1>6, <1>7 DEF UseInv

\* A step that writes no row, no entry and no use, and fills nothing new.
LEMMA OtherKeepsUse ==
  ASSUME IInv, IInv', UseInv, Slow <= TTL, used' = used,
         DOMAIN sessions' = DOMAIN sessions,
         \A t \in DOMAIN sessions : sessions'[t].seen = sessions[t].seen,
         \A t \in DOMAIN cache' : t \in DOMAIN cache /\ cache'[t] = cache[t],
         \A v \in Visitors : visitor'[v] = visitor[v] \/ visitor'[v].op # "fill"
  PROVE  UseInv'
<1>1. \A t \in DOMAIN sessions' :
        (t \in DOMAIN sessions /\ sessions'[t].seen = sessions[t].seen) \/ sessions'[t].seen <= TTL
  OBVIOUS
<1>2. \A v \in Visitors, t \in DOMAIN sessions' :
        Filling(v, t)' => visitor'[v] = visitor[v]
  BY DEF Filling
<1> QED BY <1>1, <1>2, UseStep

LEMMA WithoutLess ==
  ASSUME NEW f, NEW x
  PROVE  \A z \in DOMAIN Without(f, x) : z \in DOMAIN f /\ Without(f, x)[z] = f[z]
BY DEF Without

LEMMA GoingTo ==
  ASSUME IInv, NEW v \in Visitors, NEW request, Going(v, request)
  PROVE  visitor'[v] = request /\ \A w \in Visitors \ {v} : visitor'[w] = visitor[w]
BY DEF IInv, SessionsInv, SessionsTyped, Going

LEMMA BeginKeepsUse ==
  ASSUME IInv, IInv', UseInv, Slow <= TTL, NEW v \in Visitors, NEW t \in Tokens, Begin(v, t)
  PROVE  UseInv'
<1>1. ASSUME NEW op, NEW u, op # "fill", Going(v, Asking(op, t, u))
      PROVE  \A w \in Visitors : visitor'[w] = visitor[w] \/ visitor'[w].op # "fill"
  <2>1. Asking(op, t, u).op = op
    BY DEF Asking
  <2> QED BY <2>1, <1>1, GoingTo
<1>2. ASSUME NEW u \in Users, SignIn(v, t, u) PROVE UseInv'
  <2>1. "signIn" # "fill"
    OBVIOUS
  <2>2. \A w \in Visitors : visitor'[w] = visitor[w] \/ visitor'[w].op # "fill"
    BY <2>1, <1>1, <1>2 DEF SignIn
  <2> QED BY <2>2, <1>2, OtherKeepsUse DEF SignIn
<1>3. CASE Miss(v, t)
  <2>1. "read" # "fill"
    OBVIOUS
  <2>2. \A w \in Visitors : visitor'[w] = visitor[w] \/ visitor'[w].op # "fill"
    BY <2>1, <1>1, <1>3 DEF Miss
  <2> QED BY <2>2, <1>3, OtherKeepsUse DEF Miss
<1>4. CASE SignOut(v, t)
  <2>1. "signOut" # "fill"
    OBVIOUS
  <2>2. \A w \in Visitors : visitor'[w] = visitor[w] \/ visitor'[w].op # "fill"
    BY <2>1, <1>1, <1>4 DEF SignOut
  <2>3. \A c \in DOMAIN cache' : c \in DOMAIN cache /\ cache'[c] = cache[c]
    BY <1>4, WithoutLess DEF SignOut
  <2> QED BY <2>2, <2>3, <1>4, OtherKeepsUse DEF SignOut
<1>5. CASE Forget(v, t)
  <2>1. \A c \in DOMAIN cache' : c \in DOMAIN cache /\ cache'[c] = cache[c]
    BY <1>5, WithoutLess DEF Forget
  <2> QED BY <2>1, <1>5, OtherKeepsUse DEF Forget
<1>6. CASE Hit(v, t)
  <2>1. sessions' = sessions /\ cache' = cache /\ visitor' = visitor
    BY <1>6 DEF Hit
  <2>2. \A c \in DOMAIN sessions : used'[c] = used[c] \/ c \in DOMAIN cache
    BY <1>6 DEF Hit, Cached, IInv, SessionsInv, SessionsTyped
  <2> QED BY <2>1, <2>2, UseStep
<1> QED BY <1>2, <1>3, <1>4, <1>5, <1>6 DEF Begin

LEMMA AnswerKeepsUse ==
  ASSUME IInv, IInv', UseInv, Slow <= TTL, NEW v \in Visitors, NEW t \in Tokens, Answer(v, t)
  PROVE  UseInv'
<1>1. TTL \in Nat /\ Touch \in Nat /\ Slow \in Nat
  BY TimesAssumption
<1>2. VisitorIdle.op # "fill"
  BY DEF VisitorIdle
<1>3. ASSUME Going(v, VisitorIdle)
      PROVE  \A w \in Visitors : visitor'[w] = visitor[w] \/ visitor'[w].op # "fill"
  BY <1>2, <1>3, GoingTo
<1>4. \A w \in Visitors : visitor[w].op \in {"read", "touch", "fill"} =>
        visitor[w] \in Askings /\ visitor[w].token \in DOMAIN sessions
  <2> SUFFICES ASSUME NEW w \in Visitors, visitor[w].op \in {"read", "touch", "fill"}
               PROVE  visitor[w] \in Askings /\ visitor[w].token \in DOMAIN sessions
    OBVIOUS
  <2>1. visitor[w] # VisitorIdle
    BY DEF VisitorIdle
  <2> QED BY <2>1 DEF IInv, SessionsInv, SessionsTyped, VisitorOK
<1>5. CASE CreateSession(v, t)
  <2>1. /\ DOMAIN sessions' = DOMAIN sessions \cup {t} /\ sessions'[t].seen = 0
        /\ \A c \in DOMAIN sessions \ {t} : sessions'[c] = sessions[c]
    BY <1>5 DEF CreateSession, With
  <2>2. \A c \in DOMAIN sessions' :
          (c \in DOMAIN sessions /\ sessions'[c].seen = sessions[c].seen) \/ sessions'[c].seen <= TTL
    BY <2>1, <1>1
  <2>3. \A c \in Tokens \ {t} : used'[c] = used[c]
    BY <1>5 DEF CreateSession, IInv, SessionsInv, SessionsTyped
  <2>4. \A c \in DOMAIN sessions : sessions'[c].seen <= TTL \/ used'[c] = used[c]
    BY <2>1, <2>3, <1>1 DEF IInv, SessionsInv, SessionsTyped
  <2>5. \A c \in DOMAIN cache' : c \in DOMAIN cache /\ cache'[c] = cache[c]
    BY <1>5 DEF CreateSession
  <2>6. \A w \in Visitors, c \in DOMAIN sessions' :
          Filling(w, c)' => visitor'[w] = visitor[w]
    BY <1>3, <1>5 DEF CreateSession, Filling
  <2> QED BY <2>2, <2>4, <2>5, <2>6, UseStep
<1>6. CASE ReadRow(v, t)
  <2>1. visitor[v].op = "read" /\ visitor[v].token = t
    BY <1>6 DEF ReadRow, AtWork
  <2>2. visitor[v] \in Askings /\ t \in DOMAIN sessions
    BY <2>1, <1>4
  <2>3. PICK op : op = IF StaleSeen(t, visitor[v].since) THEN "touch" ELSE "fill"
    OBVIOUS
  <2>4. PICK request : request = [visitor[v] EXCEPT !.op = op]
    OBVIOUS
  <2>5. request.op = op /\ request.token = t /\ request.since = visitor[v].since
    BY <2>1, <2>2, <2>4 DEF Askings
  <2>6. Going(v, VisitorIdle) \/ Going(v, request)
    BY <1>6, <2>3, <2>4 DEF ReadRow
  <2>7. sessions' = sessions /\ cache' = cache /\ used' = used
    BY <1>6 DEF ReadRow
  <2>8. \A w \in Visitors, c \in DOMAIN sessions :
          Filling(w, c)' => \/ visitor'[w] = visitor[w]
                            \/ sessions[c].seen <= Touch + visitor'[w].since
    <3>1. CASE Going(v, VisitorIdle)
      BY <3>1, <1>3 DEF Filling
    <3>2. CASE Going(v, request)
      <4>1. visitor'[v] = request /\ \A w \in Visitors \ {v} : visitor'[w] = visitor[w]
        BY <3>2, GoingTo
      <4>2. ASSUME NEW c \in DOMAIN sessions, Filling(v, c)'
            PROVE  sessions[c].seen <= Touch + visitor'[v].since
        <5>1. c = t /\ op = "fill"
          BY <4>1, <4>2, <2>5 DEF Filling
        <5>2. ~StaleSeen(t, visitor[v].since)
          <6>1. "touch" # "fill"
            OBVIOUS
          <6> QED BY <6>1, <5>1, <2>3
        <5>3. sessions[t].seen \in Int /\ visitor[v].since \in Int
          BY <2>2, <1>1, TimesAssumption DEF IInv, SessionsInv, SessionsTyped, Session, Askings
        <5>4. sessions[t].seen - visitor[v].since <= Touch
          BY <5>2, <5>3, <1>1 DEF StaleSeen
        <5> QED BY <5>1, <5>3, <5>4, <4>1, <2>5, <1>1
      <4> QED BY <4>1, <4>2
    <3> QED BY <2>6, <3>1, <3>2
  <2> QED BY <2>7, <2>8, UseStep
<1>7. CASE TouchRow(v, t)
  <2>1. visitor[v].op = "touch" /\ visitor[v].token = t
    BY <1>7 DEF TouchRow, AtWork
  <2>2. visitor[v] \in Askings /\ t \in DOMAIN sessions
    BY <2>1, <1>4
  <2>3. PICK since : since = visitor[v].since
    OBVIOUS
  <2>4. since \in 0..Slow
    BY <2>2, <2>3 DEF Askings
  <2>5. sessions[t] \in Session
    BY <2>2 DEF IInv, SessionsInv, SessionsTyped
  <2>6. PICK row : row = [sessions[t] EXCEPT !.seen = since]
    OBVIOUS
  <2>7. row.seen = since
    BY <2>5, <2>6 DEF Session
  <2>8. sessions' = [sessions EXCEPT ![t] = row]
    BY <1>7, <2>3, <2>6 DEF TouchRow
  <2>9. /\ DOMAIN sessions' = DOMAIN sessions /\ sessions'[t].seen = since
        /\ \A c \in DOMAIN sessions \ {t} : sessions'[c] = sessions[c]
    BY <2>2, <2>7, <2>8
  <2>10. \A c \in DOMAIN sessions' :
           (c \in DOMAIN sessions /\ sessions'[c].seen = sessions[c].seen) \/ sessions'[c].seen <= TTL
    BY <2>4, <2>9, <1>1
  <2>11. PICK request : request = [visitor[v] EXCEPT !.op = "fill"]
    OBVIOUS
  <2>12. request.token = t /\ request.since = since
    BY <2>1, <2>2, <2>3, <2>11 DEF Askings
  <2>13. Going(v, request) /\ cache' = cache /\ used' = used
    BY <1>7, <2>11 DEF TouchRow
  <2>14. visitor'[v] = request /\ \A w \in Visitors \ {v} : visitor'[w] = visitor[w]
    BY <2>13, GoingTo
  <2>15. ASSUME NEW w \in Visitors, NEW c \in DOMAIN sessions', Filling(w, c)'
         PROVE  visitor'[w] = visitor[w] \/ sessions'[c].seen <= Touch + visitor'[w].since
    <3> SUFFICES ASSUME w = v PROVE sessions'[c].seen <= Touch + visitor'[w].since
      BY <2>14
    <3>1. c = t
      BY <2>12, <2>14, <2>15 DEF Filling
    <3> QED BY <3>1, <2>4, <2>9, <2>12, <2>14, <1>1
  <2>16. \A c \in DOMAIN sessions : used'[c] = used[c]
    BY <2>13
  <2>17. \A c \in DOMAIN cache' : c \in DOMAIN cache /\ cache'[c] = cache[c]
    BY <2>13
  <2> QED BY <2>10, <2>15, <2>16, <2>17, UseStep
<1>8. CASE Fill(v, t)
  <2>1. visitor[v].op = "fill" /\ visitor[v].token = t
    BY <1>8 DEF Fill, AtWork
  <2>2. visitor[v] \in Askings /\ t \in DOMAIN sessions
    BY <2>1, <1>4
  <2>3. PICK since : since = visitor[v].since
    OBVIOUS
  <2>4. since \in 0..Slow
    BY <2>2, <2>3 DEF Askings
  <2>5. sessions' = sessions
    BY <1>8 DEF Fill
  <2>6. \A c \in DOMAIN sessions : used'[c] = used[c] \/ Filling(v, c)
    BY <1>8, <2>1 DEF Fill, Filling, IInv, SessionsInv, SessionsTyped
  <2>7. PICK entry : entry = [seen |-> since, fresh |-> FreshFor(since)]
    OBVIOUS
  <2>8. entry.fresh > 0 => entry.fresh = TTL - since
    BY <2>4, <2>7, <1>1 DEF FreshFor
  <2>9. cache' = IF entry.fresh > 0 THEN With(cache, t, entry) ELSE Without(cache, t)
    BY <1>8, <2>3, <2>7 DEF Fill
  <2>10. ASSUME NEW c \in DOMAIN cache'
         PROVE  \/ c \in DOMAIN cache /\ cache'[c] = cache[c]
                \/ Filling(v, c) /\ cache'[c].fresh = TTL - visitor[v].since
    <3>1. CASE entry.fresh > 0
      <4>1. cache' = With(cache, t, entry)
        BY <3>1, <2>9
      <4>2. /\ DOMAIN With(cache, t, entry) = DOMAIN cache \cup {t}
            /\ \A z \in DOMAIN cache \cup {t} :
                 With(cache, t, entry)[z] = IF z = t THEN entry ELSE cache[z]
        BY DEF With
      <4> QED BY <4>1, <4>2, <3>1, <2>1, <2>3, <2>8 DEF Filling
    <3>2. CASE ~(entry.fresh > 0)
      BY <3>2, <2>9, <2>10, WithoutLess
    <3> QED BY <3>1, <3>2
  <2>11. \A w \in Visitors, c \in DOMAIN sessions' :
           Filling(w, c)' => visitor'[w] = visitor[w]
    BY <1>3, <1>8 DEF Fill, Filling
  <2>12. \A c \in DOMAIN cache' :
           \/ c \in DOMAIN cache /\ cache'[c] = cache[c]
           \/ \E w \in Visitors : Filling(w, c) /\ cache'[c].fresh = TTL - visitor[w].since
    BY <2>10
  <2>13. \A c \in DOMAIN sessions : used'[c] = used[c] \/ \E w \in Visitors : Filling(w, c)
    BY <2>6
  <2> QED BY <2>5, <2>11, <2>12, <2>13, UseStep
<1>9. CASE RevokeSession(v, t)
  <2>1. visitor[v].op = "signOut" /\ visitor[v].token = t
    BY <1>9 DEF RevokeSession, AtWork
  <2>2. t \in DOMAIN sessions
    BY <2>1 DEF IInv, SessionsInv, VisitorOK
  <2>3. sessions[t] \in Session
    BY <2>2 DEF IInv, SessionsInv, SessionsTyped
  <2>4. PICK row : row = [sessions[t] EXCEPT !.revoked = TRUE]
    OBVIOUS
  <2>5. row.seen = sessions[t].seen
    BY <2>3, <2>4 DEF Session
  <2>6. sessions' = [sessions EXCEPT ![t] = row]
    BY <1>9, <2>4 DEF RevokeSession
  <2>7. DOMAIN sessions' = DOMAIN sessions
          /\ \A c \in DOMAIN sessions : sessions'[c].seen = sessions[c].seen
    BY <2>5, <2>6
  <2>8. Going(v, VisitorIdle) /\ cache' = cache /\ used' = used
    BY <1>9 DEF RevokeSession
  <2>9. \A c \in DOMAIN cache' : c \in DOMAIN cache /\ cache'[c] = cache[c]
    BY <2>8
  <2>10. \A w \in Visitors : visitor'[w] = visitor[w] \/ visitor'[w].op # "fill"
    BY <2>8, <1>3
  <2> QED BY <2>7, <2>8, <2>9, <2>10, OtherKeepsUse
<1> QED BY <1>5, <1>6, <1>7, <1>8, <1>9 DEF Answer

LEMMA StepKeepsUse ==
  ASSUME IInv, IInv', UseInv, Slow <= TTL, [Next]_vars
  PROVE  UseInv'
<1>1. CASE UNCHANGED vars
  BY <1>1 DEF vars, sessionVars, UseInv, Filling
<1>2. ASSUME NEW m \in Managers, Manage(m) PROVE UseInv'
  <2>1. sessions' = sessions /\ cache' = cache /\ visitor' = visitor /\ used' = used
    BY <1>2 DEF Manage, sessionVars
  <2> QED BY <2>1 DEF UseInv, Filling
<1>3. ASSUME NEW m \in Managers, RevokeSessions(m) PROVE UseInv'
  <2>1. DOMAIN sessions' = DOMAIN sessions /\ cache' = cache /\ visitor' = visitor /\ used' = used
    BY <1>3 DEF RevokeSessions
  <2>2. ASSUME NEW c \in DOMAIN sessions PROVE sessions'[c].seen = sessions[c].seen
    <3>1. sessions[c] \in Session
      BY DEF IInv, SessionsInv, SessionsTyped
    <3>2. sessions'[c] = sessions[c] \/ sessions'[c] = [sessions[c] EXCEPT !.revoked = TRUE]
      BY <1>3 DEF RevokeSessions
    <3> QED BY <3>1, <3>2 DEF Session
  <2>3. \A c \in DOMAIN cache' : c \in DOMAIN cache /\ cache'[c] = cache[c]
    BY <2>1
  <2>4. \A w \in Visitors : visitor'[w] = visitor[w]
    BY <2>1
  <2> QED BY <2>1, <2>2, <2>3, <2>4, OtherKeepsUse
<1>4. ASSUME NEW v \in Visitors, Lost(v) PROVE UseInv'
  <2>1. sessions' = sessions /\ cache' = cache /\ used' = used /\ Going(v, VisitorIdle)
    BY <1>4 DEF Lost
  <2>2. \A w \in Visitors : visitor'[w] = visitor[w] \/ visitor'[w].op # "fill"
    BY <2>1, GoingTo DEF VisitorIdle
  <2>3. \A c \in DOMAIN cache' : c \in DOMAIN cache /\ cache'[c] = cache[c]
    BY <2>1
  <2> QED BY <2>1, <2>2, <2>3, OtherKeepsUse
<1>5. CASE Restart
  <2>1. sessions' = sessions /\ used' = used
    BY <1>5 DEF Restart
  <2>2. DOMAIN cache' = {}
    BY <1>5, SMT DEF Restart
  <2>3. \A w \in Visitors : visitor'[w].op # "fill"
    BY <1>5 DEF Restart, VisitorIdle
  <2> QED BY <2>1, <2>2, <2>3, OtherKeepsUse
<1> QED BY <1>1, <1>2, <1>3, <1>4, <1>5, BeginKeepsUse, AnswerKeepsUse, TickKeepsUse DEF Next

\* As long as queries take no longer than an entry lives, a session in use is never
\* refused as idle (readSession's TOUCH_INTERVAL_MS and CACHE_TTL_MS).
THEOREM InUseIsKept == Slow <= TTL => (Spec => []UseKeepsAlive)
<1> SUFFICES ASSUME Slow <= TTL PROVE Spec => []UseKeepsAlive
  OBVIOUS
<1>1. Init => UseInv
  <2> SUFFICES ASSUME Init PROVE UseInv
    OBVIOUS
  <2>1. DOMAIN sessions = {} /\ DOMAIN cache = {}
    BY SMT DEF Init
  <2> QED BY <2>1 DEF UseInv
<1>2. IInv /\ IInv' /\ UseInv /\ [Next]_vars => UseInv'
  BY StepKeepsUse
<1>3. IInv /\ UseInv => UseKeepsAlive
  <2> SUFFICES ASSUME IInv, UseInv, NEW t \in DOMAIN sessions, used[t] + Touch + TTL <= IdleLimit
               PROVE  sessions[t].seen <= IdleLimit
    BY DEF UseKeepsAlive
  <2>1. sessions[t].seen \in Int /\ used[t] \in Int /\ Touch \in Int /\ TTL \in Int
          /\ IdleLimit \in Int
    BY TimesAssumption DEF IInv, SessionsInv, SessionsTyped, Session
  <2>2. sessions[t].seen <= used[t] + Touch + TTL
    BY DEF UseInv
  <2> QED BY <2>1, <2>2
<1> QED BY <1>1, <1>2, <1>3, AccountsAndSessions, PTL DEF Spec
=============================================================================
