----------------------------- MODULE UserSessions -----------------------------
(***************************************************************************)
(* Users on the agents of a zone (agent/static/user_service.cpp): WebSocket*)
(* sessions, the map `connections` that says which session is a user's, the*)
(* record of the user on Redis, kicks from one agent to another, and the   *)
(* role a user has selected, which is online on some logic server.         *)
(*                                                                         *)
(* poseidon gives each session one fiber, which handles its events in the  *)
(* order they came, the close event last.  That fiber waits for Redis, for *)
(* other agents, for a monitor and for logic servers; meanwhile the user   *)
(* may be back with another session, whose fiber uses the same entry of    *)
(* `connections`.  Where a fiber that has an answer only asks the next      *)
(* question, both are one action.                                          *)
(***************************************************************************)
EXTENDS Naturals, FiniteSets

CONSTANTS
  Agents,       \* agent processes
  Logics,       \* logic processes
  Users,        \* names of users
  Roles,        \* role IDs
  Sessions,     \* the successive sessions (a bound), numbers
  MaxRoles,     \* max_number_of_roles_per_user
  MaxRequests,  \* requests of clients (a bound)
  Acts,         \* what happens in this instance
  None          \* nil

ASSUME UsersAssumption ==
  /\ Sessions \subseteq Nat /\ MaxRoles \in Nat /\ MaxRequests \in Nat
  /\ None \notin Agents \cup Logics \cup Users \cup Roles \cup Sessions
  /\ Agents \cap Sessions = {}
  /\ Acts \subseteq {"ping_timeout", "lost", "reorder", "check_role", "agent_crash"}

VARIABLES
  sess,      \* sessions: of which agent and user, and where in its life
  conn,      \* agents, users: the entry of `connections`, or None
  users,     \* agents: the users in `users`
  fiber,     \* sessions and agents: the fiber of a session, or of the check timer
  redis,     \* users: the agent in the record of the user, or None
  owner,     \* roles: the user the role belongs to in the database, or None
  hyd,       \* logic servers: the roles that are online there
  by,        \* logic servers, roles: the agent of an online role, None if disconnected
  requests   \* how many requests clients have made

vars == <<sess, conn, users, fiber, redis, owner, hyd, by, requests>>
local == <<conn, users>>
logic == <<hyd, by>>

Fibers == Sessions \cup Agents
AgentOf(w) == IF w \in Agents THEN w ELSE sess[w].agent
Unconnected == [state |-> "new", agent |-> None]
Idle == [at |-> "idle", user |-> None, role |-> None, logic |-> None, next |-> None,
         old |-> None, roles |-> {}, left |-> {}, found |-> {}, todo |-> {}]

Init ==
  /\ sess = [s \in Sessions |-> Unconnected]
  /\ conn = [a \in Agents |-> [u \in Users |-> None]]
  /\ users = [a \in Agents |-> {}]
  /\ fiber = [w \in Fibers |-> Idle]
  /\ redis = [u \in Users |-> None]
  /\ owner \in [Roles -> Users \cup {None}]
  /\ hyd = [l \in Logics |-> {}]
  /\ by = [l \in Logics |-> [r \in Roles |-> None]]
  /\ requests = 0

At(w, at) == fiber[w].at = at
Me(w) == conn[AgentOf(w)][fiber[w].user]
RolesOf(u) == {r \in Roles : owner[r] = u}

\* The map `connections` with the entry of w's user changed.
WithMe(w, c) == [conn EXCEPT ![AgentOf(w)][fiber[w].user] = c]
\* The fiber of w waits for something else.
Goto(w, at) == fiber' = [fiber EXCEPT ![w].at = at]
\* ws_shut_down on a session that is up; what comes later is only its close event.
ShutDown(s, why) == [sess EXCEPT ![s].state = IF @ = "up" THEN why ELSE @]
\* The handler of an event returns.
Return(w) == fiber' = [fiber EXCEPT ![w] = [Idle EXCEPT !.user = fiber[w].user]]
\* An exception leaves it: the session is shut down.
Throw(w) == sess' = ShutDown(w, "down") /\ Return(w) /\ UNCHANGED conn
-----------------------------------------------------------------------------
\* Connecting.

\* The open event, after the authenticator.
Connect(s, a, u) ==
  /\ sess[s].state = "new"
  /\ \A t \in Sessions : t < s => sess[t].state # "new"
  /\ ~At(a, "dead")
  /\ sess' = [sess EXCEPT ![s] = [state |-> "up", agent |-> a]]
  /\ fiber' = [fiber EXCEPT ![s] = [Idle EXCEPT !.at = "list", !.user = u]]
  /\ UNCHANGED <<local, redis, owner, logic, requests>>

\* The database is not ready, the user is banned, or no monitor answers.
Refuse(s) ==
  /\ At(s, "list")
  /\ Throw(s)
  /\ UNCHANGED <<users, redis, owner, logic, requests>>

\* The answer to *role/list; on to the user record.
Listed(s) ==
  /\ At(s, "list")
  /\ fiber' = [fiber EXCEPT ![s].at = "set", ![s].roles = RolesOf(fiber[s].user)]
  /\ UNCHANGED <<sess, local, redis, owner, logic, requests>>

\* Fault: only a session that connects tells the other agent.
SetGetOnce(w) ==
  LET u == fiber[w].user  elsewhere == w \in Sessions /\ redis[u] \notin {None, AgentOf(w)}
  IN  /\ At(w, "set")
      /\ redis' = [redis EXCEPT ![u] = AgentOf(w)]
      /\ fiber' = [fiber EXCEPT ![w].at = IF elsewhere THEN "kick" ELSE "published",
                                ![w].old = IF elsewhere THEN redis[u] ELSE None]
      /\ UNCHANGED <<sess, local, owner, logic, requests>>

\* do_publish_user_on_redis: SET ... GET of the user record; if it was another
\* agent's, that one is going to be told.
SetGet(w) ==
  LET u == fiber[w].user  elsewhere == redis[u] \notin {None, AgentOf(w)}
  IN  /\ At(w, "set")
      /\ redis' = [redis EXCEPT ![u] = AgentOf(w)]
      /\ fiber' = [fiber EXCEPT ![w].at = IF elsewhere THEN "kick" ELSE "published",
                                ![w].old = IF elsewhere THEN redis[u] ELSE None]
      /\ UNCHANGED <<sess, local, owner, logic, requests>>

\* *user/kick, on the agent that had published the user before.
Kick(w) ==
  LET c == conn[fiber[w].old][fiber[w].user]
  IN  /\ At(w, "kick")
      /\ fiber' = [fiber EXCEPT ![w].at = "published", ![w].old = None]
      /\ sess' = IF c = None THEN sess ELSE ShutDown(c.session, "conflict")
      /\ UNCHANGED <<local, redis, owner, logic, requests>>

\* The request is lost with the connection between the agents.
KickLost(w) ==
  /\ "lost" \in Acts
  /\ At(w, "kick")
  /\ fiber' = [fiber EXCEPT ![w].at = "published", ![w].old = None]
  /\ UNCHANGED <<sess, local, redis, owner, logic, requests>>

\* The new connection takes the place of an old one; then do_welcome_client asks
\* every logic server for a role that is online.
Entry(s) == [session |-> s, role |-> None, logic |-> None, roles |-> fiber[s].roles]

Welcome(s) ==
  IF fiber[s].roles = {} THEN Return(s)
  ELSE fiber' = [fiber EXCEPT ![s] = [@ EXCEPT !.at = "reconnect", !.left = Logics]]

\* Fault: the old session is left alone.
InstallQuietly(s) ==
  /\ At(s, "published")
  /\ users' = [users EXCEPT ![AgentOf(s)] = @ \cup {fiber[s].user}]
  /\ conn' = WithMe(s, Entry(s))
  /\ Welcome(s)
  /\ UNCHANGED <<sess, redis, owner, logic, requests>>

Install(s) ==
  /\ At(s, "published")
  /\ sess' = IF Me(s) = None THEN sess ELSE ShutDown(Me(s).session, "conflict")
  /\ users' = [users EXCEPT ![AgentOf(s)] = @ \cup {fiber[s].user}]
  /\ conn' = WithMe(s, Entry(s))
  /\ Welcome(s)
  /\ UNCHANGED <<redis, owner, logic, requests>>
-----------------------------------------------------------------------------
\* Selecting a role.

\* No logic server is known, and nothing stays selected; or no monitor is, which the
\* fiber finds out when it has locked the connection.
SelectFails(s, r, c) ==
  /\ \/ conn' = WithMe(s, [c EXCEPT !.role = None, !.logic = None])
     \/ \E l \in Logics : conn' = WithMe(s, [c EXCEPT !.role = r, !.logic = l])
  /\ sess' = ShutDown(s, "down")
  /\ Return(s)

\* The connection is locked, and the role logs in on any logic server.
Select(s, r, c) ==
  \/ \E l \in Logics :
       /\ conn' = WithMe(s, [c EXCEPT !.role = r, !.logic = l])
       /\ fiber' = [fiber EXCEPT ![s] = [@ EXCEPT !.at = "login", !.role = r, !.logic = l]]
       /\ UNCHANGED sess
  \/ SelectFails(s, r, c)

\* do_role_login_common, with c for the entry of `connections`.
LoginCommon(s, r, c) ==
  \/ /\ c.role = r
     /\ Return(s) /\ conn' = WithMe(s, c) /\ UNCHANGED sess
  \/ /\ c.role # r /\ c.role = None
     /\ Select(s, r, c)
  \/ /\ c.role # r /\ c.role # None
     /\ fiber' = [fiber EXCEPT ![s] = [@ EXCEPT !.at = "logout", !.role = c.role,
                                                !.logic = c.logic, !.next = r]]
     /\ conn' = WithMe(s, c) /\ UNCHANGED sess

\* do_welcome_client, with the answers to *role/reconnect.
Reconnected(s) ==
  /\ At(s, "reconnect") /\ fiber[s].left = {}
  /\ \/ Me(s) = None /\ Throw(s)
     \/ /\ Me(s) # None
        /\ \E p \in fiber[s].found :
             conn' = WithMe(s, [Me(s) EXCEPT !.role = p.role, !.logic = p.logic])
        /\ Return(s) /\ UNCHANGED sess
     \/ /\ Me(s) # None /\ fiber[s].found = {} /\ Me(s).role = None
        /\ Me(s).roles # {}  \* but no monitor is known that could load one
        /\ Throw(s)
     \/ /\ Me(s) # None /\ fiber[s].found = {}
        /\ Return(s)  \* the list of roles is sent, unless a role is selected
        /\ UNCHANGED <<sess, conn>>
     \/ /\ Me(s) # None /\ fiber[s].found = {} /\ Me(s).role = None
        /\ \E r \in Me(s).roles :  \* a role that has never been played
             fiber' = [fiber EXCEPT ![s] = [Idle EXCEPT !.at = "load", !.user = fiber[s].user, !.next = r]]
        /\ UNCHANGED <<sess, conn>>
  /\ UNCHANGED <<users, redis, owner, logic, requests>>

\* A request of the client, while its session is the user's.
Requested(s) ==
  /\ At(s, "idle") /\ sess[s].state \notin {"new", "gone"}
  /\ Me(s) # None /\ Me(s).session = s
  /\ requests < MaxRequests
  /\ requests' = requests + 1
  /\ UNCHANGED <<sess, local, redis, owner, logic>>

\* +role/create, up to *nickname/acquire.
RoleCreate(s) ==
  /\ Requested(s)
  /\ Cardinality(Me(s).roles) < MaxRoles
  /\ Goto(s, "create")

\* +role/login, up to *role/load.
RoleLogin(s, r) ==
  /\ Requested(s)
  /\ r \in Me(s).roles /\ r # Me(s).role
  /\ fiber' = [fiber EXCEPT ![s] = [@ EXCEPT !.at = "load", !.next = r]]

\* +role/logout, up to *role/logout.
RoleLogout(s) ==
  /\ Requested(s)
  /\ Me(s).role # None
  /\ fiber' = [fiber EXCEPT ![s] = [@ EXCEPT !.at = "logout", !.role = Me(s).role,
                                              !.logic = Me(s).logic, !.next = None]]

\* Fault: a role ID that is taken is not a conflict.
NewRoleAny(s, r) ==
  /\ At(s, "create")
  /\ owner' = [owner EXCEPT ![r] = IF @ = None THEN fiber[s].user ELSE @]
  /\ fiber' = [fiber EXCEPT ![s] = [@ EXCEPT !.at = "created", !.next = r]]
  /\ UNCHANGED <<sess, local, redis, logic, requests>>

\* *nickname/acquire and *role/create: the role is new, or an earlier attempt of
\* the same user has created it.
NewRole(s, r) ==
  /\ At(s, "create")
  /\ owner[r] \in {None, fiber[s].user}
  /\ owner' = [owner EXCEPT ![r] = fiber[s].user]
  /\ fiber' = [fiber EXCEPT ![s] = [@ EXCEPT !.at = "created", !.next = r]]
  /\ UNCHANGED <<sess, local, redis, logic, requests>>

\* The nickname is somebody else's.
NoNewRole(s) ==
  /\ At(s, "create")
  /\ Return(s)
  /\ UNCHANGED <<sess, local, redis, owner, logic, requests>>

\* The fiber of +role/create goes on.
Created(s) ==
  LET r == fiber[s].next
  IN  /\ At(s, "created")
      /\ IF Me(s) = None THEN Throw(s)
         ELSE LoginCommon(s, r, [Me(s) EXCEPT !.roles = @ \cup {r}])
      /\ UNCHANGED <<users, redis, owner, logic, requests>>

\* The answer to *role/load, which is not looked at.
Loaded(s) ==
  /\ At(s, "load")
  /\ IF Me(s) = None THEN Throw(s) ELSE LoginCommon(s, fiber[s].next, Me(s))
  /\ UNCHANGED <<users, redis, owner, logic, requests>>

\* Fault: no test whether a role is wanted instead.
LoggedOutSelects(s) ==
  /\ At(s, "loggedout")
  /\ IF Me(s) = None THEN Throw(s) ELSE Select(s, fiber[s].next, Me(s))
  /\ UNCHANGED <<users, redis, owner, logic, requests>>

\* do_role_logout_common, after *role/logout; then the role that is wanted instead.
LoggedOut(s) ==
  /\ At(s, "loggedout")
  /\ IF Me(s) = None THEN Throw(s)
     ELSE IF fiber[s].next # None THEN Select(s, fiber[s].next, Me(s))
     ELSE /\ conn' = WithMe(s, [Me(s) EXCEPT !.role = None, !.logic = None])
          /\ Return(s) /\ UNCHANGED sess
  /\ UNCHANGED <<users, redis, owner, logic, requests>>

\* The answer to *role/login.
LoggedIn(s) ==
  /\ At(s, "loggedin")
  /\ IF Me(s) = None THEN Throw(s) ELSE Return(s) /\ UNCHANGED <<sess, conn>>
  /\ UNCHANGED <<users, redis, owner, logic, requests>>
-----------------------------------------------------------------------------
\* The end of a session.

\* The client leaves, or has sent too much or what nobody understands.
SessionEnds(s) ==
  /\ sess[s].state = "up"
  /\ sess' = ShutDown(s, "down")
  /\ UNCHANGED <<local, fiber, redis, owner, logic, requests>>

\* *user/ban/set, after the UPDATE of banned_until, which Refuse looks at.
BanSet(a, u) ==
  /\ conn[a][u] # None
  /\ sess' = ShutDown(conn[a][u].session, "down")
  /\ UNCHANGED <<local, fiber, redis, owner, logic, requests>>

\* The close event.
Close(s) ==
  /\ At(s, "idle") /\ sess[s].state \in {"down", "conflict"}
  /\ sess' = [sess EXCEPT ![s].state = "gone"]
  /\ IF Me(s) = None \/ Me(s).session # s THEN UNCHANGED <<conn, fiber>>
     ELSE /\ conn' = WithMe(s, None)
          /\ IF Me(s).role = None THEN UNCHANGED fiber
             ELSE fiber' = [fiber EXCEPT ![s] = [@ EXCEPT !.at = "disconnect", !.role = Me(s).role,
                                                          !.logic = Me(s).logic]]
  /\ UNCHANGED <<users, redis, owner, logic, requests>>

\* do_ping_timer_callback: a client that has been silent for too long.
PingTimeout(a, u) ==
  /\ "ping_timeout" \in Acts
  /\ conn[a][u] # None
  /\ sess' = ShutDown(conn[a][u].session, "down")
  /\ users' = [users EXCEPT ![a] = @ \ {u}]
  /\ conn' = [conn EXCEPT ![a][u] = None]
  /\ UNCHANGED <<fiber, redis, owner, logic, requests>>

\* An agent dies, and its sessions with it.  What it has asked of logic servers may
\* still be done.  (The process that takes its place has a service UUID of its own.)
AgentCrash(a) ==
  /\ "agent_crash" \in Acts
  /\ ~At(a, "dead")
  /\ sess' = [s \in Sessions |-> IF sess[s].agent = a /\ sess[s].state # "new"
                                 THEN [sess[s] EXCEPT !.state = "gone"] ELSE sess[s]]
  /\ users' = [users EXCEPT ![a] = {}]
  /\ conn' = [conn EXCEPT ![a] = [u \in Users |-> None]]
  /\ fiber' = [w \in Fibers |->
       IF w = a THEN [Idle EXCEPT !.at = "dead"]
       ELSE IF AgentOf(w) = a /\ fiber[w].at \notin {"reconnect", "login", "logout", "disconnect"}
         THEN [Idle EXCEPT !.user = fiber[w].user]
       ELSE fiber[w]]
  /\ UNCHANGED <<redis, owner, logic, requests>>

\* do_check_user_timer_callback: the users are listed, and published one by one if
\* they are still there.
Check(a, todo) ==
  LET rest == todo \cap users[a]
  IN  IF rest = {} THEN fiber' = [fiber EXCEPT ![a] = Idle]
      ELSE \E u \in rest :
             fiber' = [fiber EXCEPT ![a] = [Idle EXCEPT !.at = "set", !.user = u, !.todo = todo \ {u}]]

CheckUsers(a) ==
  /\ At(a, "idle") /\ users[a] # {}
  /\ Check(a, users[a])
  /\ UNCHANGED <<sess, local, redis, owner, logic, requests>>

CheckNext(a) ==
  /\ At(a, "published")
  /\ Check(a, fiber[a].todo)
  /\ UNCHANGED <<sess, local, redis, owner, logic, requests>>
-----------------------------------------------------------------------------
\* Redis and the logic servers.

\* The record of a user expires after redis_role_ttl if its agent does not publish.
Expire(u) ==
  /\ redis[u] # None /\ u \notin users[redis[u]]
  /\ redis' = [redis EXCEPT ![u] = None]
  /\ UNCHANGED <<sess, local, fiber, owner, logic, requests>>

\* The agent has sent this server a *role/disconnect, and sends no reconnect before it.
Disconnecting(a, l) == \E s \in Sessions : At(s, "disconnect") /\ AgentOf(s) = a /\ fiber[s].logic = l

\* *role/reconnect on one server: one of the roles in the list that is online there.
Reconnect(s, l) ==
  LET online == hyd[l] \cap fiber[s].roles
  IN  /\ At(s, "reconnect") /\ l \in fiber[s].left
      /\ "reorder" \notin Acts => ~Disconnecting(AgentOf(s), l)
      /\ \/ /\ online = {}
            /\ fiber' = [fiber EXCEPT ![s].left = @ \ {l}]
            /\ UNCHANGED by
         \/ \E r \in online :
              /\ fiber' = [fiber EXCEPT ![s].left = @ \ {l}, ![s].found = @ \cup {[role |-> r, logic |-> l]}]
              /\ by' = [by EXCEPT ![l][r] = AgentOf(s)]
      /\ UNCHANGED <<sess, local, redis, owner, hyd, requests>>

\* *role/login: a role that is not online there is loaded from Redis.
Login(s) ==
  LET l == fiber[s].logic  r == fiber[s].role
  IN  /\ At(s, "login")
      /\ hyd' = [hyd EXCEPT ![l] = @ \cup {r}]
      /\ by' = [by EXCEPT ![l][r] = AgentOf(s)]
      /\ Goto(s, "loggedin")
      /\ UNCHANGED <<sess, local, redis, owner, requests>>

\* It is not on Redis: the answer makes the handler throw.
LoginFails(s) ==
  /\ At(s, "login") /\ fiber[s].role \notin hyd[fiber[s].logic]
  /\ Throw(s)
  /\ UNCHANGED <<users, redis, owner, logic, requests>>

\* *role/logout.
Logout(s) ==
  LET l == fiber[s].logic  r == fiber[s].role
  IN  /\ At(s, "logout")
      /\ hyd' = [hyd EXCEPT ![l] = @ \ {r}]
      /\ by' = [by EXCEPT ![l][r] = None]
      /\ Goto(s, "loggedout")
      /\ UNCHANGED <<sess, local, redis, owner, requests>>

\* *role/disconnect.
Disconnect(s) ==
  LET l == fiber[s].logic  r == fiber[s].role
  IN  /\ At(s, "disconnect")
      /\ by' = [by EXCEPT ![l][r] = None]
      /\ Return(s)
      /\ UNCHANGED <<sess, local, redis, owner, hyd, requests>>

\* A request to a logic server is lost before it is handled.
RequestLost(s) ==
  /\ "lost" \in Acts
  /\ \/ (\E l \in fiber[s].left : fiber' = [fiber EXCEPT ![s].left = @ \ {l}]) /\ UNCHANGED <<sess, conn>>
     \/ (At(s, "create") \/ At(s, "login")) /\ Throw(s)
     \/ At(s, "logout") /\ Goto(s, "loggedout") /\ UNCHANGED <<sess, conn>>
     \/ At(s, "disconnect") /\ Return(s) /\ UNCHANGED <<sess, conn>>
  /\ UNCHANGED <<users, redis, owner, logic, requests>>

\* The answer is lost: the logic server (or the monitor) has done what it was asked
\* for, and the fiber gets an error.  (The answers to *role/load, *role/logout,
\* *role/disconnect and *user/kick are not looked at.)
AnswerLost(s) ==
  /\ "lost" \in Acts
  /\ \/ (At(s, "created") \/ At(s, "loggedin")) /\ Throw(s) /\ UNCHANGED by
     \/ \E l \in fiber[s].left : \E r \in hyd[l] \cap fiber[s].roles :
          /\ fiber' = [fiber EXCEPT ![s].left = @ \ {l}]
          /\ by' = [by EXCEPT ![l][r] = AgentOf(s)]
          /\ UNCHANGED <<sess, conn>>
  /\ UNCHANGED <<users, redis, owner, hyd, requests>>

\* What do_star_user_check_role compares.
Selected(a, r, l) ==
  \E u \in Users : LET c == conn[a][u] IN
    owner[r] = u /\ c # None /\ c.role = r /\ c.logic = l /\ sess[c.session].state # "gone"

\* Fault: the answer is not looked at.
CheckRoleInVain(l, r) ==
  /\ "check_role" \in Acts
  /\ r \in hyd[l] /\ by[l][r] # None
  /\ ~Selected(by[l][r], r, l)
  /\ UNCHANGED vars

\* The save timer of a logic server asks the agent of a role.
CheckRole(l, r) ==
  /\ "check_role" \in Acts
  /\ r \in hyd[l] /\ by[l][r] # None
  /\ ~Selected(by[l][r], r, l)
  /\ by' = [by EXCEPT ![l][r] = None]
  /\ UNCHANGED <<sess, local, fiber, redis, owner, hyd, requests>>

\* It logs out a role that has been disconnected for disconnect_to_logout_duration.
LogoutIdle(l, r) ==
  /\ r \in hyd[l] /\ by[l][r] = None
  /\ hyd' = [hyd EXCEPT ![l] = @ \ {r}]
  /\ UNCHANGED <<sess, local, fiber, redis, owner, by, requests>>
-----------------------------------------------------------------------------
Clients == \E s \in Sessions : \/ \E a \in Agents, u \in Users : Connect(s, a, u)
                               \/ RoleCreate(s) \/ RoleLogout(s) \/ SessionEnds(s)
                               \/ \E r \in Roles : RoleLogin(s, r)
Resume(s) == \/ Listed(s) \/ Install(s) \/ Reconnected(s) \/ Created(s) \/ Loaded(s)
             \/ LoggedOut(s) \/ LoggedIn(s) \/ Close(s)
Answer(s) == \/ \E l \in Logics : Reconnect(s, l)
             \/ (\E r \in Roles : NewRole(s, r)) \/ NoNewRole(s)
             \/ Login(s) \/ LoginFails(s) \/ Logout(s) \/ Disconnect(s)
Publish(w) == SetGet(w) \/ Kick(w)
Timers == \/ \E a \in Agents : CheckUsers(a) \/ CheckNext(a) \/ \E u \in Users : PingTimeout(a, u)
          \/ \E l \in Logics, r \in Roles : CheckRole(l, r) \/ LogoutIdle(l, r)

Next == \/ Clients \/ Timers
        \/ \E s \in Sessions : \/ Resume(s) \/ Answer(s) \/ Refuse(s)
                              \/ RequestLost(s) \/ AnswerLost(s)
        \/ \E w \in Fibers : Publish(w) \/ KickLost(w)
        \/ \E u \in Users : Expire(u)
        \/ \E a \in Agents : AgentCrash(a) \/ \E u \in Users : BanSet(a, u)

Spec == Init /\ [][Next]_vars

\* Requests and queries are answered, fibers resume, sessions that are shut down are
\* closed, and the timers go on.  For instances without "lost": nothing is sent again.
Fairness ==
  /\ \A s \in Sessions : WF_vars(Resume(s)) /\ WF_vars(Answer(s))
  /\ \A w \in Fibers : WF_vars(Publish(w))
  /\ \A a \in Agents : WF_vars(CheckUsers(a)) /\ WF_vars(CheckNext(a))
  /\ \A l \in Logics, r \in Roles : WF_vars(CheckRole(l, r)) /\ WF_vars(LogoutIdle(l, r))

FairSpec == Spec /\ Fairness
-----------------------------------------------------------------------------
SessionRecords == [state : {"new", "up", "down", "conflict", "gone"}, agent : Agents \cup {None}]
Connections == [session : Sessions, role : Roles \cup {None}, logic : Logics \cup {None},
                roles : SUBSET Roles]
ASSUME EntryAssumption == None \notin Connections

FiberRecords ==
  [at : {"idle", "list", "set", "kick", "published", "reconnect", "create", "created",
         "load", "login", "loggedin", "logout", "loggedout", "disconnect", "dead"},
   user : Users \cup {None}, role : Roles \cup {None}, logic : Logics \cup {None},
   next : Roles \cup {None}, old : Agents \cup {None}, roles : SUBSET Roles,
   left : SUBSET Logics, found : SUBSET [role : Roles, logic : Logics], todo : SUBSET Users]

TypeOK ==
  /\ sess \in [Sessions -> SessionRecords]
  /\ conn \in [Agents -> [Users -> Connections \cup {None}]]
  /\ users \in [Agents -> SUBSET Users]
  /\ fiber \in [Fibers -> FiberRecords]
  /\ redis \in [Users -> Agents \cup {None}]
  /\ owner \in [Roles -> Users \cup {None}]
  /\ hyd \in [Logics -> SUBSET Roles]
  /\ by \in [Logics -> [Roles -> Agents \cup {None}]]
  /\ requests \in 0..MaxRequests

\* The user has been let in, and the session has not ended.
Admitted(s) == /\ sess[s].state = "up"
               /\ fiber[s].at \notin {"list", "set", "kick", "published"}

\* On one agent a user has one session: whoever else was let in has been shut down,
\* in whatever order logins, kicks, timeouts and close events of old sessions come.
AdmittedIsConnected ==
  \A s \in Sessions : Admitted(s) => Me(s) # None /\ Me(s).session = s

\* Whatever the fibers of a user's sessions do to the entry they share, the role in
\* it belongs to that user.
OwnRolesOnly ==
  \A a \in Agents, u \in Users :
    conn[a][u] # None /\ conn[a][u].role # None => owner[conn[a][u].role] = u

\* A session that has been opened has an agent and a user.
SessionsHaveUsers ==
  \A s \in Sessions : IF sess[s].state = "new" THEN fiber[s] = Idle
                      ELSE sess[s].agent \in Agents /\ fiber[s].user \in Users

\* A fiber that waits for something knows what it has asked for, and whom.
Sensible(f) ==
  /\ f.at \in {"set", "kick", "published"} => f.user \in Users
  /\ f.at = "kick" => f.old \in Agents
  /\ f.at \in {"load", "created"} => f.next \in Roles
  /\ f.at \in {"login", "loggedin", "logout", "loggedout", "disconnect"} =>
       f.role \in Roles /\ f.logic \in Logics

FibersAreSensible ==
  /\ \A w \in Fibers : Sensible(fiber[w])
  /\ \A a \in Agents : fiber[a].at \in {"idle", "set", "kick", "published", "dead"}

\* The roles a fiber has in hand are its user's, and so are those of an entry.
Own(u) == {r \in Roles : u \in Users /\ owner[r] = u}

HasOwn(f) ==
  /\ f.roles \subseteq Own(f.user)
  /\ f.next # None => f.next \in Own(f.user)
  /\ \A p \in f.found : p.role \in Own(f.user)

FibersHaveOwn == \A w \in Fibers : HasOwn(fiber[w])

EntryHasOwn(u, c) ==
  c # None => /\ c.roles \subseteq Own(u)
              /\ c.role # None => c.logic # None

EntriesHaveOwn == \A a \in Agents, u \in Users : EntryHasOwn(u, conn[a][u])

\* The inductive invariant behind AdmittedIsConnected and OwnRolesOnly.
Inv == /\ TypeOK /\ SessionsHaveUsers /\ FibersAreSensible /\ FibersHaveOwn /\ EntriesHaveOwn
       /\ AdmittedIsConnected /\ OwnRolesOnly

\* A user does not stay connected to two agents: do_publish_user_on_redis tells the
\* other one, at the latest when the check timer publishes the user again.
ConflictEnds ==
  \A s \in Sessions : \A t \in {t \in Sessions : s < t} :
    Admitted(s) /\ Admitted(t) /\ sess[s].agent # sess[t].agent /\ fiber[s].user = fiber[t].user
      ~> ~(Admitted(s) /\ Admitted(t))

\* The logic servers that have a role, and those of them that no client uses it on.
Hosts(r) == {l \in Logics : r \in hyd[l]}
Orphaned(r) == {l \in Hosts(r) : \A a \in Agents : ~Selected(a, r, l)}

\* A role that has come online on two logic servers does not stay so, and a role whose
\* client is gone, the agent perhaps, too, does not stay online: time and again there
\* is one server at most, and a client that uses the role there.
RolesSettle == \A r \in Roles : []<>(Cardinality(Hosts(r)) <= 1 /\ Orphaned(r) = {})

\* The check timer sets out to publish a user whom another agent has published only
\* if the user is connected here, or somebody is kicked for no conflict at all.
ContendsIfConnected ==
  [][\A a \in Agents, u \in Users :
       fiber[a].at # "set" /\ fiber'[a].at = "set" /\ fiber'[a].user = u /\ redis[u] \notin {None, a}
         => conn[a][u] # None]_vars

\* A client that is connected and waits for nothing, and the role it has selected.
Playing(l, r) ==
  \E a \in Agents, u \in Users : LET c == conn[a][u] IN
    c # None /\ c.role = r /\ c.logic = l /\ sess[c.session].state = "up" /\ At(c.session, "idle")

\* A role is logged out for inactivity only if its client is not connected.
OnlyIdleLeave == [][\A l \in Logics, r \in Roles : LogoutIdle(l, r) => ~Playing(l, r)]_vars
=============================================================================
