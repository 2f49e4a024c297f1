------------------------------- MODULE Nicknames -------------------------------
(***************************************************************************)
(* How a role comes to be: +role/create and the table `nickname` on an     *)
(* agent (agent/static/user_service.cpp), *role/create and *role/list on   *)
(* the monitor (monitor/static/role_service.cpp).  A nickname is acquired  *)
(* in the user database, its serial is the ID of the role, and the role is *)
(* created in the default database: two databases and two processes, where *)
(* each step may fail after it was done, and be tried again by the user.   *)
(***************************************************************************)
EXTENDS Naturals, FiniteSets

CONSTANTS
  Agents,     \* agent processes
  Users,      \* names of users
  Nicknames,  \* nicknames that are valid
  Sessions,   \* the sessions there can be at once, numbered (a bound)
  MaxSerial,  \* how many serials are given out (a bound)
  MaxRoles,   \* max_number_of_roles_per_user
  MaxFaults,  \* how many things go wrong, and nicknames are released (a bound)
  None        \* nil

Serials == 1..MaxSerial
NicknameRows == [serial : Serials, username : Users]
RoleRows == [username : Users, nickname : Nicknames]

ASSUME NicknamesAssumption ==
  /\ MaxSerial \in Nat /\ MaxRoles \in Nat /\ MaxFaults \in Nat /\ Sessions \subseteq Nat
  /\ None \notin Agents \cup Users \cup Nicknames \cup Sessions \cup Serials
                \cup NicknameRows \cup RoleRows

VARIABLES
  nickname,     \* the table `nickname`, by its unique column
  next_serial,  \* AUTO_INCREMENT of its column `serial`
  role,         \* the table `role`, by its unique column `roid`
  conn,         \* agents, users: the entry of `connections`, or None
  sess,         \* sessions: of which agent and user, up or shut down
  fiber,        \* sessions: what its fiber waits for, and what it has in hand
  request,      \* sessions: the *role/create it has sent, which may outlive it
  acquired,     \* history, serials: the user and the nickname it was made for
  released,     \* history: nicknames that have been released
  disturbed,    \* history: users with two sessions at once, or an unanswered request
  faults        \* how many there have been

vars == <<nickname, next_serial, role, conn, sess, fiber, request, acquired, released, disturbed,
          faults>>
tables == <<nickname, next_serial, role>>
history == <<acquired, released, disturbed>>

\* Types of the entries of conn, sess, fiber and request.
Entries == [session : Sessions, roles : SUBSET Serials]
Opened == [state : {"up", "down"}, agent : Agents, user : Users]
Fibers == [at : {"idle", "install", "insert", "select", "acquired", "wait"},
           nickname : Nicknames \cup {None}, serial : Serials \cup {None}, roles : SUBSET Serials]
Creates == [stage : {"insert", "select", "ok", "conflict"}, serial : Serials, row : RoleRows]

Closed == [state |-> "closed", agent |-> None, user |-> None]
Idle == [at |-> "idle", nickname |-> None, serial |-> None, roles |-> {}]
NoRequest == [stage |-> "none", serial |-> None, row |-> None]

Init ==
  /\ nickname = [n \in Nicknames |-> None]
  /\ next_serial = 1
  /\ role = [i \in Serials |-> None]
  /\ conn = [a \in Agents |-> [u \in Users |-> None]]
  /\ sess = [s \in Sessions |-> Closed]
  /\ fiber = [s \in Sessions |-> Idle]
  /\ request = [s \in Sessions |-> NoRequest]
  /\ acquired = [i \in Serials |-> None]
  /\ released = {}
  /\ disturbed = {}
  /\ faults = 0

At(s, at) == fiber[s].at = at
User(s) == sess[s].user
Me(s) == conn[sess[s].agent][User(s)]
WithMe(s, c) == [conn EXCEPT ![sess[s].agent][User(s)] = c]
RolesOf(u) == {i \in Serials : role[i] # None /\ role[i].username = u}
\* What a role made by the fiber of s would be.
Row(s) == [username |-> User(s), nickname |-> fiber[s].nickname]

Fault == faults < MaxFaults /\ faults' = faults + 1
Goto(s, at) == fiber' = [fiber EXCEPT ![s].at = at]
Return(s) == fiber' = [fiber EXCEPT ![s] = Idle]
ShutDown(s) == [sess EXCEPT ![s].state = IF @ = "up" THEN "down" ELSE @]
\* An exception leaves the handler: the session is shut down.
Throw(s) == Return(s) /\ sess' = ShutDown(s)
-----------------------------------------------------------------------------
\* Sessions.

\* Nothing is left of an earlier session of this number.
Free(s) == sess[s] = Closed /\ request[s] = NoRequest

\* The open event, up to the answer to *role/list.  The user may still have another
\* session, or a request that an earlier one has left behind.
Connect(s, a, u) ==
  /\ Free(s) /\ \A t \in Sessions : Free(t) => t >= s
  /\ sess' = [sess EXCEPT ![s] = [state |-> "up", agent |-> a, user |-> u]]
  /\ fiber' = [fiber EXCEPT ![s].at = "install", ![s].roles = RolesOf(u)]
  /\ disturbed' = IF \E t \in Sessions : \/ User(t) = u
                                         \/ (request[t] # NoRequest /\ request[t].row.username = u)
                    THEN disturbed \cup {u} ELSE disturbed
  /\ UNCHANGED <<tables, conn, request, acquired, released, faults>>

\* With the list, and once the user is published: the entry of an old session is
\* replaced, and that one shut down.
Install(s) ==
  /\ At(s, "install")
  /\ sess' = IF Me(s) = None THEN sess ELSE ShutDown(Me(s).session)
  /\ conn' = WithMe(s, [session |-> s, roles |-> fiber[s].roles])
  /\ Return(s)
  /\ UNCHANGED <<tables, request, history, faults>>

\* The client leaves, or is told to.
SessionEnds(s) ==
  /\ sess[s].state = "up"
  /\ sess' = ShutDown(s)
  /\ UNCHANGED <<tables, conn, fiber, request, history, faults>>

\* do_ping_timer_callback: the entry goes before the session.
PingTimeout(a, u) ==
  /\ Fault
  /\ conn[a][u] # None
  /\ sess' = ShutDown(conn[a][u].session)
  /\ conn' = [conn EXCEPT ![a][u] = None]
  /\ UNCHANGED <<tables, fiber, request, history>>

\* The close event, the last of a session.
Close(s) ==
  /\ At(s, "idle") /\ sess[s].state = "down"
  /\ sess' = [sess EXCEPT ![s] = Closed]
  /\ conn' = IF Me(s) # None /\ Me(s).session = s THEN WithMe(s, None) ELSE conn
  /\ UNCHANGED <<tables, fiber, request, history, faults>>

\* A query of the fiber fails, before or after it was executed; or no monitor is up.
FiberFails(s) ==
  /\ Fault
  /\ fiber[s].at \in {"install", "insert", "select", "acquired"}
  /\ Throw(s)
  /\ UNCHANGED <<tables, conn, request, history>>
-----------------------------------------------------------------------------
\* +role/create and *nickname/acquire.

\* A request from the session that is the user's.  (None while an earlier one is
\* still on its way, a bound.)
Requests(s) ==
  /\ At(s, "idle") /\ sess[s] # Closed /\ request[s] = NoRequest
  /\ Me(s) # None /\ Me(s).session = s

\* Fault: one role too many.
RoleCreateOneMore(s, n) ==
  /\ Requests(s)
  /\ Cardinality(Me(s).roles) <= MaxRoles
  /\ fiber' = [fiber EXCEPT ![s].at = "insert", ![s].nickname = n]
  /\ UNCHANGED <<tables, conn, sess, request, history, faults>>

\* The limit is checked on the roles that are listed; then the INSERT.
RoleCreate(s, n) ==
  /\ Requests(s)
  /\ Cardinality(Me(s).roles) < MaxRoles
  /\ fiber' = [fiber EXCEPT ![s].at = "insert", ![s].nickname = n]
  /\ UNCHANGED <<tables, conn, sess, request, history, faults>>

\* A new row, with the next serial, which the fiber of s has from now on.
NewNickname(s) ==
  LET n == fiber[s].nickname
  IN  /\ next_serial \in Serials
      /\ nickname' = [nickname EXCEPT ![n] = [serial |-> next_serial, username |-> User(s)]]
      /\ acquired' = [acquired EXCEPT ![next_serial] = Row(s)]
      /\ next_serial' = next_serial + 1
      /\ fiber' = [fiber EXCEPT ![s].at = "acquired", ![s].serial = next_serial]

\* Fault: the row of a user who tries again is replaced.
InsertNicknameReplaces(s) ==
  LET row == nickname[fiber[s].nickname]
  IN  /\ At(s, "insert")
      /\ IF row \in [serial : Serials, username : Users \ {User(s)}]
           THEN Goto(s, "select") /\ UNCHANGED <<nickname, next_serial, acquired>>
           ELSE NewNickname(s)
      /\ UNCHANGED <<role, conn, sess, request, released, disturbed, faults>>

\* INSERT IGNORE: a new row, or there is one.
InsertNickname(s) ==
  /\ At(s, "insert")
  /\ \/ nickname[fiber[s].nickname] = None /\ NewNickname(s)
     \/ /\ nickname[fiber[s].nickname] # None
        /\ Goto(s, "select")
        /\ UNCHANGED <<nickname, next_serial, acquired>>
  /\ UNCHANGED <<role, conn, sess, request, released, disturbed, faults>>

\* Fault: the SELECT does not ask for the user.
SelectNicknameOfAny(s) ==
  LET row == nickname[fiber[s].nickname]
  IN  /\ At(s, "select")
      /\ IF row # None
           THEN fiber' = [fiber EXCEPT ![s].at = "acquired", ![s].serial = row.serial]
           ELSE Return(s)
      /\ UNCHANGED <<tables, conn, sess, request, history, faults>>

\* Fault: a nickname that is taken is not asked about.
SelectNicknameNever(s) ==
  /\ At(s, "select")
  /\ Return(s)
  /\ UNCHANGED <<tables, conn, sess, request, history, faults>>

\* SELECT: the user has the nickname already, or sc_nickname_conflict.
SelectNickname(s) ==
  LET row == nickname[fiber[s].nickname]
  IN  /\ At(s, "select")
      /\ IF row # None /\ row.username = User(s)
           THEN fiber' = [fiber EXCEPT ![s].at = "acquired", ![s].serial = row.serial]
           ELSE Return(s)
      /\ UNCHANGED <<tables, conn, sess, request, history, faults>>

\* *nickname/release.  A serial is kept for each nickname (a bound).
ReleaseNickname(n) ==
  /\ Fault
  /\ nickname[n] # None
  /\ next_serial + Cardinality({m \in Nicknames : nickname[m] = None}) <= MaxSerial
  /\ nickname' = [nickname EXCEPT ![n] = None]
  /\ released' = released \cup {n}
  /\ UNCHANGED <<next_serial, role, conn, sess, fiber, request, acquired, disturbed>>
-----------------------------------------------------------------------------
\* *role/create, on the monitor.

SendCreate(s) ==
  /\ At(s, "acquired")
  /\ Goto(s, "wait")
  /\ request' = [request EXCEPT ![s] = [stage |-> "insert", serial |-> fiber[s].serial, row |-> Row(s)]]
  /\ UNCHANGED <<tables, conn, sess, history, faults>>

\* The answer, unless nobody waits for it any more.
Reply(s, result) ==
  request' = [request EXCEPT ![s] = IF At(s, "wait") THEN [@ EXCEPT !.stage = result] ELSE NoRequest]

\* Fault: a role that is there is not looked at again.
InsertRoleOnce(s) ==
  LET r == request[s]
  IN  /\ r.stage = "insert"
      /\ IF role[r.serial] = None
           THEN /\ role' = [role EXCEPT ![r.serial] = r.row]
                /\ Reply(s, "ok")
           ELSE /\ Reply(s, "conflict")
                /\ UNCHANGED role
      /\ UNCHANGED <<nickname, next_serial, conn, sess, fiber, history, faults>>

\* INSERT IGNORE: a new role, or there is one of that ID.
InsertRole(s) ==
  LET r == request[s]
  IN  /\ r.stage = "insert"
      /\ IF role[r.serial] = None
           THEN /\ role' = [role EXCEPT ![r.serial] = r.row]
                /\ Reply(s, "ok")
           ELSE /\ request' = [request EXCEPT ![s].stage = "select"]
                /\ UNCHANGED role
      /\ UNCHANGED <<nickname, next_serial, conn, sess, fiber, history, faults>>

\* SELECT: the user's own, or gs_roid_conflict.
SelectRole(s) ==
  LET r == request[s]
  IN  /\ r.stage = "select"
      /\ Reply(s, IF role[r.serial].username = r.row.username THEN "ok" ELSE "conflict")
      /\ UNCHANGED <<tables, conn, sess, fiber, history, faults>>

\* Fault: no answer is sent if a query fails.
RequestFailsSilently(s) ==
  /\ Fault
  /\ request[s].stage \in {"insert", "select", "ok"}
  /\ request' = [request EXCEPT ![s] = NoRequest]
  /\ UNCHANGED <<tables, conn, sess, fiber, history>>

\* A query of the monitor fails, before or after it was executed: the request is
\* answered with an error, on which do_plus_role_create throws.
RequestFails(s) ==
  /\ Fault
  /\ request[s].stage \in {"insert", "select", "ok"}
  /\ request' = [request EXCEPT ![s] = NoRequest]
  /\ IF At(s, "wait")
       THEN Throw(s) /\ disturbed' = disturbed \cup {User(s)}
       ELSE UNCHANGED <<fiber, sess, disturbed>>
  /\ UNCHANGED <<tables, conn, acquired, released>>

\* The connection to the monitor is lost; the request may go on without us.
AnswerLost(s) ==
  /\ Fault
  /\ At(s, "wait")
  /\ Throw(s)
  /\ request' = [request EXCEPT ![s] = IF @.stage \in {"ok", "conflict"} THEN NoRequest ELSE @]
  /\ disturbed' = disturbed \cup {User(s)}
  /\ UNCHANGED <<tables, conn, acquired, released>>

\* do_plus_role_create goes on.  The role is listed in whatever entry the user has
\* by now, and logged in, which may fail.
Answered(s) ==
  LET r == request[s]
  IN  /\ At(s, "wait")
      /\ request' = [request EXCEPT ![s] = NoRequest]
      /\ \/ /\ r.stage = "ok" /\ Me(s) # None
            /\ conn' = WithMe(s, [Me(s) EXCEPT !.roles = @ \cup {r.serial}])
            /\ Throw(s) \/ (Return(s) /\ UNCHANGED sess)
         \/ /\ r.stage = "ok" /\ Me(s) = None
            /\ Throw(s)
            /\ UNCHANGED conn
         \/ /\ r.stage = "conflict"
            /\ Return(s)
            /\ UNCHANGED <<conn, sess>>
      /\ UNCHANGED <<tables, history, faults>>
-----------------------------------------------------------------------------
Step(s) == \/ Install(s)
           \/ InsertNickname(s) \/ SelectNickname(s) \/ SendCreate(s) \/ Answered(s)
Monitor(s) == InsertRole(s) \/ SelectRole(s)
Failure(s) == FiberFails(s) \/ RequestFails(s) \/ AnswerLost(s)

Next ==
  \/ \E s \in Sessions :
       \/ Step(s) \/ Monitor(s) \/ Failure(s)
       \/ SessionEnds(s) \/ Close(s)
       \/ \E a \in Agents, u \in Users : Connect(s, a, u)
       \/ \E n \in Nicknames : RoleCreate(s, n)
  \/ \E a \in Agents, u \in Users : PingTimeout(a, u)
  \/ \E n \in Nicknames : ReleaseNickname(n)

Spec == Init /\ [][Next]_vars

\* Queries return and requests are answered; nothing is assumed of the clients.
FairSpec == Spec /\ \A s \in Sessions : WF_vars(Step(s)) /\ WF_vars(Monitor(s))
-----------------------------------------------------------------------------
TypeOK ==
  /\ nickname \in [Nicknames -> NicknameRows \cup {None}]
  /\ next_serial \in 1..(MaxSerial + 1)
  /\ role \in [Serials -> RoleRows \cup {None}]
  /\ conn \in [Agents -> [Users -> Entries \cup {None}]]
  /\ sess \in [Sessions -> Opened \cup {Closed}]
  /\ fiber \in [Sessions -> Fibers]
  /\ request \in [Sessions -> Creates \cup {NoRequest}]
  /\ \A s \in Sessions : At(s, "wait") => request[s] # NoRequest
  /\ acquired \in [Serials -> RoleRows \cup {None}]
  /\ released \subseteq Nicknames
  /\ disturbed \subseteq Users
  /\ faults \in 0..MaxFaults

\* A role has the ID, the user and the nickname of one and the same acquisition,
\* whoever has raced for the nickname and however often it was tried.
RolesAsAcquired == \A i \in Serials : role[i] # None => role[i] = acquired[i]

\* A user who has acquired a nickname is never refused the role that goes with it.
NoRoidConflict == \A s \in Sessions : request[s].stage # "conflict"

\* Two roles of one nickname: only if it has been released.
OneRolePerNickname ==
  \A i, j \in Serials :
    role[i] # None /\ role[j] # None /\ role[i].nickname = role[j].nickname =>
      i = j \/ role[i].nickname \in released

\* No more roles than max_number_of_roles_per_user, for a user who has had one
\* session at a time and an answer to each request.
LimitKept == \A u \in Users \ disturbed : Cardinality(RolesOf(u)) <= MaxRoles

\* A fiber that waits has a session; it has a nickname once it makes a role.
FibersHaveSessions ==
  \A s \in Sessions : ~At(s, "idle") =>
    sess[s] # Closed /\ (~At(s, "install") => fiber[s].nickname \in Nicknames)

\* Serials are given out in order.
SerialsInOrder == \A i \in Serials : acquired[i] # None => i < next_serial

\* The serial, the user and the nickname in a row, in the hands of a fiber and in a
\* request are those of one acquisition.
RowsAsAcquired ==
  /\ \A n \in Nicknames : nickname[n] # None =>
       acquired[nickname[n].serial] = [username |-> nickname[n].username, nickname |-> n]
  /\ \A s \in Sessions : fiber[s].at \in {"acquired", "wait"} =>
       fiber[s].serial \in Serials /\ acquired[fiber[s].serial] = Row(s)
  /\ \A s \in Sessions : request[s] # NoRequest =>
       /\ acquired[request[s].serial] = request[s].row
       /\ request[s].stage = "select" => role[request[s].serial] # None
       /\ At(s, "wait") => request[s].row = Row(s)

\* A serial is that of the row of its nickname, until that is released.
SerialsInRows ==
  \A i \in Serials : acquired[i] # None /\ acquired[i].nickname \notin released =>
    /\ nickname[acquired[i].nickname] # None
    /\ nickname[acquired[i].nickname].serial = i

\* The inductive invariant behind the first three properties.
Inv == /\ TypeOK /\ FibersHaveSessions /\ SerialsInOrder /\ RowsAsAcquired /\ SerialsInRows
       /\ RolesAsAcquired /\ NoRoidConflict

\* An entry of `connections` holds a session of that user which has got its roles.
EntriesHoldSessions ==
  \A a \in Agents, u \in Users : conn[a][u] # None =>
    /\ sess[conn[a][u].session] # Closed
    /\ sess[conn[a][u].session].agent = a /\ sess[conn[a][u].session].user = u
    /\ ~At(conn[a][u].session, "install")

\* Who is not disturbed has one session, and nothing on its way but what that waits for.
OneAtATime ==
  /\ \A s, t \in Sessions : User(s) = User(t) /\ User(s) \in Users \ disturbed => s = t
  /\ \A s \in Sessions : request[s] # NoRequest /\ request[s].row.username \notin disturbed =>
       At(s, "wait")

\* All its roles are listed, but for the one it waits for.
RolesListed ==
  \A s \in Sessions : User(s) \in Users \ disturbed =>
    /\ At(s, "install") => fiber[s].roles = RolesOf(User(s))
    /\ Me(s) # None /\ Me(s).session = s => \A i \in RolesOf(User(s)) :
         i \in Me(s).roles \/ (At(s, "wait") /\ i = request[s].serial)

\* When it makes a role there is room for that.
RoomLeft ==
  \A s \in Sessions : User(s) \in Users \ disturbed =>
    /\ fiber[s].at \in {"insert", "select", "acquired"} => Cardinality(RolesOf(User(s))) < MaxRoles
    /\ At(s, "wait") => Cardinality(RolesOf(User(s)) \ {request[s].serial}) < MaxRoles

\* The inductive invariant behind LimitKept, on top of Inv.
LimitInv == EntriesHoldSessions /\ OneAtATime /\ RolesListed /\ RoomLeft /\ LimitKept

Trying(u, n) == \E s \in Sessions : At(s, "insert") /\ User(s) = u /\ fiber[s].nickname = n
HasRole(n) == \E i \in Serials : role[i] # None /\ role[i].nickname = n

\* Trying again helps: whatever an earlier attempt has left behind, a nickname that
\* a user tries for again and again has its role in the end, unless somebody else
\* has acquired it.  (Only so many faults happen.)
RetriesSucceed ==
  \A u \in Users, n \in Nicknames :
    []<>Trying(u, n) => <>(HasRole(n) \/ (nickname[n] # None /\ nickname[n].username # u))
=============================================================================
