---------------------------- MODULE Nicknames_proofs ----------------------------
(***************************************************************************)
(* Proofs about the creation of roles, for any number of agents, users,    *)
(* nicknames and sessions and any number of faults: a role is made for the *)
(* user who has acquired its nickname, once, and within the limit.         *)
(***************************************************************************)
EXTENDS Nicknames, TLAPS, FiniteSetTheorems

USE NicknamesAssumption

\* Who has opened a session, and what shutting it down leaves.
LEMMA SessionType ==
  ASSUME TypeOK, NEW s \in Sessions, sess[s] # Closed
  PROVE  sess[s] \in Opened /\ sess[s].agent \in Agents /\ User(s) \in Users
BY DEF TypeOK, Opened, User

LEMMA ShutDownEffect ==
  ASSUME TypeOK, NEW s \in Sessions
  PROVE  /\ ShutDown(s) \in [Sessions -> Opened \cup {Closed}]
         /\ \A t \in Sessions : /\ ShutDown(s)[t].agent = sess[t].agent
                                /\ ShutDown(s)[t].user = sess[t].user
                                /\ ShutDown(s)[t] = Closed <=> sess[t] = Closed
<1> DEFINE x == [sess[s] EXCEPT !.state = IF @ = "up" THEN "down" ELSE @]
<1>1. sess \in [Sessions -> Opened \cup {Closed}]
  BY DEF TypeOK
<1>2. /\ x \in Opened \cup {Closed} /\ x.agent = sess[s].agent /\ x.user = sess[s].user
      /\ x = Closed <=> sess[s] = Closed
  <2>1. CASE sess[s] \in Opened
    <3>1. x \in Opened /\ x.agent = sess[s].agent /\ x.user = sess[s].user
      BY <2>1 DEF Opened
    <3>2. \A y \in Opened : y # Closed
      BY DEF Opened, Closed
    <3> QED
      BY <2>1, <3>1, <3>2
  <2>2. CASE sess[s] = Closed
    BY <2>2 DEF Closed
  <2> QED
    BY <1>1, <2>1, <2>2
<1>3. ShutDown(s) = [sess EXCEPT ![s] = x]
  BY DEF ShutDown
<1> HIDE DEF x
<1> QED
  BY <1>1, <1>2, <1>3

\* A new row, or the one that is there, is in the hands of the fiber from now on; the
\* same of the nickname it asks for, and of the roles of its user.
LEMMA FiberLists ==
  ASSUME NEW x \in Fibers, NEW roles \in SUBSET Serials
  PROVE  LET y == [x EXCEPT !.at = "install", !.roles = roles]
         IN  y \in Fibers /\ y.at = "install" /\ y.roles = roles
BY DEF Fibers

LEMMA FiberTries ==
  ASSUME NEW x \in Fibers, NEW n \in Nicknames
  PROVE  LET y == [x EXCEPT !.at = "insert", !.nickname = n]
         IN  y \in Fibers /\ y.at = "insert" /\ y.nickname = n
BY DEF Fibers

LEMMA FiberAcquires ==
  ASSUME NEW x \in Fibers, NEW i \in Serials
  PROVE  LET y == [x EXCEPT !.at = "acquired", !.serial = i]
         IN  y \in Fibers /\ y.at = "acquired" /\ y.nickname = x.nickname /\ y.serial = i
BY DEF Fibers

LEMMA IdleType == Idle \in Fibers /\ Idle.at = "idle"
BY DEF Idle, Fibers

LEMMA GotoEffect ==
  ASSUME TypeOK, NEW s \in Sessions,
         NEW at \in {"idle", "install", "insert", "select", "acquired", "wait"}, Goto(s, at)
  PROVE  /\ fiber' \in [Sessions -> Fibers]
         /\ fiber'[s].at = at /\ fiber'[s].nickname = fiber[s].nickname
         /\ fiber'[s].serial = fiber[s].serial
         /\ \A t \in Sessions \ {s} : fiber'[t] = fiber[t]
<1>1. fiber \in [Sessions -> Fibers]
  BY DEF TypeOK
<1>2. LET y == [fiber[s] EXCEPT !.at = at]
      IN  y \in Fibers /\ y.at = at /\ y.nickname = fiber[s].nickname /\ y.serial = fiber[s].serial
  BY <1>1 DEF Fibers
<1> QED
  BY <1>1, <1>2 DEF Goto

LEMMA ReturnEffect ==
  ASSUME TypeOK, NEW s \in Sessions, Return(s)
  PROVE  /\ fiber' \in [Sessions -> Fibers] /\ fiber'[s].at = "idle"
         /\ \A t \in Sessions \ {s} : fiber'[t] = fiber[t]
BY IdleType DEF Return, TypeOK

\* Of all entries, only that of the user of s changes.
LEMMA EntryEffect ==
  ASSUME TypeOK, NEW s \in Sessions, sess[s] # Closed, NEW c \in Entries \cup {None},
         conn' = WithMe(s, c)
  PROVE  /\ conn' \in [Agents -> [Users -> Entries \cup {None}]]
         /\ \A a \in Agents, u \in Users :
              conn'[a][u] = IF a = sess[s].agent /\ u = User(s) THEN c ELSE conn[a][u]
BY SessionType DEF WithMe, TypeOK

\* What a role made by the fiber of s would be.
LEMMA RowType ==
  ASSUME TypeOK, FibersHaveSessions, NEW s \in Sessions,
         fiber[s].at \in {"insert", "select", "acquired", "wait"}
  PROVE  /\ sess[s] # Closed /\ User(s) \in Users /\ fiber[s].nickname \in Nicknames
         /\ Row(s) \in RoleRows
         /\ Row(s).username = User(s) /\ Row(s).nickname = fiber[s].nickname
BY SessionType DEF FibersHaveSessions, At, Row, RoleRows

\* What is sent for a role, and what becomes of it.
LEMMA RequestChanges ==
  ASSUME NEW x \in Creates, NEW stage \in {"insert", "select", "ok", "conflict"}
  PROVE  LET y == [x EXCEPT !.stage = stage]
         IN  y \in Creates /\ y.stage = stage /\ y.serial = x.serial /\ y.row = x.row
BY DEF Creates

LEMMA RequestIsThere ==
  ASSUME TypeOK, NEW s \in Sessions
  PROVE  /\ request[s] # NoRequest <=> request[s] \in Creates
         /\ request[s].stage \in {"insert", "select", "ok", "conflict"} => request[s] \in Creates
<1>1. \A x \in Creates : x # NoRequest
  BY DEF Creates, NoRequest
<1> QED
  BY <1>1 DEF TypeOK, NoRequest

\* No step takes a variable out of its type.
LEMMA TypeStep == TypeOK /\ FibersHaveSessions /\ RowsAsAcquired /\ [Next]_vars => TypeOK'
<1> SUFFICES ASSUME TypeOK, FibersHaveSessions, RowsAsAcquired, [Next]_vars PROVE TypeOK'
  OBVIOUS
<1> DEFINE Tables == /\ nickname \in [Nicknames -> NicknameRows \cup {None}]
                     /\ next_serial \in 1..(MaxSerial + 1)
                     /\ role \in [Serials -> RoleRows \cup {None}]
           Waits == \A s \in Sessions : At(s, "wait") => request[s] # NoRequest
           Others == /\ acquired \in [Serials -> RoleRows \cup {None}]
                     /\ released \subseteq Nicknames /\ disturbed \subseteq Users
                     /\ faults \in 0..MaxFaults
           Conns == conn \in [Agents -> [Users -> Entries \cup {None}]]
           Sess == sess \in [Sessions -> Opened \cup {Closed}]
           Fibs == fiber \in [Sessions -> Fibers]
           Reqs == request \in [Sessions -> Creates \cup {NoRequest}]
<1>0. TypeOK <=> Tables /\ Waits /\ Others /\ Conns /\ Sess /\ Fibs /\ Reqs
  BY DEF TypeOK
<1>1. TypeOK' <=> Tables' /\ Waits' /\ Others' /\ Conns' /\ Sess' /\ Fibs' /\ Reqs'
  BY DEF TypeOK, At
<1>2. UNCHANGED tables => Tables'
  BY <1>0 DEF tables
<1>3. UNCHANGED <<acquired, released>> /\ disturbed' \subseteq Users /\ faults' \in 0..MaxFaults => Others'
  BY <1>0
<1>4. Fault => faults' \in 0..MaxFaults
  BY <1>0 DEF Fault
<1>5. /\ UNCHANGED conn => Conns'
      /\ UNCHANGED sess => Sess'
      /\ UNCHANGED fiber => Fibs'
      /\ UNCHANGED request => Reqs'
      /\ UNCHANGED <<fiber, request>> => Waits'
  BY <1>0 DEF At
<1>6. ASSUME NEW s \in Sessions, UNCHANGED request,
             fiber'[s].at # "wait", \A t \in Sessions \ {s} : fiber'[t] = fiber[t]
      PROVE  Waits'
  BY <1>0, <1>6 DEF At
<1>7. disturbed \subseteq Users /\ faults \in 0..MaxFaults
  BY <1>0
<1>8. ASSUME NEW s \in Sessions, sess' = ShutDown(s) PROVE Sess'
  BY <1>8, ShutDownEffect
<1> HIDE DEF Tables, Waits, Others, Conns, Sess, Fibs, Reqs
<1>11. ASSUME NEW s \in Sessions, NEW a \in Agents, NEW u \in Users, Connect(s, a, u) PROVE TypeOK'
  <2>1. Sess'
    BY <1>0, <1>11 DEF Connect, Sess, Opened
  <2>2. RolesOf(u) \in SUBSET Serials
    BY DEF RolesOf
  <2>3. LET y == [fiber[s] EXCEPT !.at = "install", !.roles = RolesOf(u)]
        IN  y \in Fibers /\ y.at = "install"
    <3>1. fiber[s] \in Fibers
      BY DEF TypeOK
    <3> QED
      BY <2>2, <3>1, FiberLists
  <2>4. Fibs' /\ fiber'[s].at = "install" /\ \A t \in Sessions \ {s} : fiber'[t] = fiber[t]
    BY <1>0, <1>11, <2>3 DEF Connect, Fibs
  <2>5. disturbed' \subseteq Users
    BY <1>0, <1>11 DEF Connect, Others
  <2> QED
    BY <1>1, <1>2, <1>3, <1>5, <1>6, <1>7, <1>11, <2>1, <2>4, <2>5 DEF Connect
<1>12. ASSUME NEW s \in Sessions, Install(s) PROVE TypeOK'
  <2>1. sess[s] # Closed
    BY <1>12 DEF Install, FibersHaveSessions, At
  <2>2. [session |-> s, roles |-> fiber[s].roles] \in Entries
    BY DEF TypeOK, Fibers, Entries
  <2>3. Conns'
    BY <1>12, <2>1, <2>2, EntryEffect DEF Install, Conns
  <2>4. Sess'
    <3>1. CASE Me(s) = None
      BY <1>5, <1>12, <3>1 DEF Install
    <3>2. CASE Me(s) # None
      <4>1. Me(s) \in Entries
        BY <2>1, <3>2, SessionType DEF Me, TypeOK
      <4>2. Me(s).session \in Sessions
        BY <4>1 DEF Entries
      <4> QED
        BY <1>8, <1>12, <3>2, <4>2 DEF Install
    <3> QED
      BY <3>1, <3>2
  <2>5. Fibs' /\ fiber'[s].at = "idle" /\ \A t \in Sessions \ {s} : fiber'[t] = fiber[t]
    BY <1>12, ReturnEffect DEF Install, Fibs
  <2> QED
    BY <1>1, <1>2, <1>3, <1>5, <1>6, <1>7, <1>12, <2>3, <2>4, <2>5 DEF Install, history
<1>13. ASSUME NEW s \in Sessions, SessionEnds(s) PROVE TypeOK'
  BY <1>1, <1>2, <1>3, <1>5, <1>7, <1>8, <1>13 DEF SessionEnds, history
<1>14. ASSUME NEW a \in Agents, NEW u \in Users, PingTimeout(a, u) PROVE TypeOK'
  <2>1. conn[a][u].session \in Sessions
    BY <1>14 DEF PingTimeout, TypeOK, Entries
  <2>2. Conns'
    BY <1>0, <1>14 DEF PingTimeout, Conns
  <2>3. Sess'
    BY <1>8, <1>14, <2>1 DEF PingTimeout
  <2> QED
    BY <1>1, <1>2, <1>3, <1>4, <1>5, <1>7, <1>14, <2>2, <2>3 DEF PingTimeout, history
<1>15. ASSUME NEW s \in Sessions, Close(s) PROVE TypeOK'
  <2>1. Sess'
    BY <1>0, <1>15 DEF Close, Sess
  <2>2. sess[s] # Closed
    BY <1>15 DEF Close, Closed
  <2>3. Conns'
    BY <1>5, <1>15, <2>2, EntryEffect DEF Close, Conns
  <2> QED
    BY <1>1, <1>2, <1>3, <1>5, <1>7, <1>15, <2>1, <2>3 DEF Close, history
<1>16. ASSUME NEW s \in Sessions, FiberFails(s) PROVE TypeOK'
  <2>1. Fibs' /\ fiber'[s].at = "idle" /\ \A t \in Sessions \ {s} : fiber'[t] = fiber[t]
    BY <1>16, ReturnEffect DEF FiberFails, Throw, Fibs
  <2>2. Sess'
    BY <1>8, <1>16 DEF FiberFails, Throw
  <2> QED
    BY <1>1, <1>2, <1>3, <1>4, <1>5, <1>6, <1>7, <1>16, <2>1, <2>2 DEF FiberFails, history
<1>17. ASSUME NEW s \in Sessions, NEW n \in Nicknames, RoleCreate(s, n) PROVE TypeOK'
  <2>1. LET y == [fiber[s] EXCEPT !.at = "insert", !.nickname = n]
        IN  y \in Fibers /\ y.at = "insert"
    <3>1. fiber[s] \in Fibers
      BY DEF TypeOK
    <3> QED
      BY <3>1, FiberTries
  <2>2. Fibs' /\ fiber'[s].at = "insert" /\ \A t \in Sessions \ {s} : fiber'[t] = fiber[t]
    BY <1>0, <1>17, <2>1 DEF RoleCreate, Fibs
  <2> QED
    BY <1>1, <1>2, <1>3, <1>5, <1>6, <1>7, <1>17, <2>2 DEF RoleCreate, history
<1>18. ASSUME NEW s \in Sessions, InsertNickname(s) PROVE TypeOK'
  <2> DEFINE n == fiber[s].nickname
  <2>1. User(s) \in Users /\ n \in Nicknames /\ Row(s) \in RoleRows
    BY <1>18, RowType DEF InsertNickname, At
  <2>2. /\ UNCHANGED <<role, conn, sess, request, released, disturbed, faults>>
    BY <1>18 DEF InsertNickname
  <2>3. CASE NewNickname(s)
    <3>1. next_serial \in Serials
      BY <2>3 DEF NewNickname
    <3>2. [serial |-> next_serial, username |-> User(s)] \in NicknameRows
      BY <2>1, <3>1 DEF NicknameRows
    <3>3. Tables'
      <4>1. next_serial' \in 1..(MaxSerial + 1)
        BY <2>3, <3>1 DEF NewNickname, Serials
      <4> QED
        BY <1>0, <2>1, <2>2, <2>3, <3>2, <4>1 DEF NewNickname, Tables
    <3>4. Others'
      BY <1>0, <2>1, <2>2, <2>3 DEF NewNickname, Others
    <3>5. LET y == [fiber[s] EXCEPT !.at = "acquired", !.serial = next_serial]
          IN  y \in Fibers /\ y.at = "acquired"
      <4>1. fiber[s] \in Fibers
        BY DEF TypeOK
      <4> QED
        BY <3>1, <4>1, FiberAcquires
    <3>6. Fibs' /\ fiber'[s].at = "acquired" /\ \A t \in Sessions \ {s} : fiber'[t] = fiber[t]
      BY <1>0, <2>3, <3>5 DEF NewNickname, Fibs
    <3> QED
      BY <1>1, <1>5, <1>6, <2>2, <3>3, <3>4, <3>6
  <2>4. CASE ~NewNickname(s)
    <3>1. Goto(s, "select") /\ UNCHANGED <<nickname, next_serial, acquired>>
      BY <1>18, <2>4 DEF InsertNickname
    <3>2. Fibs' /\ fiber'[s].at = "select" /\ \A t \in Sessions \ {s} : fiber'[t] = fiber[t]
      BY <3>1, GotoEffect DEF Fibs
    <3> QED
      BY <1>1, <1>2, <1>3, <1>5, <1>6, <1>7, <2>2, <3>1, <3>2 DEF tables
  <2> QED
    BY <2>3, <2>4
<1>19. ASSUME NEW s \in Sessions, SelectNickname(s) PROVE TypeOK'
  <2>1. fiber[s].nickname \in Nicknames
    BY <1>19, RowType DEF SelectNickname, At
  <2>2. Fibs' /\ fiber'[s].at # "wait" /\ \A t \in Sessions \ {s} : fiber'[t] = fiber[t]
    <3>1. CASE Return(s)
      BY <3>1, ReturnEffect DEF Fibs
    <3>2. CASE ~Return(s)
      <4> DEFINE i == nickname[fiber[s].nickname].serial
      <4>1. /\ fiber' = [fiber EXCEPT ![s].at = "acquired", ![s].serial = i]
            /\ nickname[fiber[s].nickname] # None
        BY <1>19, <3>2 DEF SelectNickname
      <4>2. i \in Serials
        BY <2>1, <4>1 DEF TypeOK, NicknameRows
      <4> HIDE DEF i
      <4>3. LET y == [fiber[s] EXCEPT !.at = "acquired", !.serial = i]
            IN  y \in Fibers /\ y.at = "acquired"
        <5>1. fiber[s] \in Fibers
          BY DEF TypeOK
        <5> QED
          BY <4>2, <5>1, FiberAcquires
      <4> QED
        BY <1>0, <4>1, <4>3 DEF Fibs
    <3> QED
      BY <3>1, <3>2
  <2> QED
    BY <1>1, <1>2, <1>3, <1>5, <1>6, <1>7, <1>19, <2>2 DEF SelectNickname, history
<1>20. ASSUME NEW n \in Nicknames, ReleaseNickname(n) PROVE TypeOK'
  <2>1. Tables' /\ Others'
    BY <1>0, <1>4, <1>20 DEF ReleaseNickname, Tables, Others
  <2> QED
    BY <1>1, <1>5, <1>20, <2>1 DEF ReleaseNickname
<1>21. ASSUME NEW s \in Sessions, SendCreate(s) PROVE TypeOK'
  <2>1. Fibs' /\ \A t \in Sessions \ {s} : fiber'[t] = fiber[t]
    BY <1>21, GotoEffect DEF SendCreate, Fibs
  <2>2. [stage |-> "insert", serial |-> fiber[s].serial, row |-> Row(s)] \in Creates
    BY <1>21, RowType DEF SendCreate, At, RowsAsAcquired, Creates
  <2>3. /\ Reqs' /\ request'[s] \in Creates
        /\ \A t \in Sessions \ {s} : request'[t] = request[t]
    BY <1>0, <1>21, <2>2 DEF SendCreate, Reqs
  <2>4. Waits'
    <3>1. \A x \in Creates : x # NoRequest
      BY DEF Creates, NoRequest
    <3> QED
      BY <1>0, <2>1, <2>3, <3>1 DEF Waits, At
  <2> QED
    BY <1>1, <1>2, <1>3, <1>5, <1>7, <1>21, <2>1, <2>3, <2>4 DEF SendCreate, history
<1>22. ASSUME NEW s \in Sessions, NEW result \in {"ok", "conflict"}, Reply(s, result),
              request[s] # NoRequest, UNCHANGED fiber
       PROVE  Reqs' /\ Waits'
  <2>1. LET y == [request[s] EXCEPT !.stage = result] IN y \in Creates /\ y # NoRequest
    BY <1>22, RequestIsThere DEF Creates, NoRequest
  <2> QED
    BY <1>0, <1>22, <2>1 DEF Reply, Reqs, Waits, At
<1>23. ASSUME NEW s \in Sessions, InsertRole(s) PROVE TypeOK'
  <2>1. request[s] \in Creates /\ request[s] # NoRequest
    BY <1>23, RequestIsThere DEF InsertRole
  <2>2. Tables'
    BY <1>0, <1>23, <2>1 DEF InsertRole, Tables, Creates
  <2>3. Reqs' /\ Waits'
    <3>1. CASE Reply(s, "ok")
      BY <1>22, <1>23, <2>1, <3>1 DEF InsertRole
    <3>2. CASE ~Reply(s, "ok")
      <4>1. request' = [request EXCEPT ![s].stage = "select"] /\ UNCHANGED fiber
        BY <1>23, <3>2 DEF InsertRole
      <4>2. LET y == [request[s] EXCEPT !.stage = "select"] IN y \in Creates /\ y # NoRequest
        BY <2>1 DEF Creates, NoRequest
      <4> QED
        BY <1>0, <4>1, <4>2 DEF Reqs, Waits, At
    <3> QED
      BY <3>1, <3>2
  <2> QED
    BY <1>1, <1>3, <1>5, <1>7, <1>23, <2>2, <2>3 DEF InsertRole, history
<1>24. ASSUME NEW s \in Sessions, SelectRole(s) PROVE TypeOK'
  <2>1. request[s] # NoRequest
    BY <1>24 DEF SelectRole, NoRequest
  <2>2. \E result \in {"ok", "conflict"} : Reply(s, result)
    BY <1>24 DEF SelectRole
  <2>3. Reqs' /\ Waits'
    BY <1>22, <1>24, <2>1, <2>2 DEF SelectRole
  <2> QED
    BY <1>1, <1>2, <1>3, <1>5, <1>7, <1>24, <2>3 DEF SelectRole, history
<1>25. ASSUME NEW s \in Sessions, NEW x \in Creates \cup {NoRequest}, request' = [request EXCEPT ![s] = x],
              fiber'[s].at # "wait", \A t \in Sessions \ {s} : fiber'[t] = fiber[t]
       PROVE  Reqs' /\ Waits'
  BY <1>0, <1>25 DEF Reqs, Waits, At
<1>26. ASSUME NEW s \in Sessions, Throw(s)
       PROVE  /\ Fibs' /\ Sess' /\ fiber'[s].at # "wait"
              /\ \A t \in Sessions \ {s} : fiber'[t] = fiber[t]
  <2>1. Fibs' /\ fiber'[s].at = "idle" /\ \A t \in Sessions \ {s} : fiber'[t] = fiber[t]
    BY <1>26, ReturnEffect DEF Throw, Fibs
  <2> QED
    BY <1>8, <1>26, <2>1 DEF Throw
<1>27. ASSUME NEW s \in Sessions, At(s, "wait") PROVE User(s) \in Users /\ sess[s] # Closed
  BY <1>27, RowType DEF At
<1>28. ASSUME NEW s \in Sessions, RequestFails(s) PROVE TypeOK'
  <2>1. CASE At(s, "wait")
    BY <1>1, <1>2, <1>3, <1>4, <1>5, <1>7, <1>25, <1>26, <1>27, <1>28, <2>1 DEF RequestFails
  <2>2. CASE ~At(s, "wait")
    BY <1>1, <1>2, <1>3, <1>4, <1>5, <1>7, <1>25, <1>28, <2>2 DEF RequestFails, At
  <2> QED
    BY <2>1, <2>2
<1>29. ASSUME NEW s \in Sessions, AnswerLost(s) PROVE TypeOK'
  <2>1. \E x \in Creates \cup {NoRequest} : request' = [request EXCEPT ![s] = x]
    BY <1>0, <1>29 DEF AnswerLost, Reqs
  <2> QED
    BY <1>1, <1>2, <1>3, <1>4, <1>5, <1>7, <1>25, <1>26, <1>27, <1>29, <2>1 DEF AnswerLost
<1>30. ASSUME NEW s \in Sessions, Answered(s) PROVE TypeOK'
  <2>1. At(s, "wait") /\ request' = [request EXCEPT ![s] = NoRequest] /\ sess[s] # Closed
    BY <1>27, <1>30 DEF Answered
  <2>2. Throw(s) \/ (Return(s) /\ UNCHANGED sess)
    BY <1>30 DEF Answered
  <2>3. Fibs' /\ Sess' /\ fiber'[s].at # "wait" /\ \A t \in Sessions \ {s} : fiber'[t] = fiber[t]
    BY <1>5, <1>26, <2>2, ReturnEffect DEF Fibs
  <2>4. Conns'
    <3>1. CASE UNCHANGED conn
      BY <1>5, <3>1
    <3>2. CASE ~UNCHANGED conn
      <4>1. /\ conn' = WithMe(s, [Me(s) EXCEPT !.roles = @ \cup {request[s].serial}])
            /\ Me(s) # None /\ request[s].stage = "ok"
        BY <1>30, <3>2 DEF Answered
      <4>2. Me(s) \in Entries
        BY <2>1, <4>1, SessionType DEF Me, TypeOK
      <4>3. request[s].serial \in Serials
        BY <4>1, RequestIsThere DEF Creates
      <4>4. [Me(s) EXCEPT !.roles = @ \cup {request[s].serial}] \in Entries
        BY <4>2, <4>3 DEF Entries
      <4> QED
        BY <2>1, <4>1, <4>4, EntryEffect DEF Conns
    <3> QED
      BY <3>1, <3>2
  <2>5. Reqs' /\ Waits'
    BY <1>25, <2>1, <2>3
  <2> QED
    BY <1>1, <1>2, <1>3, <1>7, <1>30, <2>3, <2>4, <2>5 DEF Answered, history
<1>31. CASE UNCHANGED vars
  BY <1>1, <1>2, <1>3, <1>5, <1>7, <1>31 DEF vars, tables
<1> QED
  BY <1>11, <1>12, <1>13, <1>14, <1>15, <1>16, <1>17, <1>18, <1>19, <1>20, <1>21, <1>23, <1>24,
     <1>28, <1>29, <1>30, <1>31 DEF Next, Step, Monitor, Failure

\* A fiber that waits has a session: only what is idle is closed, and what is shut
\* down is not closed yet.
LEMMA SessionsStep == TypeOK /\ FibersHaveSessions /\ [Next]_vars => FibersHaveSessions'
<1> SUFFICES ASSUME TypeOK, FibersHaveSessions, [Next]_vars PROVE FibersHaveSessions'
  OBVIOUS
<1> DEFINE Has(f, x) == f.at # "idle" => x # Closed /\ (f.at # "install" => f.nickname \in Nicknames)
<1>0. \A s \in Sessions : Has(fiber[s], sess[s])
  BY DEF FibersHaveSessions, At
<1>1. (\A s \in Sessions : Has(fiber'[s], sess'[s])) => FibersHaveSessions'
  BY DEF FibersHaveSessions, At
<1>2. fiber \in [Sessions -> Fibers] /\ sess \in [Sessions -> Opened \cup {Closed}]
  BY DEF TypeOK
<1>3. ASSUME NEW s \in Sessions, sess' = ShutDown(s) \/ UNCHANGED sess
      PROVE  \A t \in Sessions : sess'[t] = Closed <=> sess[t] = Closed
  BY <1>3, ShutDownEffect
<1>4. ASSUME NEW s \in Sessions, fiber'[s].at = "idle", \A t \in Sessions \ {s} : fiber'[t] = fiber[t],
             \A t \in Sessions : sess'[t] = Closed <=> sess[t] = Closed
      PROVE  FibersHaveSessions'
  BY <1>0, <1>1, <1>4
<1>5. ASSUME NEW s \in Sessions, Throw(s) \/ (Return(s) /\ UNCHANGED sess) PROVE FibersHaveSessions'
  <2>1. Return(s) /\ (sess' = ShutDown(s) \/ UNCHANGED sess)
    BY <1>5 DEF Throw
  <2> QED
    BY <1>3, <1>4, <2>1, ReturnEffect
<1>6. ASSUME NEW s \in Sessions, Has(fiber'[s], sess[s]), \A t \in Sessions \ {s} : fiber'[t] = fiber[t],
             UNCHANGED sess
      PROVE  FibersHaveSessions'
  BY <1>0, <1>1, <1>6
<1>7. ASSUME UNCHANGED fiber, \A t \in Sessions : sess'[t] = Closed <=> sess[t] = Closed
      PROVE  FibersHaveSessions'
  BY <1>0, <1>1, <1>7
<1>11. ASSUME NEW s \in Sessions, NEW a \in Agents, NEW u \in Users, Connect(s, a, u)
       PROVE  FibersHaveSessions'
  <2>1. sess'[s] # Closed /\ \A t \in Sessions \ {s} : sess'[t] = sess[t]
    BY <1>2, <1>11 DEF Connect, Closed
  <2>2. LET y == [fiber[s] EXCEPT !.at = "install", !.roles = RolesOf(u)] IN y.at = "install"
    <3>1. fiber[s] \in Fibers /\ RolesOf(u) \in SUBSET Serials
      BY <1>2 DEF RolesOf
    <3> QED
      BY <3>1, FiberLists
  <2>3. fiber'[s].at = "install" /\ \A t \in Sessions \ {s} : fiber'[t] = fiber[t]
    BY <1>2, <1>11, <2>2 DEF Connect
  <2> QED
    BY <1>0, <1>1, <2>1, <2>3
<1>12. ASSUME NEW s \in Sessions, Install(s) PROVE FibersHaveSessions'
  <2>1. sess[s] # Closed /\ Return(s)
    BY <1>12 DEF Install, FibersHaveSessions, At
  <2>2. UNCHANGED sess \/ \E t \in Sessions : sess' = ShutDown(t)
    <3>1. CASE Me(s) # None
      <4>1. Me(s) \in Entries
        BY <2>1, <3>1, SessionType DEF Me, TypeOK
      <4>2. Me(s).session \in Sessions
        BY <4>1 DEF Entries
      <4> QED
        BY <1>12, <3>1, <4>2 DEF Install
    <3> QED
      BY <1>12, <3>1 DEF Install
  <2> QED
    BY <1>3, <1>4, <2>1, <2>2, ReturnEffect
<1>13. ASSUME NEW s \in Sessions, SessionEnds(s) PROVE FibersHaveSessions'
  BY <1>3, <1>7, <1>13 DEF SessionEnds
<1>14. ASSUME NEW a \in Agents, NEW u \in Users, PingTimeout(a, u) PROVE FibersHaveSessions'
  <2>1. conn[a][u].session \in Sessions
    BY <1>14 DEF PingTimeout, TypeOK, Entries
  <2> QED
    BY <1>3, <1>7, <1>14, <2>1 DEF PingTimeout
<1>15. ASSUME NEW s \in Sessions, Close(s) PROVE FibersHaveSessions'
  BY <1>0, <1>1, <1>2, <1>15 DEF Close, At
<1>16. ASSUME NEW s \in Sessions, FiberFails(s) PROVE FibersHaveSessions'
  BY <1>5, <1>16 DEF FiberFails
<1>17. ASSUME NEW s \in Sessions, NEW n \in Nicknames, RoleCreate(s, n) PROVE FibersHaveSessions'
  <2>1. LET y == [fiber[s] EXCEPT !.at = "insert", !.nickname = n] IN y.nickname = n
    BY <1>2, FiberTries
  <2>2. fiber'[s].nickname \in Nicknames /\ \A t \in Sessions \ {s} : fiber'[t] = fiber[t]
    BY <1>2, <1>17, <2>1 DEF RoleCreate
  <2> QED
    BY <1>6, <1>17, <2>2 DEF RoleCreate, Requests
<1>18. ASSUME NEW s \in Sessions, NEW i \in Serials, At(s, "insert") \/ At(s, "select"),
              fiber' = [fiber EXCEPT ![s].at = "acquired", ![s].serial = i], UNCHANGED sess
       PROVE  FibersHaveSessions'
  <2>1. LET y == [fiber[s] EXCEPT !.at = "acquired", !.serial = i] IN y.nickname = fiber[s].nickname
    BY <1>2, FiberAcquires
  <2>2. fiber'[s].nickname = fiber[s].nickname /\ \A t \in Sessions \ {s} : fiber'[t] = fiber[t]
    BY <1>2, <1>18, <2>1
  <2> QED
    BY <1>0, <1>6, <1>18, <2>2 DEF At
<1>19. ASSUME NEW s \in Sessions, Goto(s, "select") \/ Goto(s, "wait"), UNCHANGED sess,
              At(s, "insert") \/ At(s, "acquired")
       PROVE  FibersHaveSessions'
  <2>1. fiber'[s].nickname = fiber[s].nickname /\ \A t \in Sessions \ {s} : fiber'[t] = fiber[t]
    BY <1>19, GotoEffect
  <2> QED
    BY <1>0, <1>6, <1>19, <2>1 DEF At
<1>20. ASSUME NEW s \in Sessions, InsertNickname(s) PROVE FibersHaveSessions'
  BY <1>18, <1>19, <1>20 DEF InsertNickname, NewNickname
<1>21. ASSUME NEW s \in Sessions, SelectNickname(s) PROVE FibersHaveSessions'
  <2>1. CASE Return(s)
    BY <1>5, <1>21, <2>1 DEF SelectNickname
  <2>2. CASE ~Return(s)
    <3>1. nickname[fiber[s].nickname] # None /\ fiber[s].nickname \in Nicknames
      BY <1>0, <1>21, <2>2 DEF SelectNickname, At
    <3>2. nickname[fiber[s].nickname].serial \in Serials
      BY <3>1 DEF TypeOK, NicknameRows
    <3> QED
      BY <1>18, <1>21, <2>2, <3>2 DEF SelectNickname
  <2> QED
    BY <2>1, <2>2
<1>22. ASSUME NEW s \in Sessions, SendCreate(s) PROVE FibersHaveSessions'
  BY <1>19, <1>22 DEF SendCreate
<1>23. ASSUME NEW s \in Sessions, InsertRole(s) \/ SelectRole(s) PROVE FibersHaveSessions'
  BY <1>7, <1>23 DEF InsertRole, SelectRole
<1>24. ASSUME NEW s \in Sessions, RequestFails(s) \/ AnswerLost(s) PROVE FibersHaveSessions'
  BY <1>5, <1>7, <1>24 DEF RequestFails, AnswerLost
<1>25. ASSUME NEW s \in Sessions, Answered(s) PROVE FibersHaveSessions'
  BY <1>5, <1>25 DEF Answered
<1>26. ASSUME NEW n \in Nicknames, ReleaseNickname(n) PROVE FibersHaveSessions'
  BY <1>7, <1>26 DEF ReleaseNickname
<1>27. CASE UNCHANGED vars
  BY <1>7, <1>27 DEF vars
<1> QED
  BY <1>11, <1>12, <1>13, <1>14, <1>15, <1>16, <1>17, <1>20, <1>21, <1>22, <1>23, <1>24, <1>25, <1>26,
     <1>27 DEF Next, Step, Monitor, Failure

\* Whose session it is: it changes only when it is opened and when it is closed.
LEMMA SessionStays ==
  ASSUME TypeOK, FibersHaveSessions, [Next]_vars, NEW s \in Sessions
  PROVE  \/ /\ sess'[s].user = sess[s].user /\ sess'[s].agent = sess[s].agent
            /\ sess'[s] = Closed <=> sess[s] = Closed
         \/ \E a \in Agents, u \in Users : Connect(s, a, u)
         \/ Close(s)
<1> DEFINE Same == /\ sess'[s].user = sess[s].user /\ sess'[s].agent = sess[s].agent
                   /\ sess'[s] = Closed <=> sess[s] = Closed
<1>0. TypeOK /\ FibersHaveSessions /\ sess \in [Sessions -> Opened \cup {Closed}]
  BY DEF TypeOK
<1>1. ASSUME NEW t \in Sessions, sess' = ShutDown(t) PROVE Same
  BY <1>0, <1>1, ShutDownEffect
<1>2. ASSUME UNCHANGED sess PROVE Same
  BY <1>2
<1> HIDE DEF Same
<1>3. ASSUME NEW t \in Sessions, NEW a \in Agents, NEW u \in Users, Connect(t, a, u), t # s PROVE Same
  BY <1>0, <1>3 DEF Connect, Same
<1>4. ASSUME NEW t \in Sessions, Close(t), t # s PROVE Same
  BY <1>0, <1>4 DEF Close, Same
<1>5. ASSUME NEW t \in Sessions, Install(t) PROVE Same
  <2>1. CASE Me(t) # None
    <3>1. sess[t] # Closed
      BY <1>0, <1>5 DEF Install, FibersHaveSessions, At
    <3>2. Me(t) \in Entries
      BY <1>0, <2>1, <3>1, SessionType DEF Me, TypeOK
    <3>3. Me(t).session \in Sessions
      BY <3>2 DEF Entries
    <3> QED
      BY <1>1, <1>5, <2>1, <3>3 DEF Install
  <2> QED
    BY <1>2, <1>5, <2>1 DEF Install
<1>6. ASSUME NEW a \in Agents, NEW u \in Users, PingTimeout(a, u) PROVE Same
  <2>1. conn[a][u].session \in Sessions
    BY <1>0, <1>6 DEF PingTimeout, TypeOK, Entries
  <2> QED
    BY <1>1, <1>6, <2>1 DEF PingTimeout
<1>7. ASSUME NEW t \in Sessions, \/ SessionEnds(t) \/ FiberFails(t) \/ RequestFails(t) \/ AnswerLost(t)
                                 \/ Answered(t)
      PROVE  Same
  BY <1>1, <1>2, <1>7 DEF SessionEnds, FiberFails, RequestFails, AnswerLost, Answered, Throw
<1>8. ASSUME NEW t \in Sessions, \/ InsertNickname(t) \/ SelectNickname(t) \/ SendCreate(t)
                                 \/ InsertRole(t) \/ SelectRole(t)
      PROVE  Same
  BY <1>2, <1>8 DEF InsertNickname, SelectNickname, SendCreate, InsertRole, SelectRole
<1>9. ASSUME NEW n \in Nicknames, ReleaseNickname(n) \/ \E t \in Sessions : RoleCreate(t, n) PROVE Same
  BY <1>2, <1>9 DEF ReleaseNickname, RoleCreate
<1>10. Same \/ (\E a \in Agents, u \in Users : Connect(s, a, u)) \/ Close(s)
  BY <1>2, <1>3, <1>4, <1>5, <1>6, <1>7, <1>8, <1>9 DEF Next, Step, Monitor, Failure, vars
<1> QED
  BY <1>10 DEF Same

\* So it keeps its agent and user while its fiber waits.
LEMMA UsersStay ==
  ASSUME TypeOK, FibersHaveSessions, [Next]_vars, NEW s \in Sessions, ~At(s, "idle")
  PROVE  /\ sess'[s].user = sess[s].user /\ sess'[s].agent = sess[s].agent
         /\ sess[s] # Closed /\ sess'[s] # Closed
<1>1. sess[s] # Closed
  BY DEF FibersHaveSessions
<1>2. ~Close(s) /\ \A a \in Agents, u \in Users : ~Connect(s, a, u)
  BY <1>1 DEF Close, Connect, Free
<1> QED
  BY <1>1, <1>2, SessionStays

\* After the step the fiber of s has the serial of what it has acquired, if one.
FiberInOrder(s) ==
  fiber'[s].at \in {"acquired", "wait"} =>
    /\ ~At(s, "idle") /\ fiber'[s].nickname = fiber[s].nickname
    /\ fiber'[s].serial \in Serials /\ acquired'[fiber'[s].serial] = Row(s)

\* So has the request of s, and no conflict is found.
RequestInOrder(s) ==
  request'[s] # NoRequest =>
    /\ acquired'[request'[s].serial] = request'[s].row
    /\ request'[s].stage = "select" => role'[request'[s].serial] # None
    /\ request'[s].stage # "conflict"
    /\ fiber'[s].at = "wait" => request'[s].row = Row(s)

\* That is so if the fiber does not go on, and has not acquired anything.
LEMMA FiberAsBefore ==
  ASSUME Inv, NEW s \in Sessions, UNCHANGED acquired,
         fiber'[s].at \in {"acquired", "wait"} => fiber'[s] = fiber[s]
  PROVE  FiberInOrder(s)
<1> SUFFICES ASSUME fiber'[s].at \in {"acquired", "wait"} PROVE FiberInOrder(s)
  BY DEF FiberInOrder
<1>1. fiber[s].serial \in Serials /\ acquired[fiber[s].serial] = Row(s) /\ ~At(s, "idle")
  BY DEF Inv, RowsAsAcquired, At
<1> QED
  BY <1>1 DEF FiberInOrder

\* The same of a request that is gone, or has not changed, or is answered well.
LEMMA RequestAsBefore ==
  ASSUME Inv, NEW s \in Sessions, UNCHANGED acquired,
         \A i \in Serials : role[i] # None => role'[i] # None,
         fiber'[s].at = "wait" => At(s, "wait"),
         \/ request'[s] = request[s] \/ request'[s] = NoRequest
         \/ request[s] # NoRequest /\ request'[s] = [request[s] EXCEPT !.stage = "ok"]
  PROVE  RequestInOrder(s)
<1> SUFFICES ASSUME request'[s] # NoRequest, request[s] # NoRequest PROVE RequestInOrder(s)
  BY DEF RequestInOrder
<1>1. request[s] \in Creates
  BY RequestIsThere DEF Inv
<1>2. LET y == [request[s] EXCEPT !.stage = "ok"]
      IN  y.serial = request[s].serial /\ y.row = request[s].row /\ y.stage = "ok"
  BY <1>1, RequestChanges
<1>3. /\ request'[s].serial = request[s].serial /\ request'[s].row = request[s].row
      /\ request'[s].stage = request[s].stage \/ request'[s].stage = "ok"
  BY <1>2
<1>4. /\ acquired[request[s].serial] = request[s].row
      /\ request[s].stage = "select" => role[request[s].serial] # None
      /\ At(s, "wait") => request[s].row = Row(s)
      /\ request[s].stage # "conflict"
  BY DEF Inv, RowsAsAcquired, NoRoidConflict
<1>5. request[s].serial \in Serials
  BY <1>1 DEF Creates
<1> QED
  BY <1>2, <1>3, <1>4, <1>5 DEF RequestInOrder

\* What is left to show of a step that acquires and releases nothing.
LEMMA NothingAcquired ==
  ASSUME Inv, [Next]_vars, UNCHANGED <<nickname, next_serial, acquired, released>>,
         \A i \in Serials : role'[i] = role[i] \/ role'[i] = acquired[i],
         \A s \in Sessions : FiberInOrder(s) /\ RequestInOrder(s)
  PROVE  SerialsInOrder' /\ RowsAsAcquired' /\ SerialsInRows' /\ RolesAsAcquired' /\ NoRoidConflict'
<1>1. SerialsInOrder' /\ SerialsInRows' /\ RolesAsAcquired'
  BY DEF Inv, SerialsInOrder, SerialsInRows, RolesAsAcquired
<1>2. NoRoidConflict'
  BY DEF RequestInOrder, NoRoidConflict, NoRequest
<1>3. \A n \in Nicknames : nickname'[n] # None =>
        acquired'[nickname'[n].serial] = [username |-> nickname'[n].username, nickname |-> n]
  BY DEF Inv, RowsAsAcquired
<1>4. ASSUME NEW s \in Sessions, fiber'[s].at \in {"acquired", "wait"}
      PROVE  Row(s)' = Row(s)
  <2>1. fiber'[s].nickname = fiber[s].nickname /\ sess'[s].user = sess[s].user
    BY <1>4, UsersStay DEF Inv, FiberInOrder
  <2> QED
    BY <2>1 DEF Row, User
<1>5. \A s \in Sessions : fiber'[s].at \in {"acquired", "wait"} =>
        fiber'[s].serial \in Serials /\ acquired'[fiber'[s].serial] = Row(s)'
  BY <1>4 DEF FiberInOrder
<1>6. \A s \in Sessions : request'[s] # NoRequest =>
        /\ acquired'[request'[s].serial] = request'[s].row
        /\ request'[s].stage = "select" => role'[request'[s].serial] # None
        /\ At(s, "wait")' => request'[s].row = Row(s)'
  BY <1>4 DEF RequestInOrder, At
<1>7. RowsAsAcquired'
  BY <1>3, <1>5, <1>6 DEF RowsAsAcquired
<1> QED
  BY <1>1, <1>2, <1>7

\* Serials, rows and requests stay in order, and every role is as it was acquired.
LEMMA RowsStep ==
  Inv /\ [Next]_vars =>
    SerialsInOrder' /\ RowsAsAcquired' /\ SerialsInRows' /\ RolesAsAcquired' /\ NoRoidConflict'
<1> DEFINE Good == /\ SerialsInOrder /\ RowsAsAcquired /\ SerialsInRows
                   /\ RolesAsAcquired /\ NoRoidConflict
           Quiet == UNCHANGED <<nickname, next_serial, acquired, released>>
           Stops(s) == fiber'[s] = fiber[s] \/ fiber'[s].at \notin {"acquired", "wait"}
           Ends(s) == \/ request'[s] = request[s] \/ request'[s] = NoRequest
                      \/ request[s] # NoRequest /\ request'[s] = [request[s] EXCEPT !.stage = "ok"]
           Makes == \A i \in Serials : role'[i] = role[i] \/ (role[i] = None /\ role'[i] = acquired[i])
<1> SUFFICES ASSUME Inv, [Next]_vars PROVE Good'
  OBVIOUS
<1>0. /\ TypeOK /\ FibersHaveSessions /\ RowsAsAcquired /\ RolesAsAcquired
      /\ nickname \in [Nicknames -> NicknameRows \cup {None}]
      /\ role \in [Serials -> RoleRows \cup {None}]
      /\ fiber \in [Sessions -> Fibers] /\ sess \in [Sessions -> Opened \cup {Closed}]
      /\ request \in [Sessions -> Creates \cup {NoRequest}]
      /\ acquired \in [Serials -> RoleRows \cup {None}]
  BY DEF Inv, TypeOK
<1>1. ASSUME Quiet, Makes, \A s \in Sessions : FiberInOrder(s) /\ RequestInOrder(s) PROVE Good'
  BY <1>1, NothingAcquired
<1>2. ASSUME Quiet, NEW s \in Sessions, Stops(s) PROVE FiberInOrder(s)
  BY <1>2, FiberAsBefore
<1>3. ASSUME Quiet, Makes, NEW s \in Sessions, Stops(s), Ends(s) PROVE RequestInOrder(s)
  <2>1. \A i \in Serials : role[i] # None => role'[i] # None
    BY <1>3
  <2> QED
    BY <1>3, <2>1, RequestAsBefore DEF At
<1>4. ASSUME Quiet, Makes, \A s \in Sessions : Stops(s) /\ Ends(s) PROVE Good'
  BY <1>1, <1>2, <1>3, <1>4
<1>5. UNCHANGED tables => UNCHANGED <<nickname, next_serial>> /\ Makes
  BY DEF tables
<1>6. UNCHANGED <<tables, history>> => Quiet /\ Makes
  BY DEF tables, history
<1>7. ASSUME NEW s \in Sessions, Return(s) \/ Throw(s) PROVE \A t \in Sessions : Stops(t)
  BY <1>0, <1>7, ReturnEffect DEF Throw
<1> HIDE DEF Good
<1>11. ASSUME NEW s \in Sessions, NEW a \in Agents, NEW u \in Users, Connect(s, a, u) PROVE Good'
  <2>1. LET y == [fiber[s] EXCEPT !.at = "install", !.roles = RolesOf(u)] IN y.at = "install"
    <3>1. fiber[s] \in Fibers /\ RolesOf(u) \in SUBSET Serials
      BY <1>0 DEF RolesOf
    <3> QED
      BY <3>1, FiberLists
  <2>2. \A t \in Sessions : Stops(t)
    BY <1>0, <1>11, <2>1 DEF Connect
  <2> QED
    BY <1>4, <1>5, <1>11, <2>2 DEF Connect
<1>12. ASSUME NEW s \in Sessions, Install(s) PROVE Good'
  BY <1>4, <1>6, <1>7, <1>12 DEF Install
<1>13. ASSUME NEW s \in Sessions, SessionEnds(s) \/ Close(s) PROVE Good'
  BY <1>4, <1>6, <1>13 DEF SessionEnds, Close
<1>14. ASSUME NEW a \in Agents, NEW u \in Users, PingTimeout(a, u) PROVE Good'
  BY <1>4, <1>6, <1>14 DEF PingTimeout
<1>15. ASSUME NEW s \in Sessions, FiberFails(s) PROVE Good'
  BY <1>4, <1>6, <1>7, <1>15 DEF FiberFails
<1>16. ASSUME NEW s \in Sessions, NEW n \in Nicknames, RoleCreate(s, n) PROVE Good'
  <2>1. LET y == [fiber[s] EXCEPT !.at = "insert", !.nickname = n] IN y.at = "insert"
    BY <1>0, FiberTries
  <2>2. \A t \in Sessions : Stops(t)
    BY <1>0, <1>16, <2>1 DEF RoleCreate
  <2> QED
    BY <1>4, <1>6, <1>16, <2>2 DEF RoleCreate
<1>17. ASSUME NEW s \in Sessions, SelectNickname(s) PROVE Good'
  <2>1. CASE Return(s)
    BY <1>4, <1>6, <1>7, <1>17, <2>1 DEF SelectNickname
  <2>2. CASE ~Return(s)
    <3> DEFINE row == nickname[fiber[s].nickname]
    <3>1. /\ At(s, "select") /\ row # None /\ row.username = User(s)
          /\ fiber' = [fiber EXCEPT ![s].at = "acquired", ![s].serial = row.serial]
          /\ UNCHANGED <<tables, conn, sess, request, history, faults>>
      BY <1>17, <2>2 DEF SelectNickname
    <3>2. fiber[s].nickname \in Nicknames
      BY <1>0, <3>1, RowType DEF At
    <3>3. row.serial \in Serials
      BY <1>0, <3>1, <3>2 DEF NicknameRows
    <3>4. acquired[row.serial] = Row(s)
      BY <1>0, <3>1, <3>2 DEF RowsAsAcquired, Row
    <3> HIDE DEF row
    <3>5. /\ fiber'[s].at = "acquired" /\ fiber'[s].nickname = fiber[s].nickname
          /\ fiber'[s].serial = row.serial
          /\ \A t \in Sessions \ {s} : fiber'[t] = fiber[t]
      <4>1. LET y == [fiber[s] EXCEPT !.at = "acquired", !.serial = row.serial]
            IN  y.at = "acquired" /\ y.nickname = fiber[s].nickname /\ y.serial = row.serial
        BY <1>0, <3>3, FiberAcquires
      <4> QED
        BY <1>0, <3>1, <4>1
    <3>6. Quiet /\ Makes /\ ~At(s, "idle")
      BY <1>6, <3>1 DEF At
    <3>7. FiberInOrder(s)
      BY <3>3, <3>4, <3>5, <3>6 DEF FiberInOrder
    <3>8. RequestInOrder(s)
      BY <3>1, <3>5, <3>6, RequestAsBefore
    <3> QED
      BY <1>1, <1>2, <1>3, <3>1, <3>5, <3>6, <3>7, <3>8
  <2> QED
    BY <2>1, <2>2
<1>18. ASSUME NEW s \in Sessions, SendCreate(s) PROVE Good'
  <2>1. /\ fiber'[s].at = "wait" /\ fiber'[s].nickname = fiber[s].nickname
        /\ fiber'[s].serial = fiber[s].serial
        /\ \A t \in Sessions \ {s} : fiber'[t] = fiber[t]
    BY <1>0, <1>18, GotoEffect DEF SendCreate
  <2>2. Quiet /\ Makes /\ ~At(s, "idle")
    BY <1>6, <1>18 DEF SendCreate, At
  <2>3. fiber[s].serial \in Serials /\ acquired[fiber[s].serial] = Row(s)
    BY <1>0, <1>18 DEF SendCreate, At, RowsAsAcquired
  <2>4. /\ request'[s] = [stage |-> "insert", serial |-> fiber[s].serial, row |-> Row(s)]
        /\ \A t \in Sessions \ {s} : request'[t] = request[t]
    BY <1>0, <1>18 DEF SendCreate
  <2>5. FiberInOrder(s)
    BY <2>1, <2>2, <2>3 DEF FiberInOrder
  <2>6. RequestInOrder(s)
    BY <2>2, <2>3, <2>4 DEF RequestInOrder
  <2> QED
    BY <1>1, <1>2, <1>3, <2>1, <2>2, <2>4, <2>5, <2>6
<1>19. ASSUME NEW s \in Sessions, InsertRole(s) PROVE Good'
  <2>1. /\ request[s] \in Creates /\ request[s] # NoRequest /\ request[s].serial \in Serials
        /\ acquired[request[s].serial] = request[s].row
    BY <1>0, <1>19, RequestIsThere DEF InsertRole, RowsAsAcquired, Creates
  <2>2. Quiet /\ UNCHANGED fiber
    BY <1>19 DEF InsertRole, history
  <2>3. CASE role[request[s].serial] = None
    <3>1. role' = [role EXCEPT ![request[s].serial] = request[s].row] /\ Reply(s, "ok")
      BY <1>19, <2>3 DEF InsertRole
    <3>2. Makes
      BY <1>0, <2>1, <2>3, <3>1
    <3>3. \A t \in Sessions : Ends(t)
      BY <1>0, <2>1, <3>1 DEF Reply
    <3> QED
      BY <1>4, <2>2, <3>2, <3>3
  <2>4. CASE role[request[s].serial] # None
    <3>1. request' = [request EXCEPT ![s].stage = "select"] /\ UNCHANGED role
      BY <1>19, <2>4 DEF InsertRole
    <3>2. LET y == [request[s] EXCEPT !.stage = "select"]
          IN  y.stage = "select" /\ y.serial = request[s].serial /\ y.row = request[s].row
      BY <2>1, RequestChanges
    <3>3. /\ request'[s].stage = "select" /\ request'[s].serial = request[s].serial
          /\ request'[s].row = request[s].row
          /\ \A t \in Sessions \ {s} : request'[t] = request[t]
      BY <1>0, <3>1, <3>2
    <3>4. RequestInOrder(s)
      BY <1>0, <2>1, <2>2, <2>4, <3>1, <3>3 DEF RequestInOrder, RowsAsAcquired, At
    <3> QED
      BY <1>1, <1>2, <1>3, <2>2, <3>1, <3>3, <3>4
  <2> QED
    BY <2>3, <2>4
<1>20. ASSUME NEW s \in Sessions, SelectRole(s) PROVE Good'
  <2>1. /\ request[s] \in Creates /\ request[s] # NoRequest /\ request[s].serial \in Serials
        /\ acquired[request[s].serial] = request[s].row /\ role[request[s].serial] # None
    BY <1>0, <1>20, RequestIsThere DEF SelectRole, RowsAsAcquired, Creates
  <2>2. role[request[s].serial].username = request[s].row.username
    BY <1>0, <2>1 DEF RolesAsAcquired
  <2>3. Reply(s, "ok") /\ Quiet /\ Makes /\ UNCHANGED fiber
    BY <1>6, <1>20, <2>2 DEF SelectRole
  <2>4. \A t \in Sessions : Ends(t)
    BY <1>0, <2>1, <2>3 DEF Reply
  <2> QED
    BY <1>4, <2>3, <2>4
<1>21. ASSUME NEW s \in Sessions, RequestFails(s) PROVE Good'
  BY <1>0, <1>4, <1>5, <1>7, <1>21 DEF RequestFails
<1>22. ASSUME NEW s \in Sessions, AnswerLost(s) PROVE Good'
  BY <1>0, <1>4, <1>5, <1>7, <1>22 DEF AnswerLost
<1>23. ASSUME NEW s \in Sessions, Answered(s) PROVE Good'
  <2>1. Return(s) \/ Throw(s)
    BY <1>23 DEF Answered
  <2> QED
    BY <1>0, <1>4, <1>6, <1>7, <1>23, <2>1 DEF Answered
<1>24. ASSUME NEW s \in Sessions, InsertNickname(s), Goto(s, "select"),
              UNCHANGED <<nickname, next_serial, acquired>>
       PROVE  Good'
  <2>1. \A t \in Sessions : Stops(t)
    BY <1>0, <1>24, GotoEffect
  <2> QED
    BY <1>4, <1>24, <2>1 DEF InsertNickname
<1>25. ASSUME NEW s \in Sessions, InsertNickname(s), nickname[fiber[s].nickname] = None, NewNickname(s)
       PROVE  Good'
  <2> DEFINE n == fiber[s].nickname
  <2>1. /\ n \in Nicknames /\ User(s) \in Users /\ Row(s) \in RoleRows /\ next_serial \in Serials
        /\ Row(s) = [username |-> User(s), nickname |-> n] /\ Row(s).nickname = n
    BY <1>0, <1>25, RowType DEF InsertNickname, NewNickname, At, Row
  <2>2. /\ nickname' = [nickname EXCEPT ![n] = [serial |-> next_serial, username |-> User(s)]]
        /\ acquired' = [acquired EXCEPT ![next_serial] = Row(s)]
        /\ next_serial' = next_serial + 1
        /\ fiber' = [fiber EXCEPT ![s].at = "acquired", ![s].serial = next_serial]
        /\ UNCHANGED <<role, conn, sess, request, released, disturbed, faults>>
    BY <1>25 DEF InsertNickname, NewNickname
  <2>3. acquired[next_serial] = None
    BY <2>1 DEF Inv, SerialsInOrder, Serials
  <2>4. \A i \in Serials : acquired[i] # None => acquired'[i] = acquired[i] /\ i # next_serial
    BY <1>0, <2>2, <2>3
  <2>5. acquired'[next_serial] = Row(s) /\ Row(s) # None
    BY <1>0, <2>1, <2>2
  <2>6. /\ fiber'[s].at = "acquired" /\ fiber'[s].nickname = n /\ fiber'[s].serial = next_serial
        /\ \A t \in Sessions \ {s} : fiber'[t] = fiber[t]
    <3>1. LET y == [fiber[s] EXCEPT !.at = "acquired", !.serial = next_serial]
          IN  y.at = "acquired" /\ y.nickname = n /\ y.serial = next_serial
      <4>1. fiber[s] \in Fibers
        BY <1>0
      <4> QED
        BY <2>1, <4>1, FiberAcquires
    <3> QED
      BY <1>0, <2>2, <3>1
  <2>7. \A t \in Sessions : Row(t)' = Row(t)
    BY <2>2, <2>6 DEF Row, User
  <2>8. SerialsInOrder'
    BY <1>0, <2>1, <2>2 DEF Inv, SerialsInOrder, Serials
  <2>9. /\ nickname'[n].serial = next_serial /\ nickname'[n].username = User(s) /\ nickname'[n] # None
        /\ \A m \in Nicknames \ {n} : nickname'[m] = nickname[m]
    <3>1. [serial |-> next_serial, username |-> User(s)] \in NicknameRows
      BY <2>1 DEF NicknameRows
    <3> QED
      BY <1>0, <2>1, <2>2, <3>1
  <2> HIDE DEF n
  <2>10. RowsAsAcquired'
    <3>1. ASSUME NEW m \in Nicknames, nickname'[m] # None
          PROVE  acquired'[nickname'[m].serial] = [username |-> nickname'[m].username, nickname |-> m]
      <4>1. CASE m = n
        BY <2>1, <2>5, <2>9, <4>1
      <4>2. CASE m # n
        <5>1. nickname[m] \in NicknameRows
          BY <1>0, <2>9, <3>1, <4>2
        <5>2. nickname[m].serial \in Serials /\ nickname[m].username \in Users
          BY <5>1 DEF NicknameRows
        <5>3. acquired[nickname[m].serial] = [username |-> nickname[m].username, nickname |-> m]
          BY <1>0, <2>9, <3>1, <4>2 DEF RowsAsAcquired
        <5>4. [username |-> nickname[m].username, nickname |-> m] # None
          BY <5>2 DEF RoleRows
        <5> QED
          BY <2>4, <2>9, <4>2, <5>2, <5>3, <5>4
      <4> QED
        BY <4>1, <4>2
    <3>2. ASSUME NEW t \in Sessions, fiber'[t].at \in {"acquired", "wait"}
          PROVE  fiber'[t].serial \in Serials /\ acquired'[fiber'[t].serial] = Row(t)'
      <4>1. CASE t = s
        BY <2>1, <2>5, <2>6, <2>7, <4>1
      <4>2. CASE t # s
        <5>1. fiber[t].serial \in Serials /\ acquired[fiber[t].serial] = Row(t) /\ Row(t) \in RoleRows
          BY <1>0, <2>6, <3>2, <4>2, RowType DEF RowsAsAcquired
        <5> QED
          BY <2>4, <2>6, <2>7, <4>2, <5>1
      <4> QED
        BY <4>1, <4>2
    <3>3. ASSUME NEW t \in Sessions, request'[t] # NoRequest
          PROVE  /\ acquired'[request'[t].serial] = request'[t].row
                 /\ request'[t].stage = "select" => role'[request'[t].serial] # None
                 /\ At(t, "wait")' => request'[t].row = Row(t)'
      <4>1. request[t] \in Creates /\ request[t].serial \in Serials /\ request[t].row \in RoleRows
        BY <1>0, <2>2, <3>3, RequestIsThere DEF Creates
      <4>2. /\ acquired[request[t].serial] = request[t].row
            /\ request[t].stage = "select" => role[request[t].serial] # None
            /\ At(t, "wait") => request[t].row = Row(t)
        BY <1>0, <2>2, <3>3 DEF RowsAsAcquired
      <4>3. At(t, "wait")' => At(t, "wait")
        BY <2>6 DEF At
      <4> QED
        BY <2>2, <2>4, <2>7, <4>1, <4>2, <4>3
    <3> QED
      BY <3>1, <3>2, <3>3 DEF RowsAsAcquired
  <2>11. SerialsInRows'
    <3> SUFFICES ASSUME NEW i \in Serials, acquired'[i] # None, acquired'[i].nickname \notin released
                 PROVE  /\ nickname'[acquired'[i].nickname] # None
                        /\ nickname'[acquired'[i].nickname].serial = i
      BY <2>2 DEF SerialsInRows
    <3>1. CASE i = next_serial
      BY <2>1, <2>5, <2>9, <3>1 DEF n
    <3>2. CASE i # next_serial
      <4>1. acquired'[i] = acquired[i]
        BY <1>0, <2>2, <3>2
      <4>2. nickname[acquired[i].nickname] # None /\ nickname[acquired[i].nickname].serial = i
        BY <4>1 DEF Inv, SerialsInRows
      <4>3. acquired[i].nickname \in Nicknames
        BY <1>0, <4>1 DEF RoleRows
      <4> QED
        BY <1>25, <2>9, <4>1, <4>2, <4>3 DEF n
    <3> QED
      BY <3>1, <3>2
  <2>12. RolesAsAcquired' /\ NoRoidConflict'
    BY <1>0, <2>2, <2>4 DEF Inv, RolesAsAcquired, NoRoidConflict
  <2> QED
    BY <2>8, <2>10, <2>11, <2>12 DEF Good
<1>26. ASSUME NEW n \in Nicknames, ReleaseNickname(n) PROVE Good'
  <2>1. /\ nickname' = [nickname EXCEPT ![n] = None] /\ released' = released \cup {n}
        /\ UNCHANGED <<next_serial, role, conn, sess, fiber, request, acquired, disturbed>>
    BY <1>26 DEF ReleaseNickname
  <2>2. \A m \in Nicknames : nickname'[m] = IF m = n THEN None ELSE nickname[m]
    BY <1>0, <2>1
  <2>3. RowsAsAcquired'
    BY <1>0, <2>1, <2>2 DEF RowsAsAcquired, At, Row, User
  <2>4. SerialsInRows'
    <3> SUFFICES ASSUME NEW i \in Serials, acquired[i] # None, acquired[i].nickname \notin released,
                        acquired[i].nickname # n
                 PROVE  /\ nickname'[acquired[i].nickname] # None
                        /\ nickname'[acquired[i].nickname].serial = i
      BY <2>1 DEF SerialsInRows
    <3>1. acquired[i].nickname \in Nicknames
      BY <1>0 DEF RoleRows
    <3> QED
      BY <2>2, <3>1 DEF Inv, SerialsInRows
  <2> QED
    BY <2>1, <2>3, <2>4 DEF Good, Inv, SerialsInOrder, RolesAsAcquired, NoRoidConflict
<1>27. CASE UNCHANGED vars
  BY <1>4, <1>27 DEF vars
<1>28. ASSUME NEW s \in Sessions, InsertNickname(s) PROVE Good'
  BY <1>24, <1>25, <1>28 DEF InsertNickname
<1> QED
  BY <1>11, <1>12, <1>13, <1>14, <1>15, <1>16, <1>17, <1>18, <1>19, <1>20, <1>21, <1>22, <1>23,
     <1>26, <1>27, <1>28 DEF Next, Step, Monitor, Failure

LEMMA InvInit == Init => Inv
BY DEF Init, Inv, TypeOK, FibersHaveSessions, SerialsInOrder, RowsAsAcquired, SerialsInRows,
       RolesAsAcquired, NoRoidConflict, At, Idle, NoRequest, Closed, Fibers, Serials

LEMMA InvStep == Inv /\ [Next]_vars => Inv'
BY TypeStep, SessionsStep, RowsStep DEF Inv

LEMMA InvHolds == Spec => []Inv
BY InvInit, InvStep, PTL DEF Spec

\* Types: also that a fiber waits only for an answer to a request there is.
THEOREM TypeCorrect == Spec => []TypeOK
<1>1. Inv => TypeOK
  BY DEF Inv
<1> QED
  BY InvHolds, <1>1, PTL

\* Whoever has raced for the nickname and however often it was tried, a role has the
\* user and the nickname for which its serial was acquired.
THEOREM RolesMatch == Spec => []RolesAsAcquired
<1>1. Inv => RolesAsAcquired
  BY DEF Inv
<1> QED
  BY InvHolds, <1>1, PTL

\* The monitor answers no user with gs_roid_conflict: there cannot be a role of that ID
\* that is another user's.
THEOREM NoConflict == Spec => []NoRoidConflict
<1>1. Inv => NoRoidConflict
  BY DEF Inv
<1> QED
  BY InvHolds, <1>1, PTL

\* There are two roles of one nickname only if it has been released between them.
THEOREM OneRole == Spec => []OneRolePerNickname
<1>1. Inv => OneRolePerNickname
  BY DEF Inv, RolesAsAcquired, SerialsInRows, OneRolePerNickname
<1> QED
  BY InvHolds, <1>1, PTL

-----------------------------------------------------------------------------
\* What a step does to one session, whoever takes it.

\* What its fiber waits for.
Moves(s) ==
  \/ fiber'[s] = fiber[s]
  \/ fiber'[s].at = "idle" /\ (At(s, "wait") => Answered(s) \/ User(s) \in disturbed')
  \/ fiber'[s].at = "install" /\ \E a \in Agents, u \in Users : Connect(s, a, u)
  \/ fiber'[s].at = "insert" /\ \E n \in Nicknames : RoleCreate(s, n)
  \/ fiber'[s].at \in {"select", "acquired"} /\ fiber[s].at \in {"insert", "select"}
  \/ fiber'[s].at = "wait" /\ At(s, "acquired")

\* Its request to the monitor.
Asks(s) ==
  \/ request'[s] = request[s]
  \/ request'[s] = NoRequest /\ fiber'[s].at # "wait"
  \/ fiber'[s].at = "wait" /\ At(s, "acquired")
  \/ /\ request[s] # NoRequest /\ fiber'[s] = fiber[s]
     /\ request'[s].serial = request[s].serial /\ request'[s].row = request[s].row

LEMMA SessionMoves ==
  ASSUME Inv, [Next]_vars, NEW s \in Sessions
  PROVE  Moves(s) /\ Asks(s)
<1> DEFINE Good == Moves(s) /\ Asks(s)
<1>0. /\ TypeOK /\ FibersHaveSessions
      /\ fiber \in [Sessions -> Fibers] /\ request \in [Sessions -> Creates \cup {NoRequest}]
  BY DEF Inv, TypeOK
<1>1. ASSUME fiber'[s] = fiber[s], request'[s] = request[s] PROVE Good
  BY <1>1 DEF Moves, Asks
<1>2. ASSUME NEW t \in Sessions, \A x \in Sessions \ {t} : fiber'[x] = fiber[x], UNCHANGED request,
             t = s => Moves(s)
      PROVE  Good
  BY <1>1, <1>2 DEF Asks
<1>3. ASSUME fiber'[s].at = "idle", ~At(s, "wait") PROVE Moves(s)
  BY <1>3 DEF Moves
<1>4. ASSUME NEW t \in Sessions, Return(t)
      PROVE  fiber'[t].at = "idle" /\ \A x \in Sessions \ {t} : fiber'[x] = fiber[x]
  BY <1>0, <1>4, ReturnEffect
<1> HIDE DEF Good
<1>11. ASSUME NEW t \in Sessions, NEW a \in Agents, NEW u \in Users, Connect(t, a, u) PROVE Good
  <2>1. LET y == [fiber[t] EXCEPT !.at = "install", !.roles = RolesOf(u)] IN y.at = "install"
    <3>1. fiber[t] \in Fibers /\ RolesOf(u) \in SUBSET Serials
      BY <1>0 DEF RolesOf
    <3> QED
      BY <3>1, FiberLists
  <2>2. fiber'[t].at = "install" /\ \A x \in Sessions \ {t} : fiber'[x] = fiber[x]
    BY <1>0, <1>11, <2>1 DEF Connect
  <2> QED
    BY <1>2, <1>11, <2>2 DEF Connect, Moves
<1>12. ASSUME NEW t \in Sessions, Install(t) \/ FiberFails(t) PROVE Good
  <2>1. Return(t) /\ ~At(t, "wait") /\ UNCHANGED request
    BY <1>12 DEF Install, FiberFails, Throw, At
  <2> QED
    BY <1>2, <1>3, <1>4, <2>1
<1>13. ASSUME NEW t \in Sessions, NEW n \in Nicknames, RoleCreate(t, n) PROVE Good
  <2>1. LET y == [fiber[t] EXCEPT !.at = "insert", !.nickname = n] IN y.at = "insert"
    BY <1>0, FiberTries
  <2>2. fiber'[t].at = "insert" /\ \A x \in Sessions \ {t} : fiber'[x] = fiber[x]
    BY <1>0, <1>13, <2>1 DEF RoleCreate
  <2> QED
    BY <1>2, <1>13, <2>2 DEF RoleCreate, Moves
<1>14. ASSUME NEW t \in Sessions, InsertNickname(t) \/ SelectNickname(t), NEW i \in Serials,
              fiber' = [fiber EXCEPT ![t].at = "acquired", ![t].serial = i]
       PROVE  Good
  <2>1. LET y == [fiber[t] EXCEPT !.at = "acquired", !.serial = i] IN y.at = "acquired"
    <3>1. fiber[t] \in Fibers
      BY <1>0
    <3> QED
      BY <3>1, FiberAcquires
  <2>2. fiber'[t].at = "acquired" /\ \A x \in Sessions \ {t} : fiber'[x] = fiber[x]
    BY <1>0, <1>14, <2>1
  <2> QED
    BY <1>2, <1>14, <2>2 DEF InsertNickname, SelectNickname, At, Moves
<1>15. ASSUME NEW t \in Sessions, InsertNickname(t) PROVE Good
  <2>1. CASE Goto(t, "select")
    <3>1. fiber'[t].at = "select" /\ \A x \in Sessions \ {t} : fiber'[x] = fiber[x]
      BY <1>0, <2>1, GotoEffect
    <3> QED
      BY <1>2, <1>15, <3>1 DEF InsertNickname, At, Moves
  <2> QED
    BY <1>14, <1>15, <2>1 DEF InsertNickname, NewNickname
<1>16. ASSUME NEW t \in Sessions, SelectNickname(t) PROVE Good
  <2>1. CASE Return(t)
    BY <1>2, <1>3, <1>4, <1>16, <2>1 DEF SelectNickname, At
  <2>2. CASE ~Return(t)
    <3>1. nickname[fiber[t].nickname] # None /\ fiber[t].nickname \in Nicknames
      BY <1>0, <1>16, <2>2, RowType DEF SelectNickname, At
    <3>2. nickname[fiber[t].nickname].serial \in Serials
      BY <1>0, <3>1 DEF TypeOK, NicknameRows
    <3> QED
      BY <1>14, <1>16, <2>2, <3>2 DEF SelectNickname
  <2> QED
    BY <2>1, <2>2
<1>17. ASSUME NEW t \in Sessions, SendCreate(t) PROVE Good
  <2>1. fiber'[t].at = "wait" /\ \A x \in Sessions \ {t} : fiber'[x] = fiber[x]
    BY <1>0, <1>17, GotoEffect DEF SendCreate
  <2>2. \A x \in Sessions \ {t} : request'[x] = request[x]
    BY <1>0, <1>17 DEF SendCreate
  <2> QED
    BY <1>1, <1>17, <2>1, <2>2 DEF SendCreate, Moves, Asks, Good
<1>18. ASSUME NEW t \in Sessions, NEW result, Reply(t, result), UNCHANGED fiber,
              request[t] \in Creates
       PROVE  Good
  <2>1. LET y == [request[t] EXCEPT !.stage = result]
        IN  y.serial = request[t].serial /\ y.row = request[t].row
    BY <1>18 DEF Creates
  <2>2. request[t] # NoRequest
    BY <1>0, <1>18, RequestIsThere
  <2> QED
    BY <1>0, <1>18, <2>1, <2>2 DEF Reply, At, Moves, Asks, Good
<1>19. ASSUME NEW t \in Sessions, InsertRole(t) \/ SelectRole(t) PROVE Good
  <2>1. request[t] \in Creates /\ request[t] # NoRequest
    BY <1>0, <1>19, RequestIsThere DEF InsertRole, SelectRole
  <2>2. CASE request' = [request EXCEPT ![t].stage = "select"]
    <3>1. LET y == [request[t] EXCEPT !.stage = "select"]
          IN  y.serial = request[t].serial /\ y.row = request[t].row
      BY <2>1, RequestChanges
    <3> QED
      BY <1>0, <1>19, <2>1, <2>2, <3>1 DEF InsertRole, SelectRole, Moves, Asks, Good
  <2> QED
    BY <1>18, <1>19, <2>1, <2>2 DEF InsertRole, SelectRole
<1>20. ASSUME NEW t \in Sessions, RequestFails(t) \/ AnswerLost(t) \/ Answered(t) PROVE Good
  <2>1. \A x \in Sessions \ {t} : fiber'[x] = fiber[x] /\ request'[x] = request[x]
    BY <1>0, <1>4, <1>20 DEF RequestFails, AnswerLost, Answered, Throw
  <2>2. CASE fiber'[t].at = "idle"
    <3>1. At(t, "wait") => Answered(t) \/ User(t) \in disturbed'
      BY <1>20 DEF RequestFails, AnswerLost
    <3>2. request'[t] = request[t] \/ request'[t] = NoRequest
      BY <1>0, <1>20 DEF RequestFails, AnswerLost, Answered
    <3> QED
      BY <1>1, <2>1, <2>2, <3>1, <3>2 DEF Moves, Asks, Good
  <2>3. CASE fiber'[t].at # "idle"
    <3>1. RequestFails(t) /\ ~At(t, "wait")
      BY <1>4, <1>20, <2>3 DEF RequestFails, AnswerLost, Answered, Throw
    <3> QED
      BY <1>0, <1>1, <2>1, <3>1 DEF RequestFails, At, Moves, Asks, Good
  <2> QED
    BY <2>2, <2>3
<1>21. ASSUME NEW t \in Sessions, SessionEnds(t) \/ Close(t) PROVE Good
  BY <1>1, <1>21 DEF SessionEnds, Close
<1>22. ASSUME NEW a \in Agents, NEW u \in Users, PingTimeout(a, u) PROVE Good
  BY <1>1, <1>22 DEF PingTimeout
<1>23. ASSUME NEW n \in Nicknames, ReleaseNickname(n) PROVE Good
  BY <1>1, <1>23 DEF ReleaseNickname
<1>24. CASE UNCHANGED vars
  BY <1>1, <1>24 DEF vars, Good
<1> QED
  BY <1>11, <1>12, <1>13, <1>15, <1>16, <1>17, <1>19, <1>20, <1>21, <1>22, <1>23, <1>24
     DEF Next, Step, Monitor, Failure, Good

\* While it waits: the request it waits for is the one it has sent.
LEMMA Waits ==
  ASSUME Inv, [Next]_vars, NEW s \in Sessions, At(s, "wait")
  PROVE  /\ fiber'[s].at = "wait" => fiber'[s] = fiber[s] /\ request'[s].serial = request[s].serial
         /\ fiber'[s].at # "wait" => Answered(s) \/ User(s) \in disturbed'
<1>1. Moves(s) /\ Asks(s) /\ TypeOK /\ FibersHaveSessions
  BY SessionMoves DEF Inv
<1>2. sess[s] # Closed
  BY <1>1 DEF FibersHaveSessions, At
<1>3. \A a \in Agents, u \in Users : ~Connect(s, a, u)
  BY <1>2 DEF Connect, Free
<1>4. \A n \in Nicknames : ~RoleCreate(s, n)
  BY DEF RoleCreate, Requests, At
<1> QED
  BY <1>1, <1>3, <1>4 DEF Moves, Asks, At


LEMMA DisturbedGrows == TypeOK /\ [Next]_vars => disturbed \subseteq disturbed'
BY DEF Next, Step, Monitor, Failure, Connect, Install, SessionEnds, PingTimeout, Close, FiberFails,
       RoleCreate, InsertNickname, SelectNickname, SendCreate, InsertRole, SelectRole, RequestFails,
       AnswerLost, Answered, ReleaseNickname, history, vars

\* An entry that is there after a step was there, and lists what it did, or its session
\* has just been published.
LEMMA EntryStays ==
  ASSUME Inv, [Next]_vars, NEW a \in Agents, NEW u \in Users, conn'[a][u] # None
  PROVE  \/ /\ conn[a][u] # None /\ conn'[a][u].session = conn[a][u].session
            /\ conn[a][u].roles \subseteq conn'[a][u].roles
         \/ \E s \in Sessions : /\ Install(s) /\ a = sess[s].agent /\ u = User(s) /\ sess[s] # Closed
                                /\ conn'[a][u] = [session |-> s, roles |-> fiber[s].roles]
<1> DEFINE Goal == \/ /\ conn[a][u] # None /\ conn'[a][u].session = conn[a][u].session
                      /\ conn[a][u].roles \subseteq conn'[a][u].roles
                   \/ \E s \in Sessions : /\ Install(s) /\ a = sess[s].agent /\ u = User(s)
                                          /\ sess[s] # Closed
                                          /\ conn'[a][u] = [session |-> s, roles |-> fiber[s].roles]
<1>0. TypeOK /\ FibersHaveSessions /\ conn \in [Agents -> [Users -> Entries \cup {None}]]
  BY DEF Inv, TypeOK
<1>1. conn'[a][u] = conn[a][u] => Goal
  OBVIOUS
<1>2. ASSUME NEW s \in Sessions, Install(s) PROVE Goal
  <2>1. sess[s] # Closed
    BY <1>0, <1>2 DEF Install, FibersHaveSessions, At
  <2>2. [session |-> s, roles |-> fiber[s].roles] \in Entries
    BY <1>0 DEF TypeOK, Fibers, Entries
  <2>3. conn'[a][u] = IF a = sess[s].agent /\ u = User(s)
                        THEN [session |-> s, roles |-> fiber[s].roles] ELSE conn[a][u]
    BY <1>0, <1>2, <2>1, <2>2, EntryEffect DEF Install
  <2> QED
    BY <1>2, <2>1, <2>3
<1>3. ASSUME NEW s \in Sessions, Close(s) PROVE Goal
  <2>1. sess[s] # Closed
    BY <1>3 DEF Close, Closed
  <2>2. CASE conn' = WithMe(s, None)
    <3>1. conn'[a][u] = IF a = sess[s].agent /\ u = User(s) THEN None ELSE conn[a][u]
      BY <1>0, <2>1, <2>2, EntryEffect
    <3> QED
      BY <1>1, <3>1
  <2> QED
    BY <1>1, <1>3, <2>2 DEF Close
<1>4. ASSUME NEW b \in Agents, NEW v \in Users, PingTimeout(b, v) PROVE Goal
  BY <1>0, <1>1, <1>4 DEF PingTimeout
<1>5. ASSUME NEW s \in Sessions, Answered(s) PROVE Goal
  <2>1. CASE UNCHANGED conn
    BY <1>1, <2>1
  <2>2. CASE ~UNCHANGED conn
    <3> DEFINE c == [Me(s) EXCEPT !.roles = @ \cup {request[s].serial}]
    <3>1. conn' = WithMe(s, c) /\ Me(s) # None /\ request[s].stage = "ok" /\ sess[s] # Closed
      BY <1>0, <1>5, <2>2 DEF Answered, FibersHaveSessions, At
    <3>2. Me(s) \in Entries /\ request[s].serial \in Serials
      BY <1>0, <3>1, SessionType, RequestIsThere DEF Me, Creates
    <3>3. c \in Entries /\ c.session = Me(s).session /\ Me(s).roles \subseteq c.roles
      BY <3>2 DEF Entries
    <3> HIDE DEF c
    <3>4. conn'[a][u] = IF a = sess[s].agent /\ u = User(s) THEN c ELSE conn[a][u]
      BY <1>0, <3>1, <3>3, EntryEffect
    <3> QED
      BY <1>1, <3>1, <3>3, <3>4 DEF Me
  <2> QED
    BY <2>1, <2>2
<1> HIDE DEF Goal
<1>6. ASSUME NEW s \in Sessions,
             \/ InsertNickname(s) \/ SelectNickname(s) \/ SendCreate(s) \/ InsertRole(s)
             \/ SelectRole(s) \/ FiberFails(s) \/ RequestFails(s) \/ AnswerLost(s) \/ SessionEnds(s)
             \/ (\E b \in Agents, v \in Users : Connect(s, b, v))
             \/ (\E n \in Nicknames : RoleCreate(s, n))
      PROVE  Goal
  <2>1. UNCHANGED conn
    BY <1>6 DEF InsertNickname, SelectNickname, SendCreate, InsertRole, SelectRole, FiberFails,
                RequestFails, AnswerLost, SessionEnds, Connect, RoleCreate
  <2> QED
    BY <1>1, <2>1
<1>7. ASSUME NEW n \in Nicknames, ReleaseNickname(n) PROVE Goal
  BY <1>1, <1>7 DEF ReleaseNickname
<1>8. CASE UNCHANGED vars
  BY <1>1, <1>8 DEF vars, Goal
<1>9. Goal
  BY <1>2, <1>3, <1>4, <1>5, <1>6, <1>7, <1>8 DEF Next, Step, Monitor, Failure, Goal
<1> QED
  BY <1>9 DEF Goal

\* The roles of a user who is not disturbed change only when the monitor makes the
\* one its session waits for.
LEMMA RolesGrow ==
  ASSUME Inv, OneAtATime, [Next]_vars, NEW u \in Users \ disturbed
  PROVE  \/ RolesOf(u)' = RolesOf(u)
         \/ \E s \in Sessions : /\ InsertRole(s) /\ At(s, "wait") /\ User(s) = u
                                /\ request[s].serial \in Serials
                                /\ RolesOf(u)' = RolesOf(u) \cup {request[s].serial}
<1>0. TypeOK /\ RowsAsAcquired /\ role \in [Serials -> RoleRows \cup {None}]
  BY DEF Inv, TypeOK
<1>1. UNCHANGED role => RolesOf(u)' = RolesOf(u)
  BY DEF RolesOf
<1>2. UNCHANGED role \/ \E s \in Sessions : InsertRole(s)
  BY DEF Next, Step, Monitor, Failure, Connect, Install, SessionEnds, PingTimeout, Close, FiberFails,
         RoleCreate, InsertNickname, SelectNickname, SendCreate, SelectRole, RequestFails,
         AnswerLost, Answered, ReleaseNickname, tables, vars
<1>3. ASSUME NEW s \in Sessions, InsertRole(s), ~UNCHANGED role PROVE
        \/ RolesOf(u)' = RolesOf(u)
        \/ /\ At(s, "wait") /\ User(s) = u /\ request[s].serial \in Serials
           /\ RolesOf(u)' = RolesOf(u) \cup {request[s].serial}
  <2> DEFINE r == request[s]
  <2>1. r \in Creates /\ r # NoRequest
    BY <1>0, <1>3, RequestIsThere DEF InsertRole
  <2>2. r.serial \in Serials /\ r.row \in RoleRows
    BY <2>1 DEF Creates
  <2>3. role[r.serial] = None /\ role' = [role EXCEPT ![r.serial] = r.row]
    BY <1>3 DEF InsertRole
  <2> HIDE DEF r
  <2>4. \A i \in Serials : role'[i] = IF i = r.serial THEN r.row ELSE role[i]
    BY <1>0, <2>3
  <2>5. CASE r.row.username # u
    BY <2>2, <2>3, <2>4, <2>5 DEF RolesOf
  <2>6. CASE r.row.username = u
    <3>1. At(s, "wait")
      BY <2>1, <2>6 DEF OneAtATime, r
    <3>2. r.row = Row(s)
      BY <1>0, <2>1, <3>1 DEF RowsAsAcquired, r
    <3>3. User(s) = u
      BY <2>6, <3>2 DEF Row
    <3>4. RolesOf(u)' = RolesOf(u) \cup {r.serial}
      BY <2>2, <2>3, <2>4, <2>6 DEF RolesOf
    <3> QED
      BY <2>2, <3>1, <3>3, <3>4 DEF r
  <2> QED
    BY <2>5, <2>6
<1> QED
  BY <1>1, <1>2, <1>3

LEMMA EntriesStep == Inv /\ EntriesHoldSessions /\ [Next]_vars => EntriesHoldSessions'
<1> SUFFICES ASSUME Inv, EntriesHoldSessions, [Next]_vars,
                    NEW a \in Agents, NEW u \in Users, conn'[a][u] # None
             PROVE  /\ sess'[conn'[a][u].session] # Closed
                    /\ sess'[conn'[a][u].session].agent = a /\ sess'[conn'[a][u].session].user = u
                    /\ fiber'[conn'[a][u].session].at # "install"
  BY DEF EntriesHoldSessions, At
<1>0. TypeOK /\ FibersHaveSessions
  BY DEF Inv
<1>1. CASE conn[a][u] # None /\ conn'[a][u].session = conn[a][u].session
  <2> DEFINE t == conn[a][u].session
  <2>1. /\ t \in Sessions /\ sess[t] # Closed /\ sess[t].agent = a /\ sess[t].user = u
        /\ fiber[t].at # "install"
    BY <1>0, <1>1 DEF TypeOK, Entries, EntriesHoldSessions, At
  <2> HIDE DEF t
  <2>2. \A b \in Agents, v \in Users : ~Connect(t, b, v)
    BY <2>1 DEF Connect, Free
  <2>3. ~Close(t)
    <3> SUFFICES ASSUME Close(t) PROVE FALSE
      OBVIOUS
    <3>1. Me(t) # None /\ Me(t).session = t
      BY <1>1, <2>1 DEF Me, User, t
    <3>2. conn' = WithMe(t, None)
      BY <3>1 DEF Close
    <3>3. conn'[a][u] = None
      BY <1>0, <2>1, <3>2, EntryEffect DEF User
    <3> QED
      BY <3>3
  <2>4. sess'[t] # Closed /\ sess'[t].agent = a /\ sess'[t].user = u
    BY <1>0, <2>1, <2>2, <2>3, SessionStays
  <2>5. fiber'[t].at # "install"
    BY <2>1, <2>2, SessionMoves DEF Moves
  <2> QED
    BY <1>1, <2>4, <2>5 DEF t
<1>2. ASSUME NEW s \in Sessions, Install(s), a = sess[s].agent, u = User(s), sess[s] # Closed,
             conn'[a][u] = [session |-> s, roles |-> fiber[s].roles]
      PROVE  /\ sess'[s] # Closed /\ sess'[s].agent = a /\ sess'[s].user = u
             /\ fiber'[s].at # "install" /\ conn'[a][u].session = s
  <2>1. ~At(s, "idle")
    BY <1>2 DEF Install, At
  <2>2. sess'[s] # Closed /\ sess'[s].agent = a /\ sess'[s].user = u
    BY <1>0, <1>2, <2>1, UsersStay DEF User
  <2>3. fiber'[s].at = "idle"
    BY <1>0, <1>2, ReturnEffect DEF Install
  <2> QED
    BY <1>2, <2>2, <2>3
<1>3. CASE ~(conn[a][u] # None /\ conn'[a][u].session = conn[a][u].session)
  <2>1. PICK s \in Sessions : /\ Install(s) /\ a = sess[s].agent /\ u = User(s) /\ sess[s] # Closed
                              /\ conn'[a][u] = [session |-> s, roles |-> fiber[s].roles]
    BY <1>3, EntryStays
  <2> QED
    BY <1>2, <2>1
<1> QED
  BY <1>1, <1>3

LEMMA OneStep == Inv /\ OneAtATime /\ [Next]_vars => OneAtATime'
<1> SUFFICES ASSUME Inv, OneAtATime, [Next]_vars PROVE OneAtATime'
  OBVIOUS
<1>0. /\ TypeOK /\ FibersHaveSessions /\ disturbed \subseteq disturbed'
      /\ sess \in [Sessions -> Opened \cup {Closed}]
  BY DisturbedGrows DEF Inv, TypeOK
<1>1. None \notin Users
  OBVIOUS
<1>2. ASSUME NEW s \in Sessions, Close(s) PROVE sess'[s].user = None
  BY <1>0, <1>2 DEF Close, Closed
<1>3. ASSUME NEW s \in Sessions, NEW a \in Agents, NEW u \in Users, Connect(s, a, u)
      PROVE  /\ sess'[s].user = u /\ \A t \in Sessions \ {s} : sess'[t] = sess[t]
             /\ \A t \in Sessions : sess[t].user = u => u \in disturbed'
  BY <1>0, <1>3 DEF Connect, User
<1>4. ASSUME NEW s \in Sessions, NEW t \in Sessions, sess'[s].user = sess'[t].user,
             sess'[s].user \in Users \ disturbed'
      PROVE  s = t
  <2>1. ~Close(s) /\ ~Close(t)
    BY <1>1, <1>2, <1>4
  <2>2. CASE sess'[s].user = sess[s].user /\ sess'[t].user = sess[t].user
    BY <1>0, <1>4, <2>2 DEF OneAtATime, User
  <2>3. ASSUME NEW a \in Agents, NEW u \in Users, Connect(s, a, u) PROVE s = t
    BY <1>3, <1>4, <2>3
  <2>4. ASSUME NEW a \in Agents, NEW u \in Users, Connect(t, a, u) PROVE s = t
    BY <1>3, <1>4, <2>4
  <2> QED
    BY <1>0, <2>1, <2>2, <2>3, <2>4, SessionStays
<1>5. ASSUME NEW s \in Sessions, request'[s] # NoRequest, request'[s].row.username \notin disturbed'
      PROVE  fiber'[s].at = "wait"
  <2>1. Moves(s) /\ Asks(s)
    BY SessionMoves
  <2>2. CASE request[s] # NoRequest /\ request'[s].row = request[s].row
    <3>1. At(s, "wait")
      BY <1>0, <1>5, <2>2 DEF OneAtATime
    <3>2. request[s].row.username = User(s)
      <4>1. request[s].row = Row(s)
        BY <2>2, <3>1 DEF Inv, RowsAsAcquired
      <4> QED
        BY <4>1 DEF Row
    <3>3. Answered(s) => request'[s] = NoRequest
      BY <1>0 DEF Answered, TypeOK
    <3> QED
      BY <1>5, <2>2, <3>1, <3>2, <3>3, Waits
  <2> QED
    BY <1>5, <2>1, <2>2 DEF Asks
<1> QED
  BY <1>4, <1>5 DEF OneAtATime, User, At

\* So they stay while its session is not waiting for a role.
LEMMA RolesStay ==
  ASSUME Inv, OneAtATime, [Next]_vars, NEW u \in Users \ disturbed,
         NEW s \in Sessions, User(s) = u, ~At(s, "wait")
  PROVE  RolesOf(u)' = RolesOf(u)
<1>1. \A t \in Sessions : User(t) = u => t = s
  BY DEF OneAtATime
<1> QED
  BY <1>1, RolesGrow

\* Whoever is not disturbed after a step was not before it, and its session has been
\* opened by the step or is still the same.
LEMMA StillOne ==
  ASSUME Inv, OneAtATime, [Next]_vars, NEW s \in Sessions, NEW u \in Users \ disturbed', sess'[s].user = u
  PROVE  /\ u \in Users \ disturbed
         /\ \/ \E a \in Agents : Connect(s, a, u)
            \/ /\ User(s) = u /\ sess'[s].agent = sess[s].agent
               /\ \A a \in Agents, v \in Users : ~Connect(s, a, v)
<1>0. TypeOK /\ FibersHaveSessions /\ disturbed \subseteq disturbed' /\ sess \in [Sessions -> Opened \cup {Closed}]
  BY DisturbedGrows DEF Inv, TypeOK
<1>1. ~Close(s)
  BY <1>0 DEF Close, Closed
<1>2. ASSUME NEW a \in Agents, NEW v \in Users, Connect(s, a, v) PROVE v = u
  BY <1>0, <1>2 DEF Connect
<1> QED
  BY <1>0, <1>1, <1>2, SessionStays DEF User

LEMMA ListedStep ==
  Inv /\ EntriesHoldSessions /\ OneAtATime /\ RolesListed /\ [Next]_vars => RolesListed'
<1> DEFINE R(u) == {i \in Serials : role'[i] # None /\ role'[i].username = u}
           C(s) == conn'[sess'[s].agent][sess'[s].user]
<1> SUFFICES ASSUME Inv, EntriesHoldSessions, OneAtATime, RolesListed, [Next]_vars,
                    NEW s \in Sessions, NEW u \in Users \ disturbed', sess'[s].user = u
             PROVE  /\ fiber'[s].at = "install" => fiber'[s].roles = R(u)
                    /\ C(s) # None /\ C(s).session = s => \A i \in R(u) :
                         i \in C(s).roles \/ (fiber'[s].at = "wait" /\ i = request'[s].serial)
  BY DEF RolesListed, RolesOf, User, Me, At
<1> DEFINE c == C(s)
<1>0. TypeOK /\ FibersHaveSessions
  BY DEF Inv
<1>1. R(u) = RolesOf(u)'
  BY DEF RolesOf
<1> HIDE DEF c, R
<1>2. u \in Users \ disturbed
  BY StillOne
<1>3. ASSUME NEW a \in Agents, Connect(s, a, u)
      PROVE  /\ fiber'[s].at = "install" => fiber'[s].roles = R(u)
             /\ ~(c # None /\ c.session = s)
  <2>1. fiber'[s].roles = RolesOf(u) /\ UNCHANGED <<role, conn>> /\ sess[s] = Closed
    <3>1. LET y == [fiber[s] EXCEPT !.at = "install", !.roles = RolesOf(u)] IN y.roles = RolesOf(u)
      <4>1. fiber[s] \in Fibers /\ RolesOf(u) \in SUBSET Serials
        BY <1>0 DEF TypeOK, RolesOf
      <4> QED
        BY <4>1, FiberLists
    <3> QED
      BY <1>0, <1>3, <3>1 DEF Connect, Free, tables, TypeOK
  <2>2. RolesOf(u)' = RolesOf(u)
    BY <2>1 DEF RolesOf
  <2>3. sess'[s].agent \in Agents
    BY <1>0, <1>3 DEF Connect, TypeOK
  <2>4. ~(c # None /\ c.session = s)
    BY <1>2, <2>1, <2>3 DEF EntriesHoldSessions, c, C
  <2> QED
    BY <1>1, <2>1, <2>2, <2>4
<1>4. ASSUME User(s) = u, sess'[s].agent = sess[s].agent,
             \A a \in Agents, v \in Users : ~Connect(s, a, v)
      PROVE  /\ fiber'[s].at = "install" => fiber'[s].roles = R(u)
             /\ c # None /\ c.session = s => \A i \in R(u) :
                  i \in c.roles \/ (fiber'[s].at = "wait" /\ i = request'[s].serial)
  <2>1. ASSUME fiber'[s].at = "install" PROVE fiber'[s].roles = R(u)
    <3>1. fiber'[s] = fiber[s]
      BY <1>4, <2>1, SessionMoves DEF Moves
    <3>2. RolesOf(u)' = RolesOf(u)
      BY <1>2, <1>4, <2>1, <3>1, RolesStay DEF At
    <3> QED
      BY <1>1, <1>2, <1>4, <2>1, <3>1, <3>2 DEF RolesListed, At
  <2>2. ASSUME c # None, c.session = s, NEW i \in R(u)
        PROVE  i \in c.roles \/ (fiber'[s].at = "wait" /\ i = request'[s].serial)
    <3>0. sess[s] # Closed /\ sess[s].agent \in Agents /\ sess[s].user = u
          /\ c = conn'[sess[s].agent][u]
      <4>1. sess[s] # Closed
        BY <1>4 DEF Closed, User
      <4> QED
        BY <1>0, <1>4, <4>1, SessionType DEF c, C, User
    <3>1. ASSUME NEW t \in Sessions, Install(t), sess[s].agent = sess[t].agent, u = User(t),
                 c = [session |-> t, roles |-> fiber[t].roles]
          PROVE  i \in c.roles
      <4>1. s = t /\ c.roles = fiber[s].roles /\ At(s, "install")
        BY <2>2, <3>1 DEF Install
      <4>2. RolesOf(u)' = RolesOf(u)
        BY <1>2, <1>4, <4>1, RolesStay DEF At
      <4> QED
        BY <1>1, <1>2, <1>4, <2>2, <4>1, <4>2 DEF RolesListed
    <3>2. ASSUME conn[sess[s].agent][u] # None, c.session = conn[sess[s].agent][u].session,
                 conn[sess[s].agent][u].roles \subseteq c.roles
          PROVE  i \in c.roles \/ (fiber'[s].at = "wait" /\ i = request'[s].serial)
      <4>1. Me(s) # None /\ Me(s).session = s /\ Me(s).roles \subseteq c.roles
        BY <2>2, <3>0, <3>2 DEF Me, User
      <4>2. i \in RolesOf(u) => i \in Me(s).roles \/ (At(s, "wait") /\ i = request[s].serial)
        BY <1>2, <1>4, <4>1 DEF RolesListed
      <4>3. ASSUME At(s, "wait"), i = request[s].serial
            PROVE  i \in c.roles \/ (fiber'[s].at = "wait" /\ i = request'[s].serial)
        <5>1. CASE fiber'[s].at = "wait"
          BY <4>3, <5>1, Waits
        <5>2. CASE fiber'[s].at # "wait"
          <6>1. Answered(s)
            BY <1>0, <1>4, <4>3, <5>2, Waits
          <6>2. request[s].stage = "ok"
            BY <6>1 DEF Answered, Inv, NoRoidConflict
          <6> DEFINE e == [Me(s) EXCEPT !.roles = @ \cup {request[s].serial}]
          <6>3. conn' = WithMe(s, e)
            BY <4>1, <6>1, <6>2 DEF Answered
          <6>4. Me(s) \in Entries /\ request[s].serial \in Serials
            BY <1>0, <3>0, <4>1, <6>2, SessionType, RequestIsThere DEF Me, TypeOK, Creates
          <6>5. e \in Entries /\ request[s].serial \in e.roles
            BY <6>4 DEF Entries
          <6> HIDE DEF e
          <6>6. c = e
            BY <1>0, <1>2, <3>0, <6>3, <6>5, EntryEffect DEF User
          <6> QED
            BY <4>3, <6>5, <6>6
        <5> QED
          BY <5>1, <5>2
      <4>4. ASSUME i \notin RolesOf(u) PROVE At(s, "wait") /\ i = request[s].serial
        <5>1. PICK t \in Sessions : /\ At(t, "wait") /\ User(t) = u
                                    /\ RolesOf(u)' = RolesOf(u) \cup {request[t].serial}
          BY <1>1, <1>2, <2>2, <4>4, RolesGrow
        <5>2. t = s
          BY <1>2, <1>4, <5>1 DEF OneAtATime
        <5> QED
          BY <1>1, <2>2, <4>4, <5>1, <5>2
      <4> QED
        BY <4>1, <4>2, <4>3, <4>4
    <3>3. CASE ~(/\ conn[sess[s].agent][u] # None /\ c.session = conn[sess[s].agent][u].session
                 /\ conn[sess[s].agent][u].roles \subseteq c.roles)
      <4>1. PICK t \in Sessions : /\ Install(t) /\ sess[s].agent = sess[t].agent /\ u = User(t)
                                  /\ c = [session |-> t, roles |-> fiber[t].roles]
        BY <1>2, <2>2, <3>0, <3>3, EntryStays
      <4> QED
        BY <3>1, <4>1
    <3> QED
      BY <3>2, <3>3
  <2> QED
    BY <2>1, <2>2
<1> QED
  BY <1>0, <1>3, <1>4, StillOne DEF c, C

\* Counting roles.
LEMMA RolesAreFinite ==
  ASSUME NEW T \in SUBSET Serials, NEW S \in SUBSET T
  PROVE  Cardinality(T) \in Nat /\ Cardinality(S) \in Nat /\ Cardinality(S) <= Cardinality(T)
<1>1. IsFiniteSet(Serials)
  BY FS_Interval DEF Serials
<1>2. IsFiniteSet(T)
  BY <1>1, FS_Subset
<1> QED
  BY <1>2, FS_Subset, FS_CardinalityType

LEMMA OneMoreRole ==
  ASSUME NEW T \in SUBSET Serials, NEW i \in Serials
  PROVE  Cardinality(T \cup {i}) = Cardinality(T \ {i}) + 1
<1>1. IsFiniteSet(Serials)
  BY FS_Interval DEF Serials
<1>2. IsFiniteSet(T \ {i}) /\ i \notin T \ {i}
  BY <1>1, FS_Subset
<1>3. T \cup {i} = (T \ {i}) \cup {i}
  OBVIOUS
<1> QED
  BY <1>2, <1>3, FS_AddElement

LEMMA RoomStep == Inv /\ OneAtATime /\ RolesListed /\ RoomLeft /\ [Next]_vars => RoomLeft'
<1> DEFINE R(u) == {i \in Serials : role'[i] # None /\ role'[i].username = u}
<1> SUFFICES ASSUME Inv, OneAtATime, RolesListed, RoomLeft, [Next]_vars,
                    NEW s \in Sessions, NEW u \in Users \ disturbed', sess'[s].user = u
             PROVE  /\ fiber'[s].at \in {"insert", "select", "acquired"} => Cardinality(R(u)) < MaxRoles
                    /\ fiber'[s].at = "wait" => Cardinality(R(u) \ {request'[s].serial}) < MaxRoles
  BY DEF RoomLeft, RolesOf, User, At
<1>1. R(u) = RolesOf(u)' /\ RolesOf(u) \in SUBSET Serials
  BY DEF RolesOf
<1> HIDE DEF R
<1>2. u \in Users \ disturbed /\ Moves(s) /\ TypeOK
  BY StillOne, SessionMoves DEF Inv
<1>3. ASSUME NEW a \in Agents, Connect(s, a, u) PROVE fiber'[s].at = "install"
  <2>1. LET y == [fiber[s] EXCEPT !.at = "install", !.roles = RolesOf(u)] IN y.at = "install"
    <3>1. fiber[s] \in Fibers
      BY <1>2 DEF TypeOK
    <3> QED
      BY <1>1, <3>1, FiberLists
  <2> QED
    BY <1>2, <1>3, <2>1 DEF Connect, TypeOK
<1>4. ASSUME User(s) = u, \A a \in Agents, v \in Users : ~Connect(s, a, v)
      PROVE  /\ fiber'[s].at \in {"insert", "select", "acquired"} => Cardinality(R(u)) < MaxRoles
             /\ fiber'[s].at = "wait" => Cardinality(R(u) \ {request'[s].serial}) < MaxRoles
  <2>1. ASSUME fiber'[s].at \in {"insert", "select", "acquired"} PROVE Cardinality(R(u)) < MaxRoles
    <3>1. CASE fiber[s].at \in {"insert", "select", "acquired"}
      <4>1. RolesOf(u)' = RolesOf(u)
        BY <1>2, <1>4, <3>1, RolesStay DEF At
      <4> QED
        BY <1>1, <1>2, <1>4, <3>1, <4>1 DEF RoomLeft
    <3>2. CASE \E n \in Nicknames : RoleCreate(s, n)
      <4>1. At(s, "idle") /\ Me(s) # None /\ Me(s).session = s /\ Cardinality(Me(s).roles) < MaxRoles
            /\ sess[s] # Closed
        BY <3>2 DEF RoleCreate, Requests
      <4>2. Me(s) \in Entries
        <5>1. sess[s].agent \in Agents /\ User(s) \in Users
          BY <1>2, <4>1, SessionType
        <5>2. conn \in [Agents -> [Users -> Entries \cup {None}]]
          BY <1>2 DEF TypeOK
        <5>3. conn[sess[s].agent][User(s)] # None
          BY <4>1 DEF Me
        <5> QED
          BY <5>1, <5>2, <5>3 DEF Me
      <4>3. Me(s).roles \in SUBSET Serials
        BY <4>2 DEF Entries
      <4>4. RolesOf(u) \subseteq Me(s).roles
        BY <1>2, <1>4, <4>1 DEF RolesListed, At
      <4>5. RolesOf(u)' = RolesOf(u)
        BY <1>2, <1>4, <4>1, RolesStay DEF At
      <4>6. Cardinality(RolesOf(u)) <= Cardinality(Me(s).roles) /\ Cardinality(RolesOf(u)) \in Nat
            /\ Cardinality(Me(s).roles) \in Nat
        BY <4>3, <4>4, RolesAreFinite
      <4> QED
        BY <1>1, <4>1, <4>5, <4>6
    <3> QED
      BY <1>2, <2>1, <3>1, <3>2 DEF Moves
  <2>2. ASSUME fiber'[s].at = "wait" PROVE Cardinality(R(u) \ {request'[s].serial}) < MaxRoles
    <3>1. CASE At(s, "wait")
      <4>1. request'[s].serial = request[s].serial
        BY <2>2, <3>1, Waits
      <4>2. \A t \in Sessions : User(t) = u => t = s
        BY <1>2, <1>4 DEF OneAtATime
      <4>3. RolesOf(u)' \ {request[s].serial} = RolesOf(u) \ {request[s].serial}
        BY <1>2, <4>2, RolesGrow
      <4> QED
        BY <1>1, <1>2, <1>4, <3>1, <4>1, <4>3 DEF RoomLeft
    <3>2. CASE At(s, "acquired")
      <4>1. RolesOf(u)' = RolesOf(u)
        BY <1>2, <1>4, <3>2, RolesStay DEF At
      <4>2. Cardinality(RolesOf(u)) < MaxRoles
        BY <1>2, <1>4, <3>2 DEF RoomLeft, At
      <4>3. R(u) \ {request'[s].serial} \in SUBSET RolesOf(u)
        BY <1>1, <4>1
      <4> QED
        BY <1>1, <4>2, <4>3, RolesAreFinite
    <3> QED
      BY <1>2, <1>4, <2>2, <3>1, <3>2 DEF Moves, At
  <2> QED
    BY <2>1, <2>2
<1> QED
  BY <1>3, <1>4, StillOne

LEMMA LimitStep == Inv /\ OneAtATime /\ RoomLeft /\ LimitKept /\ [Next]_vars => LimitKept'
<1> SUFFICES ASSUME Inv, OneAtATime, RoomLeft, LimitKept, [Next]_vars, NEW u \in Users \ disturbed'
             PROVE  Cardinality(RolesOf(u)') <= MaxRoles
  BY DEF LimitKept, RolesOf
<1>1. u \in Users \ disturbed
  BY DisturbedGrows DEF Inv
<1>2. CASE RolesOf(u)' = RolesOf(u)
  BY <1>1, <1>2 DEF LimitKept
<1>3. ASSUME NEW s \in Sessions, At(s, "wait"), User(s) = u, request[s].serial \in Serials,
             RolesOf(u)' = RolesOf(u) \cup {request[s].serial}
      PROVE  Cardinality(RolesOf(u)') <= MaxRoles
  <2>1. RolesOf(u) \in SUBSET Serials
    BY DEF RolesOf
  <2>2. Cardinality(RolesOf(u) \ {request[s].serial}) < MaxRoles
    BY <1>1, <1>3 DEF RoomLeft
  <2>3. Cardinality(RolesOf(u) \cup {request[s].serial})
        = Cardinality(RolesOf(u) \ {request[s].serial}) + 1
    BY <1>3, <2>1, OneMoreRole
  <2>4. Cardinality(RolesOf(u) \ {request[s].serial}) \in Nat
    BY <2>1, RolesAreFinite
  <2> QED
    BY <1>3, <2>2, <2>3, <2>4
<1> QED
  BY <1>1, <1>2, <1>3, RolesGrow

LEMMA LimitInit == Init => LimitInv
<1> SUFFICES ASSUME Init PROVE LimitInv
  OBVIOUS
<1>1. \A u \in Users : RolesOf(u) = {}
  BY DEF Init, RolesOf
<1>2. \A s \in Sessions : User(s) = None /\ At(s, "idle") /\ request[s] = NoRequest
  BY DEF Init, User, At, Closed, Idle
<1>3. EntriesHoldSessions
  BY DEF Init, EntriesHoldSessions
<1>4. OneAtATime /\ RolesListed /\ RoomLeft
  BY <1>2 DEF OneAtATime, RolesListed, RoomLeft
<1>5. LimitKept
  BY <1>1, FS_EmptySet DEF LimitKept
<1> QED
  BY <1>3, <1>4, <1>5 DEF LimitInv

LEMMA LimitInvStep == Inv /\ LimitInv /\ [Next]_vars => LimitInv'
BY EntriesStep, OneStep, ListedStep, RoomStep, LimitStep DEF LimitInv

\* A user who has had one session at a time, and an answer to each request, never has
\* more roles than max_number_of_roles_per_user: the list that the limit is checked on
\* holds all of them, but for one that is being made.
THEOREM WithinLimit == Spec => []LimitKept
<1>1. LimitInv => LimitKept
  BY DEF LimitInv
<1> QED
  BY InvHolds, LimitInit, LimitInvStep, <1>1, PTL DEF Spec
=============================================================================
