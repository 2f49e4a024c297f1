-------------------------- MODULE UserSessions_proofs --------------------------
(***************************************************************************)
(* Proofs about users on the agents of a zone, for any numbers of agents,  *)
(* logic servers, users, roles and sessions, with every timeout, every     *)
(* lost or overtaken request and every kick: a user has one session on an  *)
(* agent, and whatever fibers share its entry, the role in it is the       *)
(* user's own.                                                             *)
(*                                                                         *)
(* All actions but a few are alike: sessions go on or are shut down, one   *)
(* fiber goes on, and at most the entry of its user changes.  The lemmas   *)
(* of the first part say what such a step preserves; then each action has  *)
(* only to show that it is one.                                            *)
(***************************************************************************)
EXTENDS UserSessions, TLAPS

Early == {"list", "set", "kick", "published"}
TimerPoints == {"idle", "set", "kick", "published", "dead"}

\* Sessions stay what they are, or are shut down.
SessionsGoOn ==
  /\ sess' \in [Sessions -> SessionRecords]
  /\ \A t \in Sessions : /\ sess'[t].agent = sess[t].agent
                         /\ sess'[t].state = "new" <=> sess[t].state = "new"
                         /\ sess'[t].state = "up" => sess[t].state = "up"

\* A role that has an owner keeps it.
OwnersStay ==
  /\ owner' \in [Roles -> Users \cup {None}]
  /\ \A r \in Roles : owner[r] \in Users => owner'[r] = owner[r]

\* The roles of a user after the step.
OwnNext(u) == {r \in Roles : u \in Users /\ owner'[r] = u}

\* What a fiber may be left with.
Decent(f) ==
  /\ f \in FiberRecords /\ Sensible(f)
  /\ f.roles \subseteq OwnNext(f.user)
  /\ f.next # None => f.next \in OwnNext(f.user)
  /\ \A p \in f.found : p.role \in OwnNext(f.user)

\* What an entry of u may be left as.
DecentEntry(u, c) ==
  /\ c \in Connections \cup {None}
  /\ c # None => /\ c.roles \subseteq OwnNext(u)
                 /\ c.role # None => c.logic # None /\ c.role \in OwnNext(u)

\* The entry of u on a becomes c.
EntryBecomes(a, u, c) == conn' = [conn EXCEPT ![a][u] = c]

\* The other variables keep their types.
OthersTyped ==
  /\ users' \in [Agents -> SUBSET Users]
  /\ redis' \in [Users -> Agents \cup {None}]
  /\ hyd' \in [Logics -> SUBSET Roles]
  /\ by' \in [Logics -> [Roles -> Agents \cup {None}]]
  /\ requests' \in 0..MaxRequests
-----------------------------------------------------------------------------
\* The fiber of w goes on.
LEMMA FiberMoves ==
  ASSUME Inv, SessionsGoOn, OwnersStay, NEW w \in Fibers, NEW f, Decent(f),
         w \in Agents => f.at \in TimerPoints,
         w \in Sessions => sess[w].state # "new" /\ f.user = fiber[w].user,
         fiber' = [fiber EXCEPT ![w] = f]
  PROVE  /\ fiber' \in [Fibers -> FiberRecords]
         /\ SessionsHaveUsers' /\ FibersAreSensible' /\ FibersHaveOwn'
<1>1. /\ fiber' \in [Fibers -> FiberRecords] /\ fiber'[w] = f
      /\ \A v \in Fibers : v # w => fiber'[v] = fiber[v]
  BY DEF Inv, TypeOK, Decent
<1>2. SessionsHaveUsers'
  <2> SUFFICES ASSUME NEW t \in Sessions
               PROVE  IF sess'[t].state = "new" THEN fiber'[t] = Idle
                      ELSE sess'[t].agent \in Agents /\ fiber'[t].user \in Users
    BY DEF SessionsHaveUsers, Idle
  <2>1. IF sess[t].state = "new" THEN fiber[t] = Idle
        ELSE sess[t].agent \in Agents /\ fiber[t].user \in Users
    BY DEF Inv, SessionsHaveUsers
  <2>2. t \in Fibers
    BY DEF Fibers
  <2> QED
    BY <1>1, <2>1, <2>2 DEF SessionsGoOn
<1>3. FibersAreSensible'
  <2>1. \A v \in Fibers : Sensible(fiber'[v])
    BY <1>1 DEF Inv, FibersAreSensible, Decent
  <2>2. \A a \in Agents : fiber'[a].at \in TimerPoints
    BY <1>1 DEF Inv, FibersAreSensible, TimerPoints, Fibers
  <2> QED
    BY <2>1, <2>2 DEF FibersAreSensible, Sensible, TimerPoints
<1>4. FibersHaveOwn'
  <2> SUFFICES ASSUME NEW v \in Fibers
               PROVE  /\ fiber'[v].roles \subseteq OwnNext(fiber'[v].user)
                      /\ fiber'[v].next # None => fiber'[v].next \in OwnNext(fiber'[v].user)
                      /\ \A p \in fiber'[v].found : p.role \in OwnNext(fiber'[v].user)
    BY DEF FibersHaveOwn, HasOwn, Own, OwnNext
  <2>1. CASE v = w
    BY <1>1, <2>1 DEF Decent
  <2>2. CASE v # w
    <3>1. HasOwn(fiber[v]) /\ fiber'[v] = fiber[v]
      BY <1>1, <2>2 DEF Inv, FibersHaveOwn
    <3>2. Own(fiber[v].user) \subseteq OwnNext(fiber[v].user)
      BY DEF Own, OwnNext, OwnersStay
    <3> QED
      BY <3>1, <3>2 DEF HasOwn
  <2> QED
    BY <2>1, <2>2
<1> QED
  BY <1>1, <1>2, <1>3, <1>4

\* No fiber does anything.
LEMMA FibersWait ==
  ASSUME Inv, SessionsGoOn, OwnersStay, UNCHANGED fiber
  PROVE  /\ fiber' \in [Fibers -> FiberRecords]
         /\ SessionsHaveUsers' /\ FibersAreSensible' /\ FibersHaveOwn'
<1>1. SessionsHaveUsers'
  BY DEF Inv, SessionsHaveUsers, SessionsGoOn, Idle
<1>2. FibersAreSensible'
  BY DEF Inv, FibersAreSensible, Sensible
<1>3. FibersHaveOwn'
  <2> SUFFICES ASSUME NEW v \in Fibers PROVE HasOwn(fiber[v])'
    BY DEF FibersHaveOwn
  <2>1. HasOwn(fiber[v])
    BY DEF Inv, FibersHaveOwn
  <2>2. Own(fiber[v].user) \subseteq OwnNext(fiber[v].user)
    BY DEF Own, OwnNext, OwnersStay
  <2> QED
    BY <2>1, <2>2 DEF HasOwn, Own, OwnNext
<1> QED
  BY <1>1, <1>2, <1>3 DEF Inv, TypeOK

\* The entry of a user changes, or none does.
LEMMA EntryMoves ==
  ASSUME Inv, OwnersStay, NEW a \in Agents, NEW u \in Users, NEW c, DecentEntry(u, c),
         EntryBecomes(a, u, c)
  PROVE  /\ conn' \in [Agents -> [Users -> Connections \cup {None}]]
         /\ EntriesHaveOwn' /\ OwnRolesOnly'
         /\ conn'[a][u] = c
         /\ \A b \in Agents, v \in Users : (b # a \/ v # u) => conn'[b][v] = conn[b][v]
<1>1. /\ conn' \in [Agents -> [Users -> Connections \cup {None}]]
      /\ conn'[a][u] = c
      /\ \A b \in Agents, v \in Users : (b # a \/ v # u) => conn'[b][v] = conn[b][v]
  <2>1. conn \in [Agents -> [Users -> Connections \cup {None}]]
    BY DEF Inv, TypeOK
  <2> QED
    BY <2>1 DEF DecentEntry, EntryBecomes
<1>2. \A b \in Agents, v \in Users :
        conn'[b][v] # None => /\ conn'[b][v].roles \subseteq OwnNext(v)
                              /\ conn'[b][v].role # None => /\ conn'[b][v].logic # None
                                                            /\ conn'[b][v].role \in OwnNext(v)
  <2> SUFFICES ASSUME NEW b \in Agents, NEW v \in Users, conn'[b][v] # None
               PROVE  /\ conn'[b][v].roles \subseteq OwnNext(v)
                      /\ conn'[b][v].role # None => /\ conn'[b][v].logic # None
                                                    /\ conn'[b][v].role \in OwnNext(v)
    OBVIOUS
  <2>1. CASE b = a /\ v = u
    BY <1>1, <2>1 DEF DecentEntry
  <2>2. CASE b # a \/ v # u
    <3>1. conn'[b][v] = conn[b][v] /\ conn[b][v] \in Connections
      BY <1>1, <2>2
    <3>2. EntryHasOwn(v, conn[b][v])
      BY DEF Inv, EntriesHaveOwn
    <3>3. conn[b][v].role # None => conn[b][v].role \in Roles /\ owner[conn[b][v].role] = v
      BY <3>1 DEF Inv, OwnRolesOnly, Connections
    <3>4. Own(v) \subseteq OwnNext(v)
      BY DEF Own, OwnNext, OwnersStay
    <3> QED
      BY <3>1, <3>2, <3>3, <3>4 DEF EntryHasOwn, Own
  <2> QED
    BY <2>1, <2>2
<1>3. EntriesHaveOwn'
  BY <1>2 DEF EntriesHaveOwn, EntryHasOwn, Own, OwnNext
<1>4. OwnRolesOnly'
  BY <1>2 DEF OwnRolesOnly, OwnNext
<1> QED
  BY <1>1, <1>3, <1>4

LEMMA EntriesWait ==
  ASSUME Inv, OwnersStay, UNCHANGED conn
  PROVE  /\ conn' \in [Agents -> [Users -> Connections \cup {None}]]
         /\ EntriesHaveOwn' /\ OwnRolesOnly'
<1>1. EntriesHaveOwn'
  <2> SUFFICES ASSUME NEW a \in Agents, NEW u \in Users, conn[a][u] # None
               PROVE  EntryHasOwn(u, conn[a][u])'
    BY DEF EntriesHaveOwn, EntryHasOwn
  <2>1. EntryHasOwn(u, conn[a][u])
    BY DEF Inv, EntriesHaveOwn
  <2>2. Own(u) \subseteq OwnNext(u)
    BY DEF Own, OwnNext, OwnersStay
  <2> QED
    BY <2>1, <2>2 DEF EntryHasOwn, Own, OwnNext
<1>2. OwnRolesOnly'
  <2> SUFFICES ASSUME NEW a \in Agents, NEW u \in Users, conn[a][u] # None, conn[a][u].role # None
               PROVE  owner'[conn[a][u].role] = u
    BY DEF OwnRolesOnly
  <2>1. conn[a][u] \in Connections
    BY DEF Inv, TypeOK
  <2>2. conn[a][u].role \in Roles /\ owner[conn[a][u].role] = u
    BY <2>1 DEF Inv, OwnRolesOnly, Connections
  <2> QED
    BY <2>2 DEF OwnersStay
<1> QED
  BY <1>1, <1>2 DEF Inv, TypeOK

\* No session is let in, and entries stay those of their sessions.
LEMMA AdmittedStay ==
  ASSUME Inv, SessionsGoOn,
         \A t \in Sessions :
           /\ fiber'[t].user = fiber[t].user
           /\ sess'[t].state = "up" /\ fiber'[t].at \notin Early => fiber[t].at \notin Early,
         \A a \in Agents, u \in Users :
           conn[a][u] # None => conn'[a][u] # None /\ conn'[a][u].session = conn[a][u].session
  PROVE  AdmittedIsConnected'
<1> SUFFICES ASSUME NEW t \in Sessions, Admitted(t)'
             PROVE  (Me(t) # None /\ Me(t).session = t)'
  BY DEF AdmittedIsConnected
<1>1. Admitted(t)
  BY DEF Admitted, Early, SessionsGoOn
<1>2. Me(t) # None /\ Me(t).session = t
  BY <1>1 DEF Inv, AdmittedIsConnected
<1>3. t \notin Agents
  BY UsersAssumption
<1>4. sess[t].agent \in Agents /\ fiber[t].user \in Users
  BY <1>1 DEF Admitted, Inv, SessionsHaveUsers
<1>5. sess'[t].agent = sess[t].agent /\ fiber'[t].user = fiber[t].user
  BY DEF SessionsGoOn
<1> QED
  BY <1>2, <1>3, <1>4, <1>5 DEF Me, AgentOf
-----------------------------------------------------------------------------
\* The fiber of session s goes on with f, and leaves the entry of its user to the
\* session it belongs to.
LEMMA SessionMoves ==
  ASSUME Inv, SessionsGoOn, OwnersStay, OthersTyped,
         NEW s \in Sessions, sess[s].state # "new", NEW f, Decent(f), f.user = fiber[s].user,
         f.at \notin Early => fiber[s].at \notin Early \/ sess'[s].state # "up",
         fiber' = [fiber EXCEPT ![s] = f],
         \/ UNCHANGED conn
         \/ \E c \in Connections : /\ Me(s) # None /\ c.session = Me(s).session
                                   /\ DecentEntry(fiber[s].user, c)
                                   /\ conn' = WithMe(s, c)
  PROVE  Inv'
<1>1. s \in Fibers /\ s \notin Agents
  BY UsersAssumption DEF Fibers
<1>2. sess[s].agent \in Agents /\ fiber[s].user \in Users /\ AgentOf(s) = sess[s].agent
  BY <1>1 DEF Inv, SessionsHaveUsers, AgentOf
<1>3. /\ fiber' \in [Fibers -> FiberRecords]
      /\ SessionsHaveUsers' /\ FibersAreSensible' /\ FibersHaveOwn'
  BY <1>1, FiberMoves
<1>4. /\ conn' \in [Agents -> [Users -> Connections \cup {None}]]
      /\ EntriesHaveOwn' /\ OwnRolesOnly'
      /\ \A a \in Agents, u \in Users :
           conn[a][u] # None => conn'[a][u] # None /\ conn'[a][u].session = conn[a][u].session
  <2>1. CASE UNCHANGED conn
    BY <2>1, EntriesWait
  <2>2. CASE ~UNCHANGED conn
    <3>1. PICK c \in Connections : /\ Me(s) # None /\ c.session = Me(s).session
                                   /\ DecentEntry(fiber[s].user, c)
                                   /\ conn' = WithMe(s, c)
      BY <2>2
    <3>2. conn' = [conn EXCEPT ![sess[s].agent][fiber[s].user] = c]
      BY <3>1, <1>2 DEF WithMe
    <3>3. Me(s) = conn[sess[s].agent][fiber[s].user]
      BY <1>2 DEF Me
    <3>4. c # None
      BY EntryAssumption
    <3>5. /\ conn' \in [Agents -> [Users -> Connections \cup {None}]]
          /\ EntriesHaveOwn' /\ OwnRolesOnly'
          /\ conn'[sess[s].agent][fiber[s].user] = c
          /\ \A b \in Agents, v \in Users :
               (b # sess[s].agent \/ v # fiber[s].user) => conn'[b][v] = conn[b][v]
      <4> DEFINE a == sess[s].agent
                 u == fiber[s].user
      <4>1. a \in Agents /\ u \in Users /\ DecentEntry(u, c) /\ EntryBecomes(a, u, c)
        BY <3>1, <3>2, <1>2 DEF EntryBecomes
      <4> HIDE DEF a, u
      <4>2. /\ conn' \in [Agents -> [Users -> Connections \cup {None}]]
            /\ EntriesHaveOwn' /\ OwnRolesOnly'
            /\ conn'[a][u] = c
            /\ \A b \in Agents, v \in Users : (b # a \/ v # u) => conn'[b][v] = conn[b][v]
        BY <4>1, EntryMoves
      <4> QED
        BY <4>2 DEF a, u
    <3>6. ASSUME NEW b \in Agents, NEW v \in Users, conn[b][v] # None
          PROVE  conn'[b][v] # None /\ conn'[b][v].session = conn[b][v].session
      BY <3>1, <3>3, <3>4, <3>5, <3>6
    <3> QED
      BY <3>5, <3>6
  <2> QED
    BY <2>1, <2>2
<1>5. AdmittedIsConnected'
  <2>1. \A t \in Sessions :
          /\ fiber'[t].user = fiber[t].user
          /\ sess'[t].state = "up" /\ fiber'[t].at \notin Early => fiber[t].at \notin Early
    BY <1>1 DEF Inv, TypeOK, Fibers
  <2> QED
    BY <1>4, <2>1, AdmittedStay
<1>6. TypeOK'
  BY <1>3, <1>4 DEF TypeOK, OthersTyped, SessionsGoOn, OwnersStay
<1> QED
  BY <1>3, <1>4, <1>5, <1>6 DEF Inv

\* A fiber that publishes goes on; no entry changes.
LEMMA PublisherMoves ==
  ASSUME Inv, SessionsGoOn, OwnersStay, OthersTyped, UNCHANGED conn,
         NEW w \in Fibers, fiber[w].at # "idle", NEW f, Decent(f), f.user = fiber[w].user,
         f.at \in {"kick", "published"},
         fiber' = [fiber EXCEPT ![w] = f]
  PROVE  Inv'
<1>1. CASE w \in Sessions
  <2>1. sess[w].state # "new"
    BY <1>1 DEF Inv, SessionsHaveUsers, Idle
  <2> QED
    BY <1>1, <2>1, SessionMoves DEF Early
<1>2. CASE w \in Agents
  <2>1. w \notin Sessions
    BY <1>2, UsersAssumption
  <2>2. /\ fiber' \in [Fibers -> FiberRecords]
        /\ SessionsHaveUsers' /\ FibersAreSensible' /\ FibersHaveOwn'
    BY <2>1, FiberMoves DEF TimerPoints
  <2>3. AdmittedIsConnected'
    BY <2>1, AdmittedStay DEF Inv, TypeOK, Fibers
  <2>4. TypeOK' /\ EntriesHaveOwn' /\ OwnRolesOnly'
    BY <2>2, EntriesWait DEF TypeOK, OthersTyped, SessionsGoOn, OwnersStay
  <2> QED
    BY <2>2, <2>3, <2>4 DEF Inv
<1> QED
  BY <1>1, <1>2 DEF Fibers

\* The check timer of agent a goes on.
LEMMA TimerMoves ==
  ASSUME Inv, UNCHANGED <<sess, conn, owner>>, OthersTyped,
         NEW a \in Agents, NEW f, Decent(f), f.at \in TimerPoints,
         fiber' = [fiber EXCEPT ![a] = f]
  PROVE  Inv'
<1>1. SessionsGoOn /\ OwnersStay
  BY DEF Inv, TypeOK, SessionsGoOn, OwnersStay
<1>2. a \in Fibers /\ a \notin Sessions
  BY UsersAssumption DEF Fibers
<1>3. /\ fiber' \in [Fibers -> FiberRecords]
      /\ SessionsHaveUsers' /\ FibersAreSensible' /\ FibersHaveOwn'
  BY <1>1, <1>2, FiberMoves
<1>4. AdmittedIsConnected'
  BY <1>1, <1>2, AdmittedStay DEF Inv, TypeOK, Fibers
<1>5. TypeOK' /\ EntriesHaveOwn' /\ OwnRolesOnly'
  BY <1>1, <1>3, EntriesWait DEF TypeOK, OthersTyped, SessionsGoOn, OwnersStay
<1> QED
  BY <1>3, <1>4, <1>5 DEF Inv

\* No fiber goes on, and no entry changes.
LEMMA NoFiberMoves ==
  ASSUME Inv, SessionsGoOn, UNCHANGED <<fiber, conn, owner>>, OthersTyped
  PROVE  Inv'
<1>1. OwnersStay
  BY DEF Inv, TypeOK, OwnersStay
<1>2. /\ fiber' \in [Fibers -> FiberRecords]
      /\ SessionsHaveUsers' /\ FibersAreSensible' /\ FibersHaveOwn'
  BY <1>1, FibersWait
<1>3. AdmittedIsConnected'
  BY AdmittedStay
<1>4. TypeOK' /\ EntriesHaveOwn' /\ OwnRolesOnly'
  BY <1>1, <1>2, EntriesWait DEF TypeOK, OthersTyped, SessionsGoOn, OwnersStay
<1> QED
  BY <1>2, <1>3, <1>4 DEF Inv
-----------------------------------------------------------------------------
\* What a session's fiber has in hand, and the entry it finds.
LEMMA Opened ==
  ASSUME Inv, NEW s \in Sessions, sess[s].state # "new" \/ fiber[s].at # "idle"
  PROVE  /\ sess[s].state # "new" /\ s \in Fibers
         /\ fiber[s] \in FiberRecords /\ Sensible(fiber[s]) /\ HasOwn(fiber[s])
         /\ fiber[s].user \in Users /\ AgentOf(s) \in Agents
         /\ Me(s) = conn[AgentOf(s)][fiber[s].user]
         /\ Me(s) \in Connections \cup {None}
         /\ Me(s) # None => /\ Me(s).roles \subseteq Own(fiber[s].user)
                            /\ Me(s).role # None => /\ Me(s).logic # None
                                                    /\ Me(s).role \in Own(fiber[s].user)
<1>1. sess[s].state # "new" /\ s \in Fibers /\ s \notin Agents
  BY UsersAssumption DEF Inv, SessionsHaveUsers, Idle, Fibers
<1>2. fiber[s] \in FiberRecords /\ Sensible(fiber[s]) /\ HasOwn(fiber[s])
  BY <1>1 DEF Inv, TypeOK, FibersAreSensible, FibersHaveOwn
<1>3. fiber[s].user \in Users /\ AgentOf(s) \in Agents
  BY <1>1 DEF Inv, SessionsHaveUsers, AgentOf
<1>4. Me(s) = conn[AgentOf(s)][fiber[s].user] /\ Me(s) \in Connections \cup {None}
  BY <1>3 DEF Me, Inv, TypeOK
<1>5. EntryHasOwn(fiber[s].user, Me(s))
  BY <1>3, <1>4 DEF Inv, EntriesHaveOwn
<1>6. Me(s) # None /\ Me(s).role # None => Me(s).role \in Own(fiber[s].user)
  BY <1>3, <1>4 DEF Inv, OwnRolesOnly, Connections, Own
<1> QED
  BY <1>1, <1>2, <1>3, <1>4, <1>5, <1>6 DEF EntryHasOwn

LEMMA OwnersUnchanged ==
  ASSUME Inv, UNCHANGED owner
  PROVE  OwnersStay /\ \A u : OwnNext(u) = Own(u)
BY DEF Inv, TypeOK, OwnersStay, OwnNext, Own

LEMMA NobodyEnds ==
  ASSUME Inv, UNCHANGED sess
  PROVE  SessionsGoOn
BY DEF Inv, TypeOK, SessionsGoOn

LEMMA OneEnds ==
  ASSUME Inv, NEW t \in Sessions, NEW why \in {"down", "conflict"}, sess' = ShutDown(t, why)
  PROVE  /\ SessionsGoOn /\ sess'[t].state # "up"
         /\ \A v \in Sessions : v # t => sess'[v] = sess[v]
<1>1. sess \in [Sessions -> SessionRecords]
  BY DEF Inv, TypeOK
<1>2. sess[t].state # "up" => sess' = sess
  BY <1>1 DEF ShutDown, SessionRecords
<1>3. /\ sess' \in [Sessions -> SessionRecords] /\ sess'[t].state # "up"
      /\ sess'[t].agent = sess[t].agent
      /\ sess'[t].state = "new" <=> sess[t].state = "new"
      /\ \A v \in Sessions : v # t => sess'[v] = sess[v]
  BY <1>1 DEF ShutDown, SessionRecords
<1> QED
  BY <1>3 DEF SessionsGoOn

LEMMA OthersUnchanged ==
  ASSUME Inv, UNCHANGED <<users, redis, hyd, by, requests>>
  PROVE  OthersTyped
BY DEF Inv, TypeOK, OthersTyped

\* The handler of an event returns, or throws.
LEMMA ReturnedIsDecent ==
  ASSUME NEW u \in Users \cup {None}
  PROVE  Decent([Idle EXCEPT !.user = u])
BY DEF Decent, Idle, FiberRecords, Sensible

LEMMA Returns ==
  ASSUME Inv, SessionsGoOn, OwnersStay, OthersTyped, NEW s \in Sessions, sess[s].state # "new",
         Return(s), fiber[s].at \notin Early \/ sess'[s].state # "up",
         \/ UNCHANGED conn
         \/ \E c \in Connections : /\ Me(s) # None /\ c.session = Me(s).session
                                   /\ DecentEntry(fiber[s].user, c)
                                   /\ conn' = WithMe(s, c)
  PROVE  Inv'
<1> DEFINE f == [Idle EXCEPT !.user = fiber[s].user]
<1>1. Decent(f) /\ f.user = fiber[s].user /\ fiber' = [fiber EXCEPT ![s] = f]
  BY Opened, ReturnedIsDecent DEF Return, Idle
<1> HIDE DEF f
<1> QED
  BY <1>1, SessionMoves

LEMMA Throws ==
  ASSUME Inv, OwnersStay, OthersTyped, NEW s \in Sessions, sess[s].state # "new", Throw(s)
  PROVE  Inv'
<1>1. SessionsGoOn /\ sess'[s].state # "up"
  BY OneEnds DEF Throw
<1> QED
  BY <1>1, Returns DEF Throw
-----------------------------------------------------------------------------
\* What a fiber has in hand stays its user's; so does an entry.
LEMMA StaysDecent ==
  ASSUME NEW f, f \in FiberRecords, HasOwn(f), OwnersStay, Sensible(f)
  PROVE  Decent(f)
BY DEF HasOwn, Decent, OwnersStay, Own, OwnNext

LEMMA EntryStaysDecent ==
  ASSUME Inv, NEW s \in Sessions, sess[s].state # "new", Me(s) # None, OwnersStay
  PROVE  /\ Me(s) \in Connections
         /\ DecentEntry(fiber[s].user, Me(s))
<1>1. Me(s) \in Connections
  BY Opened
<1>2. Own(fiber[s].user) \subseteq OwnNext(fiber[s].user)
  BY DEF OwnersStay, Own, OwnNext
<1> QED
  BY <1>1, <1>2, Opened DEF DecentEntry

\* Connecting.
LEMMA ConnectStep ==
  ASSUME Inv, NEW s \in Sessions, NEW a \in Agents, NEW u \in Users, Connect(s, a, u)
  PROVE  Inv'
<1> DEFINE f == [Idle EXCEPT !.at = "list", !.user = u]
<1>1. /\ sess[s].state = "new"
      /\ sess' = [sess EXCEPT ![s] = [state |-> "up", agent |-> a]]
      /\ fiber' = [fiber EXCEPT ![s] = f]
      /\ UNCHANGED <<conn, users, redis, owner, hyd, by, requests>>
  BY DEF Connect, local, logic
<1>2. f \in FiberRecords /\ Sensible(f) /\ HasOwn(f) /\ f.at = "list" /\ f.user = u
  BY DEF Idle, FiberRecords, Sensible, HasOwn
<1> HIDE DEF f
<1>3. s \in Fibers /\ s \notin Agents
  BY UsersAssumption DEF Fibers
<1>4. /\ sess' \in [Sessions -> SessionRecords]
      /\ sess'[s] = [state |-> "up", agent |-> a]
      /\ \A t \in Sessions : t # s => sess'[t] = sess[t]
  BY <1>1 DEF Inv, TypeOK, SessionRecords
<1>5. /\ fiber' \in [Fibers -> FiberRecords] /\ fiber'[s] = f
      /\ \A w \in Fibers : w # s => fiber'[w] = fiber[w]
  BY <1>1, <1>2, <1>3 DEF Inv, TypeOK
<1>6. OwnersStay
  BY <1>1, OwnersUnchanged
<1>7. TypeOK' /\ EntriesHaveOwn' /\ OwnRolesOnly'
  BY <1>1, <1>4, <1>5, <1>6, EntriesWait DEF TypeOK, Inv
<1>8. SessionsHaveUsers'
  BY <1>2, <1>4, <1>5 DEF Inv, SessionsHaveUsers, Idle, Fibers
<1>9. FibersAreSensible'
  <2>1. \A w \in Fibers : Sensible(fiber'[w])
    BY <1>2, <1>5 DEF Inv, FibersAreSensible
  <2>2. \A b \in Agents : fiber'[b].at \in TimerPoints
    BY <1>3, <1>5 DEF Inv, FibersAreSensible, Fibers, TimerPoints
  <2> QED
    BY <2>1, <2>2 DEF FibersAreSensible, Sensible, TimerPoints
<1>10. FibersHaveOwn'
  <2>1. \A w \in Fibers : HasOwn(fiber'[w])
    BY <1>2, <1>5 DEF Inv, FibersHaveOwn
  <2> QED
    BY <1>1, <2>1 DEF FibersHaveOwn, HasOwn, Own
<1>11. AdmittedIsConnected'
  <2> SUFFICES ASSUME NEW t \in Sessions, Admitted(t)'
               PROVE  (Me(t) # None /\ Me(t).session = t)'
    BY DEF AdmittedIsConnected
  <2>1. t # s
    BY <1>2, <1>5 DEF Admitted
  <2>2. t \in Fibers /\ sess'[t] = sess[t] /\ fiber'[t] = fiber[t]
    BY <1>4, <1>5, <2>1 DEF Fibers
  <2>3. Admitted(t)
    BY <2>2 DEF Admitted
  <2> QED
    BY <1>1, <2>2, <2>3 DEF Inv, AdmittedIsConnected, Me, AgentOf
<1> QED
  BY <1>7, <1>8, <1>9, <1>10, <1>11 DEF Inv

LEMMA RefuseStep ==
  ASSUME Inv, NEW s \in Sessions, Refuse(s)
  PROVE  Inv'
<1>1. sess[s].state # "new"
  BY Opened DEF Refuse, At
<1> QED
  BY <1>1, OwnersUnchanged, OthersUnchanged, Throws DEF Refuse, logic

LEMMA ListedStep ==
  ASSUME Inv, NEW s \in Sessions, Listed(s)
  PROVE  Inv'
<1> DEFINE f == [fiber[s] EXCEPT !.at = "set", !.roles = RolesOf(fiber[s].user)]
<1>1. /\ fiber[s].at = "list" /\ fiber' = [fiber EXCEPT ![s] = f]
      /\ UNCHANGED <<sess, conn, users, redis, owner, hyd, by, requests>>
  BY DEF Listed, At, local, logic
<1>2. /\ sess[s].state # "new" /\ fiber[s] \in FiberRecords /\ Sensible(fiber[s]) /\ HasOwn(fiber[s])
      /\ fiber[s].user \in Users
  BY <1>1, Opened
<1>3. SessionsGoOn /\ OwnersStay /\ OthersTyped
  BY <1>1, NobodyEnds, OwnersUnchanged, OthersUnchanged
<1>4. f \in FiberRecords /\ Sensible(f) /\ f.user = fiber[s].user /\ f.at = "set"
  <2>1. f \in FiberRecords
    BY <1>2 DEF FiberRecords, RolesOf
  <2>2. f.user = fiber[s].user /\ f.at = "set"
    BY <1>2 DEF FiberRecords
  <2> QED
    BY <1>2, <2>1, <2>2 DEF Sensible
<1>5. HasOwn(f)
  BY <1>2 DEF HasOwn, Own, RolesOf, FiberRecords
<1> HIDE DEF f
<1> QED
  BY <1>1, <1>2, <1>3, <1>4, <1>5, StaysDecent, SessionMoves DEF Early

LEMMA SetGetStep ==
  ASSUME Inv, NEW w \in Fibers, SetGet(w)
  PROVE  Inv'
<1> DEFINE old == redis[fiber[w].user]
           elsewhere == old \notin {None, AgentOf(w)}
           f == [fiber[w] EXCEPT !.at = IF elsewhere THEN "kick" ELSE "published",
                                 !.old = IF elsewhere THEN old ELSE None]
<1>1. /\ fiber[w].at = "set" /\ fiber' = [fiber EXCEPT ![w] = f]
      /\ redis' = [redis EXCEPT ![fiber[w].user] = AgentOf(w)]
      /\ UNCHANGED <<sess, conn, users, owner, hyd, by, requests>>
  BY DEF SetGet, At, local, logic
<1>2. fiber[w] \in FiberRecords /\ Sensible(fiber[w]) /\ HasOwn(fiber[w]) /\ fiber[w].user \in Users
  BY <1>1 DEF Inv, TypeOK, FibersAreSensible, FibersHaveOwn, Sensible
<1>3. AgentOf(w) \in Agents
  BY <1>1, Opened DEF Fibers, AgentOf
<1>4. old \in Agents \cup {None}
  BY <1>2 DEF Inv, TypeOK
<1>5. SessionsGoOn /\ OwnersStay
  BY <1>1, NobodyEnds, OwnersUnchanged
<1>6. OthersTyped
  BY <1>1, <1>2, <1>3 DEF OthersTyped, Inv, TypeOK
<1> HIDE DEF old
<1>7. f \in FiberRecords /\ Sensible(f) /\ f.user = fiber[w].user /\ f.at \in {"kick", "published"}
  <2>1. PICK at \in {"kick", "published"}, o \in Agents \cup {None} :
          f = [fiber[w] EXCEPT !.at = at, !.old = o] /\ (at = "kick" => o \in Agents)
    BY <1>4
  <2> HIDE DEF f
  <2>2. f \in FiberRecords
    BY <1>2, <2>1 DEF FiberRecords
  <2>3. f.user = fiber[w].user /\ f.at = at /\ f.old = o
    BY <1>2, <2>1 DEF FiberRecords
  <2> QED
    BY <1>2, <2>1, <2>2, <2>3 DEF Sensible
<1>8. HasOwn(f)
  BY <1>2 DEF HasOwn, FiberRecords
<1> HIDE DEF f
<1> QED
  BY <1>1, <1>5, <1>6, <1>7, <1>8, StaysDecent, PublisherMoves

\* The answer to *user/kick, good or not.
LEMMA KickedStep ==
  ASSUME Inv, NEW w \in Fibers, At(w, "kick"), SessionsGoOn, OthersTyped,
         fiber' = [fiber EXCEPT ![w].at = "published", ![w].old = None],
         UNCHANGED <<conn, owner>>
  PROVE  Inv'
<1> DEFINE f == [fiber[w] EXCEPT !.at = "published", !.old = None]
<1>1. fiber[w].at = "kick" /\ fiber' = [fiber EXCEPT ![w] = f]
  BY DEF At
<1>2. fiber[w] \in FiberRecords /\ Sensible(fiber[w]) /\ HasOwn(fiber[w]) /\ fiber[w].user \in Users
  BY <1>1 DEF Inv, TypeOK, FibersAreSensible, FibersHaveOwn, Sensible
<1>3. f \in FiberRecords /\ Sensible(f) /\ f.user = fiber[w].user /\ f.at = "published"
  <2>1. f \in FiberRecords
    BY <1>2 DEF FiberRecords
  <2>2. f.user = fiber[w].user /\ f.at = "published"
    BY <1>2 DEF FiberRecords
  <2> QED
    BY <1>2, <2>1, <2>2 DEF Sensible
<1>4. HasOwn(f)
  BY <1>2 DEF HasOwn, FiberRecords
<1> HIDE DEF f
<1> QED
  BY <1>1, <1>3, <1>4, OwnersUnchanged, StaysDecent, PublisherMoves

LEMMA KickStep ==
  ASSUME Inv, NEW w \in Fibers, Kick(w) \/ KickLost(w)
  PROVE  Inv'
<1>1. CASE Kick(w)
  <2> DEFINE c == conn[fiber[w].old][fiber[w].user]
  <2>1. fiber[w].old \in Agents /\ fiber[w].user \in Users
    BY <1>1 DEF Kick, At, Inv, FibersAreSensible, Sensible
  <2>2. c \in Connections \cup {None}
    BY <2>1 DEF Inv, TypeOK
  <2>3. SessionsGoOn
    <3>1. CASE c = None
      BY <1>1, <3>1, NobodyEnds DEF Kick
    <3>2. CASE c # None
      <4>1. c.session \in Sessions
        BY <2>2, <3>2 DEF Connections
      <4> QED
        BY <1>1, <3>2, <4>1, OneEnds DEF Kick
    <3> QED
      BY <3>1, <3>2
  <2> QED
    BY <1>1, <2>3, OthersUnchanged, KickedStep DEF Kick, local, logic
<1>2. CASE KickLost(w)
  BY <1>2, NobodyEnds, OthersUnchanged, KickedStep DEF KickLost, local, logic
<1> QED
  BY <1>1, <1>2

\* The new session takes the entry; whoever had it is shut down.
LEMMA InstallStep ==
  ASSUME Inv, NEW s \in Sessions, Install(s)
  PROVE  Inv'
<1> DEFINE a == AgentOf(s)
           u == fiber[s].user
           c == Entry(s)
           f == IF fiber[s].roles = {} THEN [Idle EXCEPT !.user = u]
                ELSE [fiber[s] EXCEPT !.at = "reconnect", !.left = Logics]
<1>1. /\ fiber[s].at = "published" /\ fiber' = [fiber EXCEPT ![s] = f]
      /\ sess' = IF Me(s) = None THEN sess ELSE ShutDown(Me(s).session, "conflict")
      /\ users' = [users EXCEPT ![a] = @ \cup {u}]
      /\ conn' = [conn EXCEPT ![a][u] = c]
      /\ UNCHANGED <<redis, owner, hyd, by, requests>>
  BY DEF Install, Welcome, Return, WithMe, At, logic
<1>2. /\ sess[s].state # "new" /\ s \in Fibers
      /\ fiber[s] \in FiberRecords /\ HasOwn(fiber[s])
      /\ u \in Users /\ a \in Agents /\ Me(s) = conn[a][u] /\ Me(s) \in Connections \cup {None}
  BY <1>1, Opened
<1>3. OwnersStay
  BY <1>1, OwnersUnchanged
<1>4. /\ SessionsGoOn
      /\ Me(s) # None => sess'[Me(s).session].state # "up"
  <2>1. CASE Me(s) = None
    BY <1>1, <2>1, NobodyEnds
  <2>2. CASE Me(s) # None
    <3>1. Me(s).session \in Sessions
      BY <1>2, <2>2 DEF Connections
    <3> QED
      BY <1>1, <2>2, <3>1, OneEnds
  <2> QED
    BY <2>1, <2>2
<1>5. OthersTyped
  BY <1>1, <1>2 DEF OthersTyped, Inv, TypeOK
<1>6. Decent(f) /\ f.user = u
  <2>1. CASE fiber[s].roles = {}
    BY <2>1, <1>2, ReturnedIsDecent DEF Idle
  <2>2. CASE fiber[s].roles # {}
    <3> DEFINE g == [fiber[s] EXCEPT !.at = "reconnect", !.left = Logics]
    <3>1. g \in FiberRecords /\ Sensible(g) /\ g.user = u
      BY <1>2 DEF FiberRecords, Sensible
    <3>2. HasOwn(g)
      BY <1>2 DEF HasOwn, FiberRecords
    <3>3. Decent(g)
      BY <3>1, <3>2, <1>3, StaysDecent
    <3> QED
      BY <2>2, <3>1, <3>3
  <2> QED
    BY <2>1, <2>2
<1>7. c \in Connections /\ c.session = s /\ c.role = None /\ c.roles = fiber[s].roles
  BY <1>2 DEF Entry, Connections, FiberRecords
<1>8. DecentEntry(u, c) /\ c # None
  <2>1. Own(u) \subseteq OwnNext(u)
    BY <1>3 DEF OwnersStay, Own, OwnNext
  <2> QED
    BY <1>2, <1>7, <2>1, EntryAssumption DEF DecentEntry, HasOwn
<1>9. /\ fiber' \in [Fibers -> FiberRecords]
      /\ SessionsHaveUsers' /\ FibersAreSensible' /\ FibersHaveOwn'
  <2> HIDE DEF f, u
  <2>1. s \notin Agents
    BY UsersAssumption
  <2>2. f.user = fiber[s].user
    BY <1>6 DEF u
  <2> QED
    BY <1>1, <1>2, <1>3, <1>4, <1>6, <2>1, <2>2, FiberMoves
<1>10. /\ conn' \in [Agents -> [Users -> Connections \cup {None}]]
       /\ EntriesHaveOwn' /\ OwnRolesOnly'
       /\ conn'[a][u] = c
       /\ \A b \in Agents, v \in Users : (b # a \/ v # u) => conn'[b][v] = conn[b][v]
  <2>1. EntryBecomes(a, u, c)
    BY <1>1 DEF EntryBecomes
  <2> HIDE DEF a, u, c
  <2> QED
    BY <2>1, <1>2, <1>3, <1>8, EntryMoves
<1>11. AdmittedIsConnected'
  <2> SUFFICES ASSUME NEW t \in Sessions, Admitted(t)'
               PROVE  (Me(t) # None /\ Me(t).session = t)'
    BY DEF AdmittedIsConnected
  <2>1. /\ t \in Fibers /\ t \notin Agents /\ s \notin Agents
        /\ sess'[t].agent = sess[t].agent /\ fiber'[t].user = fiber[t].user
    <3>1. fiber'[t].user = fiber[t].user
      BY <1>1, <1>2, <1>6 DEF Inv, TypeOK, Fibers
    <3> QED
      BY <3>1, <1>4, UsersAssumption DEF Fibers, SessionsGoOn
  <2>2. CASE t = s
    BY <2>1, <2>2, <1>7, <1>8, <1>10 DEF Me, AgentOf
  <2>3. CASE t # s
    <3>1. fiber'[t] = fiber[t]
      BY <1>1, <2>1, <2>3 DEF Inv, TypeOK
    <3>2. Admitted(t)
      BY <3>1, <1>4 DEF Admitted, SessionsGoOn
    <3>3. Me(t) # None /\ Me(t).session = t
      BY <3>2 DEF Inv, AdmittedIsConnected
    <3>4. sess[t].agent \in Agents /\ fiber[t].user \in Users
      BY <3>2 DEF Admitted, Inv, SessionsHaveUsers
    <3>5. Me(t) = conn[sess[t].agent][fiber[t].user] /\ Me(t)' = conn'[sess[t].agent][fiber[t].user]
      BY <2>1 DEF Me, AgentOf
    <3>6. sess[t].agent # a \/ fiber[t].user # u
      <4>1. SUFFICES ASSUME sess[t].agent = a, fiber[t].user = u PROVE FALSE
        OBVIOUS
      <4>2. Me(s) = Me(t)
        BY <1>2, <3>5, <4>1
      <4>3. sess'[t].state # "up"
        BY <1>4, <3>3, <4>2
      <4> QED
        BY <4>3 DEF Admitted
    <3> QED
      BY <1>10, <3>3, <3>4, <3>5, <3>6
  <2> QED
    BY <2>2, <2>3
<1>12. TypeOK'
  BY <1>3, <1>4, <1>5, <1>9, <1>10 DEF TypeOK, OthersTyped, SessionsGoOn, OwnersStay
<1> QED
  BY <1>9, <1>10, <1>11, <1>12 DEF Inv
-----------------------------------------------------------------------------
\* Selecting a role.

LEMMA SelectFailsStep ==
  ASSUME Inv, UNCHANGED owner, OthersTyped, NEW s \in Sessions, sess[s].state # "new",
         Me(s) # None,
         NEW c \in Connections, c.session = Me(s).session, DecentEntry(fiber[s].user, c),
         NEW r \in Own(fiber[s].user), SelectFails(s, r, c)
  PROVE  Inv'
<1>1. PICK q \in Roles \cup {None}, l \in Logics \cup {None} :
        /\ q # None => q = r /\ l # None
        /\ conn' = WithMe(s, [c EXCEPT !.role = q, !.logic = l])
  <2>1. CASE conn' = WithMe(s, [c EXCEPT !.role = None, !.logic = None])
    BY <2>1
  <2>2. CASE \E l \in Logics : conn' = WithMe(s, [c EXCEPT !.role = r, !.logic = l])
    BY <2>2, UsersAssumption DEF Own
  <2> QED
    BY <2>1, <2>2 DEF SelectFails
<1> DEFINE d == [c EXCEPT !.role = q, !.logic = l]
<1>2. /\ d \in Connections /\ d.session = c.session /\ d.roles = c.roles
      /\ d.role = q /\ d.logic = l
  BY DEF Connections
<1>3. SessionsGoOn /\ sess'[s].state # "up" /\ Return(s)
  BY OneEnds DEF SelectFails
<1>4. OwnersStay /\ Own(fiber[s].user) = OwnNext(fiber[s].user)
  BY OwnersUnchanged
<1>5. DecentEntry(fiber[s].user, d)
  BY <1>1, <1>2, <1>4, EntryAssumption DEF DecentEntry
<1>6. conn' = WithMe(s, d)
  BY <1>1
<1> HIDE DEF d
<1> QED
  BY <1>2, <1>3, <1>4, <1>5, <1>6, Returns

LEMMA SelectStep ==
  ASSUME Inv, UNCHANGED owner, OthersTyped, NEW s \in Sessions, sess[s].state # "new",
         fiber[s].at \notin Early, Me(s) # None,
         NEW c \in Connections, c.session = Me(s).session, DecentEntry(fiber[s].user, c),
         NEW r \in Own(fiber[s].user), Select(s, r, c)
  PROVE  Inv'
<1> SUFFICES ASSUME ~SelectFails(s, r, c) PROVE Inv'
  BY SelectFailsStep
<1>1. PICK l \in Logics :
        /\ conn' = WithMe(s, [c EXCEPT !.role = r, !.logic = l])
        /\ fiber' = [fiber EXCEPT ![s] = [fiber[s] EXCEPT !.at = "login", !.role = r, !.logic = l]]
        /\ UNCHANGED sess
  BY DEF Select
<1> DEFINE f == [fiber[s] EXCEPT !.at = "login", !.role = r, !.logic = l]
           d == [c EXCEPT !.role = r, !.logic = l]
<1>2. fiber[s] \in FiberRecords /\ HasOwn(fiber[s]) /\ Sensible(fiber[s])
  BY Opened
<1>3. r \in Roles /\ l # None
  BY UsersAssumption DEF Own
<1>4. f \in FiberRecords /\ Sensible(f) /\ f.user = fiber[s].user
  <2>1. f \in FiberRecords
    BY <1>2, <1>3 DEF FiberRecords
  <2>2. f.user = fiber[s].user /\ f.at = "login" /\ f.role = r /\ f.logic = l
    BY <1>2 DEF FiberRecords
  <2> HIDE DEF f
  <2> QED
    BY <1>3, <2>1, <2>2 DEF Sensible
<1>5. HasOwn(f)
  BY <1>2 DEF HasOwn, FiberRecords
<1>6. /\ d \in Connections /\ d.session = c.session /\ d.roles = c.roles
      /\ d.role = r /\ d.logic = l
  BY <1>3 DEF Connections
<1>7. SessionsGoOn /\ OwnersStay /\ Own(fiber[s].user) = OwnNext(fiber[s].user)
  BY <1>1, NobodyEnds, OwnersUnchanged
<1>8. DecentEntry(fiber[s].user, d)
  BY <1>3, <1>6, <1>7, EntryAssumption DEF DecentEntry
<1>9. conn' = WithMe(s, d) /\ fiber' = [fiber EXCEPT ![s] = f]
  BY <1>1
<1> HIDE DEF f, d
<1> QED
  BY <1>4, <1>5, <1>6, <1>7, <1>8, <1>9, StaysDecent, SessionMoves

LEMMA LoginCommonStep ==
  ASSUME Inv, UNCHANGED owner, OthersTyped, NEW s \in Sessions, sess[s].state # "new",
         fiber[s].at \notin Early, Me(s) # None,
         NEW c \in Connections, c.session = Me(s).session, DecentEntry(fiber[s].user, c),
         NEW r \in Own(fiber[s].user), LoginCommon(s, r, c)
  PROVE  Inv'
<1>2. OwnersStay /\ Own(fiber[s].user) = OwnNext(fiber[s].user)
  BY OwnersUnchanged
<1>3. CASE c.role = r
  <2>1. Return(s) /\ conn' = WithMe(s, c) /\ UNCHANGED sess
    BY <1>3 DEF LoginCommon
  <2>2. SessionsGoOn
    BY <2>1, NobodyEnds
  <2> QED
    BY <1>2, <2>1, <2>2, Returns
<1>4. CASE c.role # r /\ c.role = None
  <2>1. Select(s, r, c)
    BY <1>4 DEF LoginCommon
  <2> QED
    BY <2>1, SelectStep
<1>5. CASE c.role # r /\ c.role # None
  <2> DEFINE f == [fiber[s] EXCEPT !.at = "logout", !.role = c.role, !.logic = c.logic, !.next = r]
  <2>1. fiber' = [fiber EXCEPT ![s] = f] /\ conn' = WithMe(s, c) /\ UNCHANGED sess
    BY <1>5 DEF LoginCommon
  <2>2. fiber[s] \in FiberRecords /\ HasOwn(fiber[s]) /\ Sensible(fiber[s])
    BY Opened
  <2>3. c.role \in Roles /\ c.logic \in Logics
    BY <1>5, EntryAssumption DEF DecentEntry, Connections
  <2>4. f \in FiberRecords /\ Sensible(f) /\ f.user = fiber[s].user
    BY <2>2, <2>3 DEF FiberRecords, Sensible, Own
  <2>5. HasOwn(f)
    BY <2>2 DEF HasOwn, FiberRecords
  <2>6. SessionsGoOn
    BY <2>1, NobodyEnds
  <2> HIDE DEF f
  <2> QED
    BY <1>2, <2>1, <2>4, <2>5, <2>6, StaysDecent, SessionMoves
<1> QED
  BY <1>3, <1>4, <1>5

LEMMA ReconnectedStep ==
  ASSUME Inv, NEW s \in Sessions, Reconnected(s)
  PROVE  Inv'
<1>1. fiber[s].at = "reconnect" /\ UNCHANGED <<users, redis, owner, hyd, by, requests>>
  BY DEF Reconnected, At, logic
<1>2. /\ sess[s].state # "new" /\ s \in Fibers /\ fiber[s].user \in Users
      /\ fiber[s] \in FiberRecords /\ HasOwn(fiber[s])
  BY <1>1, Opened
<1>3. /\ OwnersStay /\ OthersTyped /\ Own(fiber[s].user) = OwnNext(fiber[s].user)
      /\ fiber[s].at \notin Early
  BY <1>1, OwnersUnchanged, OthersUnchanged DEF Early
<1>4. CASE Throw(s)
  BY <1>2, <1>3, <1>4, Throws
<1>5. ASSUME Me(s) # None, NEW p \in fiber[s].found, Return(s), UNCHANGED sess,
             conn' = WithMe(s, [Me(s) EXCEPT !.role = p.role, !.logic = p.logic])
      PROVE  Inv'
  <2> DEFINE c == [Me(s) EXCEPT !.role = p.role, !.logic = p.logic]
  <2>1. Me(s) \in Connections /\ DecentEntry(fiber[s].user, Me(s))
    BY <1>2, <1>3, <1>5, EntryStaysDecent
  <2>2. p.role \in Own(fiber[s].user) /\ p.role \in Roles /\ p.logic \in Logics /\ p.logic # None
    BY <1>2, UsersAssumption DEF HasOwn, FiberRecords
  <2>3. /\ c \in Connections /\ c.session = Me(s).session /\ c.roles = Me(s).roles
        /\ c.role = p.role /\ c.logic = p.logic
    BY <2>1, <2>2 DEF Connections
  <2>4. DecentEntry(fiber[s].user, c)
    BY <1>3, <1>5, <2>1, <2>2, <2>3 DEF DecentEntry
  <2>5. SessionsGoOn
    BY <1>5, NobodyEnds
  <2>6. conn' = WithMe(s, c)
    BY <1>5
  <2> HIDE DEF c
  <2> QED
    BY <1>2, <1>3, <1>5, <2>3, <2>4, <2>5, <2>6, Returns
<1>6. CASE Return(s) /\ UNCHANGED <<sess, conn>>
  BY <1>2, <1>3, <1>6, NobodyEnds, Returns
<1>7. ASSUME Me(s) # None, NEW r \in Me(s).roles, UNCHANGED <<sess, conn>>,
             fiber' = [fiber EXCEPT ![s] = [Idle EXCEPT !.at = "load", !.user = fiber[s].user, !.next = r]]
      PROVE  Inv'
  <2> DEFINE f == [Idle EXCEPT !.at = "load", !.user = fiber[s].user, !.next = r]
  <2>1. r \in Own(fiber[s].user) /\ r \in Roles
    BY <1>2, <1>7, Opened DEF Own
  <2>2. f \in FiberRecords /\ Sensible(f) /\ HasOwn(f) /\ f.user = fiber[s].user
    BY <1>2, <2>1 DEF FiberRecords, Sensible, HasOwn, Idle
  <2>3. SessionsGoOn
    BY <1>7, NobodyEnds
  <2>4. fiber' = [fiber EXCEPT ![s] = f] /\ UNCHANGED conn
    BY <1>7
  <2> HIDE DEF f
  <2> QED
    BY <1>2, <1>3, <2>2, <2>3, <2>4, StaysDecent, SessionMoves
<1> QED
  BY <1>4, <1>5, <1>6, <1>7 DEF Reconnected

\* The handler of a request launches its first question.
LEMMA GoesTo ==
  ASSUME Inv, SessionsGoOn, OthersTyped, UNCHANGED <<conn, owner>>,
         NEW s \in Sessions, sess[s].state # "new", fiber[s].at \notin Early,
         NEW at \in {"create", "logout", "load"},
         NEW role \in Roles \cup {None}, NEW lg \in Logics \cup {None}, NEW next \in Roles \cup {None},
         at = "logout" => role \in Roles /\ lg \in Logics,
         at = "load" => next \in Roles,
         next # None => next \in Own(fiber[s].user),
         fiber' = [fiber EXCEPT ![s] = [fiber[s] EXCEPT !.at = at, !.role = role, !.logic = lg, !.next = next]]
  PROVE  Inv'
<1> DEFINE f == [fiber[s] EXCEPT !.at = at, !.role = role, !.logic = lg, !.next = next]
<1>1. fiber[s] \in FiberRecords /\ HasOwn(fiber[s])
  BY Opened
<1>2. f \in FiberRecords
  BY <1>1 DEF FiberRecords
<1>3. /\ f.at = at /\ f.role = role /\ f.logic = lg /\ f.next = next /\ f.user = fiber[s].user
      /\ f.roles = fiber[s].roles /\ f.found = fiber[s].found
  BY <1>1 DEF FiberRecords
<1>4. fiber' = [fiber EXCEPT ![s] = f]
  OBVIOUS
<1> HIDE DEF f
<1>5. Sensible(f)
  BY <1>3 DEF Sensible
<1>6. HasOwn(f)
  BY <1>1, <1>3 DEF HasOwn
<1>7. Decent(f)
  BY <1>2, <1>5, <1>6, OwnersUnchanged, StaysDecent
<1> QED
  BY <1>3, <1>4, <1>7, OwnersUnchanged, SessionMoves

\* A logic server has answered, or is not going to.
LEMMA Answered ==
  ASSUME Inv, SessionsGoOn, OthersTyped, UNCHANGED <<conn, owner>>,
         NEW s \in Sessions, fiber[s].at \in {"login", "logout"},
         NEW at \in {"loggedin", "loggedout"}, Goto(s, at)
  PROVE  Inv'
<1> DEFINE f == [fiber[s] EXCEPT !.at = at]
<1>1. /\ fiber[s] \in FiberRecords /\ HasOwn(fiber[s]) /\ Sensible(fiber[s])
      /\ sess[s].state # "new" /\ fiber[s].at \notin Early
  BY Opened DEF Early
<1>2. f \in FiberRecords /\ Sensible(f) /\ f.user = fiber[s].user
  BY <1>1 DEF FiberRecords, Sensible
<1>3. HasOwn(f)
  BY <1>1 DEF HasOwn, FiberRecords
<1>4. fiber' = [fiber EXCEPT ![s] = f]
  BY DEF Goto
<1> HIDE DEF f
<1> QED
  BY <1>1, <1>2, <1>3, <1>4, OwnersUnchanged, StaysDecent, SessionMoves

LEMMA RequestStep ==
  ASSUME Inv, NEW s \in Sessions,
         RoleCreate(s) \/ RoleLogout(s) \/ \E r \in Roles : RoleLogin(s, r)
  PROVE  Inv'
<1>1. /\ sess[s].state # "new" /\ fiber[s].at = "idle" /\ Me(s) # None
      /\ UNCHANGED <<sess, conn, users, redis, owner, hyd, by>>
      /\ requests < MaxRequests /\ requests' = requests + 1
  BY DEF RoleCreate, RoleLogout, RoleLogin, Requested, At, local, logic
<1>2. /\ fiber[s] \in FiberRecords /\ HasOwn(fiber[s]) /\ Me(s) \in Connections
      /\ Me(s).roles \subseteq Own(fiber[s].user)
      /\ Me(s).role # None => Me(s).logic # None /\ Me(s).role \in Own(fiber[s].user)
  BY <1>1, Opened
<1>3. OthersTyped
  <2>1. requests \in 0..MaxRequests /\ MaxRequests \in Nat
    BY UsersAssumption DEF Inv, TypeOK
  <2> QED
    BY <1>1, <2>1 DEF OthersTyped, Inv, TypeOK
<1>4. SessionsGoOn
  BY <1>1, NobodyEnds
<1>5. /\ fiber[s].role \in Roles \cup {None} /\ fiber[s].logic \in Logics \cup {None}
      /\ fiber[s].next \in Roles \cup {None} /\ fiber[s].at \notin Early
      /\ fiber[s].next # None => fiber[s].next \in Own(fiber[s].user)
  BY <1>1, <1>2 DEF FiberRecords, HasOwn, Early
<1>6. CASE RoleCreate(s)
  <2>1. fiber' = [fiber EXCEPT ![s] = [fiber[s] EXCEPT !.at = "create", !.role = fiber[s].role,
                                         !.logic = fiber[s].logic, !.next = fiber[s].next]]
    BY <1>2, <1>6 DEF RoleCreate, Goto, FiberRecords
  <2> QED
    BY <1>1, <1>3, <1>4, <1>5, <2>1, GoesTo
<1>7. CASE RoleLogout(s)
  <2>1. fiber' = [fiber EXCEPT ![s] = [fiber[s] EXCEPT !.at = "logout", !.role = Me(s).role,
                                         !.logic = Me(s).logic, !.next = None]]
    BY <1>7 DEF RoleLogout
  <2>2. Me(s).role \in Roles /\ Me(s).logic \in Logics
    BY <1>2, <1>7 DEF RoleLogout, Connections
  <2> QED
    BY <1>1, <1>3, <1>4, <1>5, <2>1, <2>2, GoesTo
<1>8. ASSUME NEW r \in Roles, RoleLogin(s, r)
      PROVE  Inv'
  <2>1. fiber' = [fiber EXCEPT ![s] = [fiber[s] EXCEPT !.at = "load", !.role = fiber[s].role,
                                         !.logic = fiber[s].logic, !.next = r]]
    BY <1>2, <1>8 DEF RoleLogin, FiberRecords
  <2>2. r \in Own(fiber[s].user)
    BY <1>2, <1>8 DEF RoleLogin
  <2> QED
    BY <1>1, <1>3, <1>4, <1>5, <2>1, <2>2, GoesTo
<1> QED
  BY <1>6, <1>7, <1>8

\* A role that is new, or the user's own, becomes the user's.
LEMMA NewRoleStep ==
  ASSUME Inv, NEW s \in Sessions, NEW r \in Roles, NewRole(s, r)
  PROVE  Inv'
<1> DEFINE f == [fiber[s] EXCEPT !.at = "created", !.next = r]
<1>1. /\ fiber[s].at = "create" /\ fiber' = [fiber EXCEPT ![s] = f]
      /\ owner[r] \in {None, fiber[s].user} /\ owner' = [owner EXCEPT ![r] = fiber[s].user]
      /\ UNCHANGED <<sess, conn, users, redis, hyd, by, requests>>
  BY DEF NewRole, At, local, logic
<1>2. /\ sess[s].state # "new" /\ fiber[s].user \in Users
      /\ fiber[s] \in FiberRecords /\ HasOwn(fiber[s])
  BY <1>1, Opened
<1>3. OwnersStay /\ r \in OwnNext(fiber[s].user)
  BY <1>1, <1>2, UsersAssumption DEF OwnersStay, OwnNext, Inv, TypeOK
<1>4. f \in FiberRecords /\ Sensible(f) /\ f.user = fiber[s].user /\ f.next = r
      /\ f.roles = fiber[s].roles /\ f.found = fiber[s].found
  BY <1>2 DEF FiberRecords, Sensible
<1>5. Own(fiber[s].user) \subseteq OwnNext(fiber[s].user)
  BY <1>3 DEF Own, OwnNext, OwnersStay
<1> HIDE DEF f
<1>6. Decent(f)
  BY <1>2, <1>3, <1>4, <1>5 DEF Decent, HasOwn
<1> QED
  BY <1>1, <1>2, <1>3, <1>4, <1>6, NobodyEnds, OthersUnchanged, SessionMoves DEF Early

LEMMA NoNewRoleStep ==
  ASSUME Inv, NEW s \in Sessions, NoNewRole(s)
  PROVE  Inv'
<1>1. sess[s].state # "new" /\ fiber[s].at \notin Early
  BY Opened DEF NoNewRole, At, Early
<1> QED
  BY <1>1, NobodyEnds, OwnersUnchanged, OthersUnchanged, Returns DEF NoNewRole, local, logic

LEMMA CreatedStep ==
  ASSUME Inv, NEW s \in Sessions, Created(s)
  PROVE  Inv'
<1>1. fiber[s].at = "created" /\ UNCHANGED <<users, redis, owner, hyd, by, requests>>
  BY DEF Created, At, logic
<1>2. sess[s].state # "new" /\ fiber[s].next \in Own(fiber[s].user)
  BY <1>1, Opened, UsersAssumption DEF HasOwn, Sensible
<1>3. OthersTyped /\ OwnersStay /\ OwnNext(fiber[s].user) = Own(fiber[s].user)
  BY <1>1, OthersUnchanged, OwnersUnchanged
<1>4. CASE Me(s) = None
  BY <1>2, <1>3, <1>4, Throws DEF Created
<1>5. CASE Me(s) # None
  <2> DEFINE c == [Me(s) EXCEPT !.roles = @ \cup {fiber[s].next}]
  <2>1. Me(s) \in Connections /\ DecentEntry(fiber[s].user, Me(s))
    BY <1>2, <1>3, <1>5, EntryStaysDecent
  <2>2. /\ c \in Connections /\ c.session = Me(s).session /\ c.role = Me(s).role
        /\ c.logic = Me(s).logic /\ c.roles = Me(s).roles \cup {fiber[s].next}
    BY <1>2, <2>1 DEF Connections, Own
  <2>3. DecentEntry(fiber[s].user, c)
    BY <1>2, <1>3, <1>5, <2>1, <2>2 DEF DecentEntry
  <2>4. LoginCommon(s, fiber[s].next, c)
    BY <1>5 DEF Created
  <2> HIDE DEF c
  <2> QED
    BY <1>1, <1>2, <1>3, <1>5, <2>2, <2>3, <2>4, LoginCommonStep DEF Early
<1> QED
  BY <1>4, <1>5

LEMMA LoadedStep ==
  ASSUME Inv, NEW s \in Sessions, Loaded(s)
  PROVE  Inv'
<1>1. fiber[s].at = "load" /\ UNCHANGED <<users, redis, owner, hyd, by, requests>>
  BY DEF Loaded, At, logic
<1>2. sess[s].state # "new" /\ fiber[s].next \in Own(fiber[s].user)
  BY <1>1, Opened, UsersAssumption DEF HasOwn, Sensible
<1>3. OthersTyped /\ OwnersStay
  BY <1>1, OthersUnchanged, OwnersUnchanged
<1>4. CASE Me(s) = None
  BY <1>2, <1>3, <1>4, Throws DEF Loaded
<1>5. CASE Me(s) # None
  <2>1. Me(s) \in Connections /\ DecentEntry(fiber[s].user, Me(s))
    BY <1>2, <1>3, <1>5, EntryStaysDecent
  <2>2. LoginCommon(s, fiber[s].next, Me(s))
    BY <1>5 DEF Loaded
  <2> QED
    BY <1>1, <1>2, <1>3, <1>5, <2>1, <2>2, LoginCommonStep DEF Early
<1> QED
  BY <1>4, <1>5

LEMMA LoggedOutStep ==
  ASSUME Inv, NEW s \in Sessions, LoggedOut(s)
  PROVE  Inv'
<1>1. fiber[s].at = "loggedout" /\ UNCHANGED <<users, redis, owner, hyd, by, requests>>
  BY DEF LoggedOut, At, logic
<1>2. /\ sess[s].state # "new" /\ fiber[s].at \notin Early
      /\ fiber[s].next # None => fiber[s].next \in Own(fiber[s].user)
  BY <1>1, Opened DEF HasOwn, Early
<1>3. OthersTyped /\ OwnersStay
  BY <1>1, OthersUnchanged, OwnersUnchanged
<1>4. CASE Me(s) = None
  BY <1>2, <1>3, <1>4, Throws DEF LoggedOut
<1>5. CASE Me(s) # None /\ fiber[s].next # None
  <2>1. Me(s) \in Connections /\ DecentEntry(fiber[s].user, Me(s))
    BY <1>2, <1>3, <1>5, EntryStaysDecent
  <2>2. Select(s, fiber[s].next, Me(s))
    BY <1>5 DEF LoggedOut
  <2> QED
    BY <1>1, <1>2, <1>3, <1>5, <2>1, <2>2, SelectStep
<1>6. CASE Me(s) # None /\ fiber[s].next = None
  <2> DEFINE c == [Me(s) EXCEPT !.role = None, !.logic = None]
  <2>1. Me(s) \in Connections /\ DecentEntry(fiber[s].user, Me(s))
    BY <1>2, <1>3, <1>6, EntryStaysDecent
  <2>2. c \in Connections /\ c.session = Me(s).session /\ c.role = None /\ c.roles = Me(s).roles
    BY <2>1 DEF Connections
  <2>3. DecentEntry(fiber[s].user, c)
    BY <1>6, <2>1, <2>2 DEF DecentEntry
  <2>4. conn' = WithMe(s, c) /\ Return(s) /\ UNCHANGED sess
    BY <1>6 DEF LoggedOut
  <2>5. SessionsGoOn
    BY <2>4, NobodyEnds
  <2> HIDE DEF c
  <2> QED
    BY <1>2, <1>3, <1>6, <2>2, <2>3, <2>4, <2>5, Returns
<1> QED
  BY <1>4, <1>5, <1>6

LEMMA LoggedInStep ==
  ASSUME Inv, NEW s \in Sessions, LoggedIn(s)
  PROVE  Inv'
<1>1. fiber[s].at = "loggedin" /\ UNCHANGED <<users, redis, owner, hyd, by, requests>>
  BY DEF LoggedIn, At, logic
<1>2. sess[s].state # "new" /\ fiber[s].at \notin Early
  BY <1>1, Opened DEF Early
<1>3. OthersTyped /\ OwnersStay
  BY <1>1, OthersUnchanged, OwnersUnchanged
<1>4. CASE Me(s) = None
  BY <1>2, <1>3, <1>4, Throws DEF LoggedIn
<1>5. CASE Me(s) # None
  <2>1. Return(s) /\ UNCHANGED <<sess, conn>>
    BY <1>5 DEF LoggedIn
  <2>2. SessionsGoOn
    BY <2>1, NobodyEnds
  <2> QED
    BY <1>2, <1>3, <2>1, <2>2, Returns
<1> QED
  BY <1>4, <1>5
-----------------------------------------------------------------------------
\* The end of a session.

LEMMA SessionEndsStep ==
  ASSUME Inv, NEW s \in Sessions, SessionEnds(s)
  PROVE  Inv'
BY OneEnds, OthersUnchanged, NoFiberMoves DEF SessionEnds, local, logic

LEMMA BanSetStep ==
  ASSUME Inv, NEW a \in Agents, NEW u \in Users, BanSet(a, u)
  PROVE  Inv'
<1>1. conn[a][u] \in Connections
  BY DEF BanSet, Inv, TypeOK
<1>2. conn[a][u].session \in Sessions
  BY <1>1 DEF Connections
<1>3. SessionsGoOn
  BY <1>2, OneEnds DEF BanSet
<1> QED
  BY <1>3, OthersUnchanged, NoFiberMoves DEF BanSet, local, logic

\* A session that has ended takes its entry away, and nobody else's.
LEMMA CloseStep ==
  ASSUME Inv, NEW s \in Sessions, Close(s)
  PROVE  Inv'
<1>1. /\ fiber[s].at = "idle" /\ sess[s].state \in {"down", "conflict"}
      /\ sess' = [sess EXCEPT ![s].state = "gone"]
      /\ UNCHANGED <<users, redis, owner, hyd, by, requests>>
  BY DEF Close, At, logic
<1>2. /\ sess[s].state # "new" /\ s \in Fibers /\ s \notin Agents
      /\ fiber[s] \in FiberRecords /\ Sensible(fiber[s]) /\ HasOwn(fiber[s])
      /\ fiber[s].user \in Users /\ AgentOf(s) \in Agents
      /\ Me(s) = conn[AgentOf(s)][fiber[s].user] /\ Me(s) \in Connections \cup {None}
      /\ Me(s) # None /\ Me(s).role # None => Me(s).logic # None
  BY <1>1, Opened, UsersAssumption
<1>3. SessionsGoOn /\ sess'[s].state = "gone" /\ \A t \in Sessions : t # s => sess'[t] = sess[t]
  BY <1>1 DEF Inv, TypeOK, SessionRecords, SessionsGoOn
<1>4. OwnersStay /\ OthersTyped
  BY <1>1, OwnersUnchanged, OthersUnchanged
<1>5. CASE Me(s) = None \/ Me(s).session # s
  <2>1. UNCHANGED <<fiber, conn, owner>>
    BY <1>1, <1>5 DEF Close
  <2> QED
    BY <1>3, <1>4, <2>1, NoFiberMoves
<1>6. CASE Me(s) # None /\ Me(s).session = s
  <2> DEFINE a == AgentOf(s)
             u == fiber[s].user
             f == IF Me(s).role = None THEN fiber[s]
                  ELSE [fiber[s] EXCEPT !.at = "disconnect", !.role = Me(s).role, !.logic = Me(s).logic]
  <2>1. conn' = [conn EXCEPT ![a][u] = None]
    BY <1>6 DEF Close, WithMe
  <2>2. fiber' = [fiber EXCEPT ![s] = f]
    <3>1. fiber \in [Fibers -> FiberRecords]
      BY DEF Inv, TypeOK
    <3> QED
      BY <1>2, <1>6, <3>1 DEF Close
  <2>3. Decent(f) /\ f.user = fiber[s].user
    <3>1. CASE Me(s).role = None
      BY <1>2, <1>4, <3>1, StaysDecent
    <3>2. CASE Me(s).role # None
      <4> DEFINE g == [fiber[s] EXCEPT !.at = "disconnect", !.role = Me(s).role, !.logic = Me(s).logic]
      <4>1. Me(s).role \in Roles /\ Me(s).logic \in Logics
        BY <1>2, <1>6, <3>2 DEF Connections
      <4>2. g \in FiberRecords /\ Sensible(g) /\ g.user = fiber[s].user
        BY <1>2, <4>1 DEF FiberRecords, Sensible
      <4>3. HasOwn(g)
        BY <1>2 DEF HasOwn, FiberRecords
      <4>4. Decent(g)
        BY <1>4, <4>2, <4>3, StaysDecent
      <4> QED
        BY <3>2, <4>2, <4>4
    <3> QED
      BY <3>1, <3>2
  <2>4. u \in Users /\ a \in Agents /\ DecentEntry(u, None)
    BY <1>2 DEF DecentEntry
  <2>5. \A t \in Sessions : t # s => sess[t].agent = sess'[t].agent /\ fiber'[t] = fiber[t]
    BY <1>3, <2>2 DEF Inv, TypeOK, Fibers
  <2> HIDE DEF f
  <2>6. /\ fiber' \in [Fibers -> FiberRecords]
        /\ SessionsHaveUsers' /\ FibersAreSensible' /\ FibersHaveOwn'
    BY <1>2, <1>3, <1>4, <2>2, <2>3, FiberMoves
  <2>7. /\ conn' \in [Agents -> [Users -> Connections \cup {None}]]
        /\ EntriesHaveOwn' /\ OwnRolesOnly'
        /\ \A b \in Agents, v \in Users : (b # a \/ v # u) => conn'[b][v] = conn[b][v]
    <3>1. EntryBecomes(a, u, None)
      BY <2>1 DEF EntryBecomes
    <3> HIDE DEF a, u
    <3> QED
      BY <1>4, <2>4, <3>1, EntryMoves
  <2>8. AdmittedIsConnected'
    <3> SUFFICES ASSUME NEW t \in Sessions, Admitted(t)'
                 PROVE  (Me(t) # None /\ Me(t).session = t)'
      BY DEF AdmittedIsConnected
    <3>1. t # s /\ t \notin Agents
      BY <1>3, UsersAssumption DEF Admitted
    <3>2. Admitted(t)
      BY <1>3, <2>5, <3>1 DEF Admitted
    <3>3. Me(t) # None /\ Me(t).session = t
      BY <3>2 DEF Inv, AdmittedIsConnected
    <3>4. sess[t].agent \in Agents /\ fiber[t].user \in Users
      BY <3>2 DEF Admitted, Inv, SessionsHaveUsers
    <3>5. Me(t) = conn[sess[t].agent][fiber[t].user] /\ Me(t)' = conn'[sess[t].agent][fiber[t].user]
      BY <2>5, <3>1 DEF Me, AgentOf
    <3>6. sess[t].agent # a \/ fiber[t].user # u
      BY <1>2, <1>6, <3>1, <3>3, <3>5
    <3> QED
      BY <2>7, <3>3, <3>4, <3>5, <3>6
  <2>9. TypeOK'
    BY <1>3, <1>4, <2>6, <2>7 DEF TypeOK, OthersTyped, SessionsGoOn, OwnersStay
  <2> QED
    BY <2>6, <2>7, <2>8, <2>9 DEF Inv
<1> QED
  BY <1>5, <1>6

LEMMA PingTimeoutStep ==
  ASSUME Inv, NEW a \in Agents, NEW u \in Users, PingTimeout(a, u)
  PROVE  Inv'
<1> DEFINE o == conn[a][u].session
<1>1. /\ conn[a][u] # None /\ sess' = ShutDown(o, "down")
      /\ users' = [users EXCEPT ![a] = @ \ {u}]
      /\ conn' = [conn EXCEPT ![a][u] = None]
      /\ UNCHANGED <<fiber, redis, owner, hyd, by, requests>>
  BY DEF PingTimeout, logic
<1>2. o \in Sessions
  <2>1. conn[a][u] \in Connections
    BY <1>1 DEF Inv, TypeOK
  <2> QED
    BY <2>1 DEF Connections
<1>3. SessionsGoOn /\ sess'[o].state # "up"
  BY <1>1, <1>2, OneEnds
<1>4. OwnersStay /\ OthersTyped
  BY <1>1, OwnersUnchanged DEF OthersTyped, Inv, TypeOK
<1>5. /\ fiber' \in [Fibers -> FiberRecords]
      /\ SessionsHaveUsers' /\ FibersAreSensible' /\ FibersHaveOwn'
  BY <1>1, <1>3, <1>4, FibersWait
<1>6. /\ conn' \in [Agents -> [Users -> Connections \cup {None}]]
      /\ EntriesHaveOwn' /\ OwnRolesOnly'
      /\ \A b \in Agents, v \in Users : (b # a \/ v # u) => conn'[b][v] = conn[b][v]
  <2>1. DecentEntry(u, None)
    BY DEF DecentEntry
  <2>2. EntryBecomes(a, u, None)
    BY <1>1 DEF EntryBecomes
  <2> QED
    BY <1>4, <2>1, <2>2, EntryMoves
<1>7. AdmittedIsConnected'
  <2> SUFFICES ASSUME NEW t \in Sessions, Admitted(t)'
               PROVE  (Me(t) # None /\ Me(t).session = t)'
    BY DEF AdmittedIsConnected
  <2>1. Admitted(t) /\ t # o /\ t \notin Agents /\ sess'[t].agent = sess[t].agent
    BY <1>1, <1>3, UsersAssumption DEF Admitted, SessionsGoOn
  <2>2. Me(t) # None /\ Me(t).session = t
    BY <2>1 DEF Inv, AdmittedIsConnected
  <2>3. sess[t].agent \in Agents /\ fiber[t].user \in Users
    BY <2>1 DEF Admitted, Inv, SessionsHaveUsers
  <2>4. Me(t) = conn[sess[t].agent][fiber[t].user] /\ Me(t)' = conn'[sess[t].agent][fiber[t].user]
    BY <1>1, <2>1 DEF Me, AgentOf
  <2>5. sess[t].agent # a \/ fiber[t].user # u
    BY <2>1, <2>2, <2>4
  <2> QED
    BY <1>6, <2>2, <2>3, <2>4, <2>5
<1>8. TypeOK'
  BY <1>3, <1>4, <1>5, <1>6 DEF TypeOK, OthersTyped, SessionsGoOn, OwnersStay
<1> QED
  BY <1>5, <1>6, <1>7, <1>8 DEF Inv

\* An agent that dies takes its sessions and entries with it; fibers are left with
\* what they have asked for, or with nothing.
LEMMA AgentCrashStep ==
  ASSUME Inv, NEW a \in Agents, AgentCrash(a)
  PROVE  Inv'
<1> DEFINE dead == [Idle EXCEPT !.at = "dead"]
           left(w) == [Idle EXCEPT !.user = fiber[w].user]
<1>1. /\ sess' = [s \in Sessions |-> IF sess[s].agent = a /\ sess[s].state # "new"
                                     THEN [sess[s] EXCEPT !.state = "gone"] ELSE sess[s]]
      /\ users' = [users EXCEPT ![a] = {}]
      /\ conn' = [conn EXCEPT ![a] = [u \in Users |-> None]]
      /\ UNCHANGED <<redis, owner, hyd, by, requests>>
      /\ fiber' \in [Fibers -> {dead} \cup {left(w) : w \in Fibers} \cup {fiber[w] : w \in Fibers}]
      /\ fiber'[a] = dead
      /\ \A w \in Fibers : w # a => fiber'[w] \in {fiber[w], left(w)}
      /\ \A w \in Fibers : w # a /\ AgentOf(w) # a => fiber'[w] = fiber[w]
  BY DEF AgentCrash, logic, Fibers
<1>2. /\ sess' \in [Sessions -> SessionRecords]
      /\ \A t \in Sessions : /\ sess'[t].agent = sess[t].agent
                             /\ sess'[t].state = "new" <=> sess[t].state = "new"
                             /\ sess[t].agent = a => sess'[t].state # "up"
                             /\ sess[t].agent # a => sess'[t] = sess[t]
  <2>1. sess \in [Sessions -> SessionRecords]
    BY DEF Inv, TypeOK
  <2> QED
    BY <1>1, <2>1 DEF SessionRecords
<1>3. \A w \in Fibers : fiber[w] \in FiberRecords /\ fiber[w].user \in Users \cup {None}
  BY DEF Inv, TypeOK, FiberRecords
<1>4. dead \in FiberRecords /\ \A w \in Fibers : left(w) \in FiberRecords
  BY <1>3 DEF Idle, FiberRecords
<1>5. fiber' \in [Fibers -> FiberRecords]
  BY <1>1, <1>3, <1>4
<1>6. SessionsHaveUsers'
  <2> SUFFICES ASSUME NEW t \in Sessions
               PROVE  IF sess'[t].state = "new" THEN fiber'[t] = Idle
                      ELSE sess'[t].agent \in Agents /\ fiber'[t].user \in Users
    BY DEF SessionsHaveUsers, Idle
  <2>1. /\ t \in Fibers /\ t # a /\ AgentOf(t) = sess[t].agent
        /\ IF sess[t].state = "new" THEN fiber[t] = Idle
           ELSE sess[t].agent \in Agents /\ fiber[t].user \in Users
    BY UsersAssumption DEF Inv, SessionsHaveUsers, Fibers, AgentOf
  <2>2. fiber'[t] \in {fiber[t], left(t)}
    BY <1>1, <2>1
  <2>3. CASE sess[t].state = "new"
    BY <1>2, <2>1, <2>2, <2>3 DEF Idle
  <2>4. CASE sess[t].state # "new"
    <3>1. fiber'[t].user = fiber[t].user
      BY <2>2 DEF Idle
    <3> QED
      BY <1>2, <2>1, <2>4, <3>1
  <2> QED
    BY <2>3, <2>4
<1>7. FibersAreSensible' /\ FibersHaveOwn'
  <2>1. ASSUME NEW w \in Fibers
        PROVE  Sensible(fiber'[w]) /\ HasOwn(fiber'[w]) /\ (w \in Agents => fiber'[w].at \in TimerPoints)
    <3>1. Sensible(fiber[w]) /\ HasOwn(fiber[w]) /\ (w \in Agents => fiber[w].at \in TimerPoints)
      BY DEF Inv, FibersAreSensible, FibersHaveOwn, TimerPoints
    <3>2. Sensible(dead) /\ HasOwn(dead) /\ dead.at \in TimerPoints
      BY DEF Sensible, HasOwn, Idle, TimerPoints
    <3>3. Sensible(left(w)) /\ HasOwn(left(w)) /\ left(w).at \in TimerPoints
      BY DEF Sensible, HasOwn, Idle, TimerPoints
    <3> QED
      BY <1>1, <3>1, <3>2, <3>3
  <2>2. \A w \in Fibers : Sensible(fiber[w])'
    BY <2>1 DEF Sensible
  <2>3. \A w \in Fibers : HasOwn(fiber[w])'
    BY <1>1, <2>1 DEF HasOwn, Own
  <2> QED
    BY <2>1, <2>2, <2>3 DEF FibersAreSensible, FibersHaveOwn, TimerPoints, Fibers
<1>8. /\ conn' \in [Agents -> [Users -> Connections \cup {None}]]
      /\ \A b \in Agents, v \in Users :
           conn'[b][v] # None => b # a /\ conn'[b][v] = conn[b][v]
      /\ \A b \in Agents, v \in Users : b # a => conn'[b][v] = conn[b][v]
  <2>1. conn \in [Agents -> [Users -> Connections \cup {None}]]
    BY DEF Inv, TypeOK
  <2> QED
    BY <1>1, <2>1
<1>9. EntriesHaveOwn' /\ OwnRolesOnly'
  BY <1>1, <1>8 DEF Inv, EntriesHaveOwn, EntryHasOwn, Own, OwnRolesOnly
<1>10. AdmittedIsConnected'
  <2> SUFFICES ASSUME NEW t \in Sessions, Admitted(t)'
               PROVE  (Me(t) # None /\ Me(t).session = t)'
    BY DEF AdmittedIsConnected
  <2>1. t \notin Agents /\ t \in Fibers /\ AgentOf(t) = sess[t].agent
    BY UsersAssumption DEF AgentOf, Fibers
  <2>2. sess[t].agent # a /\ sess'[t] = sess[t]
    BY <1>2 DEF Admitted
  <2>3. fiber'[t] = fiber[t]
    BY <1>1, <2>1, <2>2
  <2>4. Admitted(t)
    BY <2>2, <2>3 DEF Admitted
  <2>5. Me(t) # None /\ Me(t).session = t
    BY <2>4 DEF Inv, AdmittedIsConnected
  <2>6. sess[t].agent \in Agents /\ fiber[t].user \in Users
    BY <2>4 DEF Admitted, Inv, SessionsHaveUsers
  <2> QED
    BY <1>8, <2>1, <2>2, <2>3, <2>5, <2>6 DEF Me, AgentOf
<1>11. TypeOK'
  BY <1>1, <1>2, <1>5, <1>8 DEF TypeOK, Inv
<1> QED
  BY <1>6, <1>7, <1>9, <1>10, <1>11 DEF Inv

LEMMA CheckStep ==
  ASSUME Inv, NEW a \in Agents, CheckUsers(a) \/ CheckNext(a)
  PROVE  Inv'
<1>1. PICK todo \in SUBSET Users : Check(a, todo)
  <2>1. a \in Fibers
    BY DEF Fibers
  <2>2. users[a] \in SUBSET Users /\ fiber[a].todo \in SUBSET Users
    BY <2>1 DEF Inv, TypeOK, FiberRecords
  <2> QED
    BY <2>2 DEF CheckUsers, CheckNext
<1>2. UNCHANGED <<sess, conn, users, redis, owner, hyd, by, requests>>
  BY DEF CheckUsers, CheckNext, local, logic
<1>3. OwnersStay /\ OthersTyped
  BY <1>2, OwnersUnchanged, OthersUnchanged
<1>4. CASE fiber' = [fiber EXCEPT ![a] = Idle]
  <2>1. Decent(Idle) /\ Idle.at = "idle"
    BY DEF Decent, Idle, FiberRecords, Sensible
  <2> QED
    BY <1>2, <1>3, <1>4, <2>1, TimerMoves DEF TimerPoints
<1>5. ASSUME NEW u \in todo,
             fiber' = [fiber EXCEPT ![a] = [Idle EXCEPT !.at = "set", !.user = u, !.todo = todo \ {u}]]
      PROVE  Inv'
  <2> DEFINE f == [Idle EXCEPT !.at = "set", !.user = u, !.todo = todo \ {u}]
  <2>1. Decent(f) /\ f.at = "set"
    BY DEF Decent, Idle, FiberRecords, Sensible
  <2>2. fiber' = [fiber EXCEPT ![a] = f]
    BY <1>5
  <2> HIDE DEF f
  <2> QED
    BY <1>2, <1>3, <2>1, <2>2, TimerMoves DEF TimerPoints
<1> QED
  BY <1>1, <1>4, <1>5 DEF Check
-----------------------------------------------------------------------------
\* Redis and the logic servers.

LEMMA ExpireStep ==
  ASSUME Inv, NEW u \in Users, Expire(u)
  PROVE  Inv'
<1>1. OthersTyped
  BY DEF Expire, local, logic, OthersTyped, Inv, TypeOK
<1> QED
  BY <1>1, NobodyEnds, NoFiberMoves DEF Expire, local, logic

LEMMA ReconnectStep ==
  ASSUME Inv, NEW s \in Sessions, NEW l \in Logics, Reconnect(s, l)
  PROVE  Inv'
<1> DEFINE online == hyd[l] \cap fiber[s].roles
<1>1. fiber[s].at = "reconnect" /\ UNCHANGED <<sess, conn, users, redis, owner, hyd, requests>>
  BY DEF Reconnect, At, local
<1>2. /\ sess[s].state # "new" /\ s \in Fibers /\ AgentOf(s) \in Agents
      /\ fiber[s] \in FiberRecords /\ HasOwn(fiber[s])
  BY <1>1, Opened
<1>3. SessionsGoOn /\ OwnersStay
  BY <1>1, NobodyEnds, OwnersUnchanged
<1>4. CASE fiber' = [fiber EXCEPT ![s].left = @ \ {l}] /\ UNCHANGED by
  <2> DEFINE f == [fiber[s] EXCEPT !.left = @ \ {l}]
  <2>1. f \in FiberRecords /\ Sensible(f) /\ f.user = fiber[s].user /\ f.at = "reconnect"
    BY <1>1, <1>2 DEF FiberRecords, Sensible
  <2>2. HasOwn(f)
    BY <1>2 DEF HasOwn, FiberRecords
  <2>3. fiber' = [fiber EXCEPT ![s] = f]
    BY <1>4
  <2>4. OthersTyped
    BY <1>1, <1>4, OthersUnchanged
  <2> HIDE DEF f
  <2> QED
    BY <1>1, <1>2, <1>3, <2>1, <2>2, <2>3, <2>4, StaysDecent, SessionMoves DEF Early
<1>5. ASSUME NEW r \in online, by' = [by EXCEPT ![l][r] = AgentOf(s)],
             fiber' = [fiber EXCEPT ![s].left = @ \ {l},
                                    ![s].found = @ \cup {[role |-> r, logic |-> l]}]
      PROVE  Inv'
  <2> DEFINE f == [fiber[s] EXCEPT !.left = @ \ {l}, !.found = @ \cup {[role |-> r, logic |-> l]}]
  <2>1. r \in Roles /\ r \in Own(fiber[s].user)
    BY <1>2 DEF HasOwn, Own
  <2>2. /\ f \in FiberRecords /\ Sensible(f) /\ f.user = fiber[s].user /\ f.at = "reconnect"
    <3>1. [role |-> r, logic |-> l] \in [role : Roles, logic : Logics]
      BY <2>1
    <3>2. fiber[s].found \cup {[role |-> r, logic |-> l]} \in SUBSET [role : Roles, logic : Logics]
      BY <1>2, <3>1 DEF FiberRecords
    <3> QED
      BY <1>1, <1>2, <3>2 DEF FiberRecords, Sensible
  <2>3. HasOwn(f)
    BY <1>2, <2>1 DEF HasOwn, FiberRecords
  <2>4. fiber' = [fiber EXCEPT ![s] = f]
    BY <1>5
  <2>5. OthersTyped
    <3>1. by \in [Logics -> [Roles -> Agents \cup {None}]]
      BY DEF Inv, TypeOK
    <3>2. by' \in [Logics -> [Roles -> Agents \cup {None}]]
      BY <1>2, <1>5, <2>1, <3>1
    <3> QED
      BY <1>1, <3>2 DEF OthersTyped, Inv, TypeOK
  <2> HIDE DEF f
  <2> QED
    BY <1>1, <1>2, <1>3, <2>2, <2>3, <2>4, <2>5, StaysDecent, SessionMoves DEF Early
<1> QED
  BY <1>4, <1>5 DEF Reconnect

\* A logic server handles a request that a fiber waits for.
LEMMA ServedStep ==
  ASSUME Inv, NEW s \in Sessions, Login(s) \/ Logout(s) \/ Disconnect(s)
  PROVE  Inv'
<1> DEFINE l == fiber[s].logic
           r == fiber[s].role
<1>1. /\ fiber[s].at \in {"login", "logout", "disconnect"}
      /\ UNCHANGED <<sess, conn, users, redis, owner, requests>>
  BY DEF Login, Logout, Disconnect, At, local
<1>2. /\ sess[s].state # "new" /\ fiber[s].at \notin Early /\ AgentOf(s) \in Agents
      /\ fiber[s] \in FiberRecords /\ HasOwn(fiber[s]) /\ l \in Logics /\ r \in Roles
  BY <1>1, Opened DEF Early, Sensible
<1>3. SessionsGoOn /\ OwnersStay
  BY <1>1, NobodyEnds, OwnersUnchanged
<1>4. OthersTyped
  <2> HIDE DEF l, r
  <2>1. by \in [Logics -> [Roles -> Agents \cup {None}]] /\ hyd \in [Logics -> SUBSET Roles]
    BY DEF Inv, TypeOK
  <2>2. hyd' \in [Logics -> SUBSET Roles]
    BY <1>2, <2>1 DEF Login, Logout, Disconnect, l, r
  <2>3. PICK v \in Agents \cup {None} : by' = [by EXCEPT ![l][r] = v]
    BY <1>2 DEF Login, Logout, Disconnect, l, r
  <2>4. by' \in [Logics -> [Roles -> Agents \cup {None}]]
    <3>1. l \in Logics /\ r \in Roles
      BY <1>2
    <3> QED
      BY <2>1, <2>3, <3>1
  <2> QED
    BY <1>1, <2>2, <2>4 DEF OthersTyped, Inv, TypeOK
<1>6. CASE Login(s)
  BY <1>1, <1>3, <1>4, <1>6, Answered DEF Login, At
<1>7. CASE Logout(s)
  BY <1>1, <1>3, <1>4, <1>7, Answered DEF Logout, At
<1>8. CASE Disconnect(s)
  <2>1. Return(s)
    BY <1>8 DEF Disconnect
  <2> QED
    BY <1>1, <1>2, <1>3, <1>4, <2>1, Returns
<1> QED
  BY <1>6, <1>7, <1>8

LEMMA LoginFailsStep ==
  ASSUME Inv, NEW s \in Sessions, LoginFails(s)
  PROVE  Inv'
<1>1. sess[s].state # "new"
  BY Opened DEF LoginFails, At
<1> QED
  BY <1>1, OwnersUnchanged, OthersUnchanged, Throws DEF LoginFails, logic

LEMMA RequestLostStep ==
  ASSUME Inv, NEW s \in Sessions, RequestLost(s)
  PROVE  Inv'
<1>1. UNCHANGED <<users, redis, owner, hyd, by, requests>>
  BY DEF RequestLost, logic
<1>2. OwnersStay /\ OthersTyped
  BY <1>1, OwnersUnchanged, OthersUnchanged
<1>3. ASSUME NEW l \in fiber[s].left, fiber' = [fiber EXCEPT ![s].left = @ \ {l}],
             UNCHANGED <<sess, conn>>
      PROVE  Inv'
  <2> DEFINE f == [fiber[s] EXCEPT !.left = @ \ {l}]
  <2>1. sess[s].state # "new"
    BY <1>3 DEF Inv, SessionsHaveUsers, Idle
  <2>2. fiber[s] \in FiberRecords /\ Sensible(fiber[s]) /\ HasOwn(fiber[s])
    BY <2>1, Opened
  <2>3. f \in FiberRecords /\ Sensible(f) /\ f.user = fiber[s].user /\ f.at = fiber[s].at
    BY <2>2 DEF FiberRecords, Sensible
  <2>4. HasOwn(f)
    BY <2>2 DEF HasOwn, FiberRecords
  <2>5. fiber' = [fiber EXCEPT ![s] = f] /\ SessionsGoOn
    BY <1>3, NobodyEnds
  <2> HIDE DEF f
  <2> QED
    BY <1>2, <1>3, <2>1, <2>3, <2>4, <2>5, StaysDecent, SessionMoves
<1>4. CASE (At(s, "create") \/ At(s, "login")) /\ Throw(s)
  <2>1. sess[s].state # "new"
    BY <1>4, Opened DEF At
  <2> QED
    BY <1>2, <1>4, <2>1, Throws
<1>5. CASE At(s, "logout") /\ Goto(s, "loggedout") /\ UNCHANGED <<sess, conn>>
  <2>1. SessionsGoOn
    BY <1>5, NobodyEnds
  <2> QED
    BY <1>1, <1>2, <1>5, <2>1, Answered DEF At
<1>6. CASE At(s, "disconnect") /\ Return(s) /\ UNCHANGED <<sess, conn>>
  <2>1. sess[s].state # "new" /\ fiber[s].at \notin Early
    BY <1>6, Opened DEF At, Early
  <2> QED
    BY <1>2, <1>6, <2>1, NobodyEnds, Returns
<1> QED
  BY <1>3, <1>4, <1>5, <1>6 DEF RequestLost

LEMMA AnswerLostStep ==
  ASSUME Inv, NEW s \in Sessions, AnswerLost(s)
  PROVE  Inv'
<1>1. UNCHANGED <<users, redis, owner, hyd, requests>>
  BY DEF AnswerLost
<1>2. OwnersStay
  BY <1>1, OwnersUnchanged
<1>3. CASE (At(s, "created") \/ At(s, "loggedin")) /\ Throw(s) /\ UNCHANGED by
  <2>1. sess[s].state # "new"
    BY <1>3, Opened DEF At
  <2> QED
    BY <1>1, <1>2, <1>3, <2>1, OthersUnchanged, Throws
<1>4. ASSUME NEW l \in fiber[s].left, NEW r \in hyd[l] \cap fiber[s].roles,
             fiber' = [fiber EXCEPT ![s].left = @ \ {l}],
             by' = [by EXCEPT ![l][r] = AgentOf(s)], UNCHANGED <<sess, conn>>
      PROVE  Inv'
  <2> DEFINE f == [fiber[s] EXCEPT !.left = @ \ {l}]
  <2>1. sess[s].state # "new"
    BY <1>4 DEF Inv, SessionsHaveUsers, Idle
  <2>2. /\ fiber[s] \in FiberRecords /\ Sensible(fiber[s]) /\ HasOwn(fiber[s])
        /\ AgentOf(s) \in Agents
    BY <2>1, Opened
  <2>3. f \in FiberRecords /\ Sensible(f) /\ f.user = fiber[s].user /\ f.at = fiber[s].at
    BY <2>2 DEF FiberRecords, Sensible
  <2>4. HasOwn(f)
    BY <2>2 DEF HasOwn, FiberRecords
  <2>5. fiber' = [fiber EXCEPT ![s] = f] /\ SessionsGoOn
    BY <1>4, NobodyEnds
  <2>6. OthersTyped
    <3>1. by \in [Logics -> [Roles -> Agents \cup {None}]]
      BY DEF Inv, TypeOK
    <3>2. l \in Logics /\ r \in Roles
      BY <2>2 DEF FiberRecords
    <3>3. by' \in [Logics -> [Roles -> Agents \cup {None}]]
      BY <1>4, <2>2, <3>1, <3>2
    <3> QED
      BY <1>1, <3>3 DEF OthersTyped, Inv, TypeOK
  <2> HIDE DEF f
  <2> QED
    BY <1>2, <1>4, <2>1, <2>3, <2>4, <2>5, <2>6, StaysDecent, SessionMoves
<1> QED
  BY <1>3, <1>4 DEF AnswerLost

LEMMA SaveTimerStep ==
  ASSUME Inv, NEW l \in Logics, NEW r \in Roles, CheckRole(l, r) \/ LogoutIdle(l, r)
  PROVE  Inv'
<1>1. UNCHANGED <<sess, conn, users, fiber, redis, owner, requests>>
  BY DEF CheckRole, LogoutIdle, local
<1>2. hyd' \in [Logics -> SUBSET Roles] /\ by' \in [Logics -> [Roles -> Agents \cup {None}]]
  <2>1. by \in [Logics -> [Roles -> Agents \cup {None}]] /\ hyd \in [Logics -> SUBSET Roles]
    BY DEF Inv, TypeOK
  <2> QED
    BY <2>1 DEF CheckRole, LogoutIdle
<1>3. OthersTyped
  BY <1>1, <1>2 DEF OthersTyped, Inv, TypeOK
<1> QED
  BY <1>1, <1>3, NobodyEnds, NoFiberMoves
-----------------------------------------------------------------------------
LEMMA InitInv == Init => Inv
<1> SUFFICES ASSUME Init PROVE Inv
  OBVIOUS
<1>1. Idle \in FiberRecords /\ Sensible(Idle) /\ HasOwn(Idle) /\ Idle.at = "idle"
  BY DEF Idle, FiberRecords, Sensible, HasOwn
<1>2. \A w \in Fibers : fiber[w] = Idle
  BY DEF Init
<1>3. TypeOK
  <2>1. requests \in 0..MaxRequests
    BY UsersAssumption DEF Init
  <2>2. sess \in [Sessions -> SessionRecords]
    BY DEF Init, Unconnected, SessionRecords
  <2>3. fiber \in [Fibers -> FiberRecords]
    BY <1>1 DEF Init
  <2> QED
    BY <2>1, <2>2, <2>3 DEF Init, TypeOK
<1>4. SessionsHaveUsers
  BY <1>2 DEF Init, SessionsHaveUsers, Unconnected, Fibers
<1>5. FibersAreSensible /\ FibersHaveOwn
  BY <1>1, <1>2 DEF FibersAreSensible, FibersHaveOwn, Fibers
<1>6. EntriesHaveOwn /\ OwnRolesOnly
  BY DEF Init, EntriesHaveOwn, EntryHasOwn, OwnRolesOnly
<1>7. AdmittedIsConnected
  BY DEF Init, AdmittedIsConnected, Admitted, Unconnected
<1> QED
  BY <1>3, <1>4, <1>5, <1>6, <1>7 DEF Inv

LEMMA NextInv == Inv /\ [Next]_vars => Inv'
<1> SUFFICES ASSUME Inv, [Next]_vars PROVE Inv'
  OBVIOUS
<1>1. CASE Clients
  BY <1>1, ConnectStep, RequestStep, SessionEndsStep DEF Clients
<1>2. CASE Timers
  BY <1>2, CheckStep, PingTimeoutStep, SaveTimerStep DEF Timers
<1>3. ASSUME NEW s \in Sessions, Resume(s)
      PROVE  Inv'
  BY <1>3, ListedStep, InstallStep, ReconnectedStep, CreatedStep, LoadedStep, LoggedOutStep,
     LoggedInStep, CloseStep DEF Resume
<1>4. ASSUME NEW s \in Sessions, Answer(s)
      PROVE  Inv'
  BY <1>4, ReconnectStep, NewRoleStep, NoNewRoleStep, ServedStep, LoginFailsStep DEF Answer
<1>5. ASSUME NEW s \in Sessions, Refuse(s) \/ RequestLost(s) \/ AnswerLost(s)
      PROVE  Inv'
  BY <1>5, RefuseStep, RequestLostStep, AnswerLostStep
<1>6. ASSUME NEW w \in Fibers, Publish(w) \/ KickLost(w)
      PROVE  Inv'
  BY <1>6, SetGetStep, KickStep DEF Publish
<1>7. ASSUME NEW u \in Users, Expire(u)
      PROVE  Inv'
  BY <1>7, ExpireStep
<1>8. ASSUME NEW a \in Agents, AgentCrash(a) \/ \E u \in Users : BanSet(a, u)
      PROVE  Inv'
  BY <1>8, AgentCrashStep, BanSetStep
<1>9. CASE UNCHANGED vars
  BY <1>9, NobodyEnds, OthersUnchanged, NoFiberMoves DEF vars, local, logic
<1> QED
  BY <1>1, <1>2, <1>3, <1>4, <1>5, <1>6, <1>7, <1>8, <1>9 DEF Next

\* The inductive invariant holds in every instance.
THEOREM Invariance == Spec => []Inv
BY InitInv, NextInv, PTL DEF Spec

\* Every variable keeps its type, whatever is lost, late or repeated
\* (do_server_hws_callback and what it calls).
THEOREM TypeCorrect == Spec => []TypeOK
BY Invariance, PTL DEF Inv

\* A session that has been let in and not been shut down is the one its agent's
\* `connections` has for the user: so it is the only one there
\* (do_server_hws_callback, lines 415 to 422).
THEOREM OneSessionPerAgent == Spec => []AdmittedIsConnected
BY Invariance, PTL DEF Inv

\* The role selected in an entry of `connections` is one of the user's, though
\* fibers of several sessions, each resuming after a wait, write to it
\* (do_role_login_common, do_welcome_client, do_plus_role_create).
THEOREM RolesAreTheirOwn == Spec => []OwnRolesOnly
BY Invariance, PTL DEF Inv
=============================================================================
