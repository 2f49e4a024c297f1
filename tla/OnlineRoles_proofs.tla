--------------------------- MODULE OnlineRoles_proofs ---------------------------
(***************************************************************************)
(* A logic server keeps the promise of OnlineRoles if one fiber at a time  *)
(* has a role in hand: each of its steps is a step of the promise, or      *)
(* changes nothing that an agent can tell, for any number of roles,        *)
(* objects, agents and fibers.                                             *)
(***************************************************************************)
EXTENDS LogicRoles_proofs

USE LogicAssumption

\* What the promise says of one role, now and next.
IsIn(r) == hyd_roles[r] # None /\ obj[hyd_roles[r]].phase = "in"
IsInNext(r) == hyd_roles'[r] # None /\ obj'[hyd_roles'[r]].phase = "in"
Leaving(w, r) == proc[w].at = "leave" /\ proc[w].role = r
LeavingNext(w, r) == proc'[w].at = "leave" /\ proc'[w].role = r

LEMMA Promised ==
  ASSUME NEW r \in Roles
  PROVE  /\ Phases[r] = IF IsIn(r) THEN "in"
                        ELSE IF Online(r) /\ (\E w \in Logouts : Leaving(w, r)) THEN "asked"
                        ELSE IF Online(r) /\ Leaving(Saver, r) THEN "silent" ELSE "out"
         /\ Connected[r] = IF IsIn(r) THEN obj[hyd_roles[r]].agent ELSE None
         /\ r \in Lapsed <=> IsIn(r) /\ obj[hyd_roles[r]].idle
BY DEF Phases, Connected, Lapsed, LoggedIn, LoggingOut, IsIn, Online, Leaving

LEMMA PromisedNext ==
  ASSUME NEW r \in Roles
  PROVE  /\ Phases'[r] = IF IsInNext(r) THEN "in"
                         ELSE IF hyd_roles'[r] # None /\ (\E w \in Logouts : LeavingNext(w, r)) THEN "asked"
                         ELSE IF hyd_roles'[r] # None /\ LeavingNext(Saver, r) THEN "silent" ELSE "out"
         /\ Connected'[r] = IF IsInNext(r) THEN obj'[hyd_roles'[r]].agent ELSE None
         /\ r \in Lapsed' <=> IsInNext(r) /\ obj'[hyd_roles'[r]].idle
BY DEF Phases, Connected, Lapsed, LoggedIn, LoggingOut, IsInNext, Online, LeavingNext

LEMMA PromisedMaps ==
  /\ Phases = [r \in Roles |-> Phases[r]] /\ Phases' = [r \in Roles |-> Phases'[r]]
  /\ Connected = [r \in Roles |-> Connected[r]] /\ Connected' = [r \in Roles |-> Connected'[r]]
  /\ Lapsed \subseteq Roles /\ Lapsed' \subseteq Roles
BY DEF Phases, Connected, Lapsed

\* Nothing that an agent can tell changes of the role r.
Same(r) == Phases'[r] = Phases[r] /\ Connected'[r] = Connected[r] /\ (r \in Lapsed' <=> r \in Lapsed)

\* The same fibers are logging it out.
SameLeaving(r) == \A w \in Workers : LeavingNext(w, r) <=> Leaving(w, r)

LEMMA Untouched ==
  ASSUME TypeOK, ObjectsFit, NEW r \in Roles, SameLeaving(r), hyd_roles'[r] = hyd_roles[r],
         Online(r) => /\ SameObject(hyd_roles[r])
                      /\ obj[hyd_roles[r]].phase = "in" =>
                           /\ obj'[hyd_roles[r]].agent = obj[hyd_roles[r]].agent
                           /\ obj'[hyd_roles[r]].idle = obj[hyd_roles[r]].idle
  PROVE  Same(r)
<1>1. IsInNext(r) <=> IsIn(r)
  BY DEF IsInNext, IsIn, SameObject, Online
<1>2. (\E w \in Logouts : LeavingNext(w, r)) <=> (\E w \in Logouts : Leaving(w, r))
  BY SaverWorks DEF SameLeaving
<1>3. LeavingNext(Saver, r) <=> Leaving(Saver, r)
  BY SaverWorks DEF SameLeaving
<1>4. Phases'[r] = Phases[r]
  BY <1>1, <1>2, <1>3, Promised, PromisedNext DEF Online
<1>5. IsIn(r) => obj'[hyd_roles'[r]].agent = obj[hyd_roles[r]].agent /\ obj'[hyd_roles'[r]].idle = obj[hyd_roles[r]].idle
  BY DEF IsIn, Online
<1>6. Connected'[r] = Connected[r]
  BY <1>1, <1>5, Promised, PromisedNext
<1>7. r \in Lapsed' <=> r \in Lapsed
  BY <1>1, <1>5, Promised, PromisedNext
<1> QED
  BY <1>4, <1>6, <1>7 DEF Same

LEMMA AllSame ==
  ASSUME \A r \in Roles : Same(r)
  PROVE  UNCHANGED Promise!vars
BY PromisedMaps DEF Same, Promise!vars

\* Which fibers are logging a role out only changes when one begins or is done.
LEMMA NobodyLeaves ==
  ASSUME \A w \in Workers : \/ proc'[w].at = proc[w].at /\ proc'[w].role = proc[w].role
                            \/ proc'[w].at # "leave" /\ proc[w].at # "leave"
  PROVE  \A r \in Roles : SameLeaving(r)
BY DEF SameLeaving, Leaving, LeavingNext

\* An agent takes over an online role, or lets go of it: of one that is being logged
\* out this shows nothing.
LEMMA AttachPromised ==
  ASSUME TypeOK, ObjectsFit, NEW r \in Roles, NEW a \in Agents \cup {None}, Online(r), UNCHANGED hyd_roles,
         \A q \in Roles : SameLeaving(q), \A o \in Objects : SameObject(o),
         \A o \in Objects \ {hyd_roles[r]} : obj'[o] = obj[o],
         obj'[hyd_roles[r]].agent = a, obj'[hyd_roles[r]].idle = FALSE
  PROVE  Promise!Attach(r, a) \/ UNCHANGED Promise!vars
<1>1. \A q \in Roles : Online(q) => hyd_roles[q] \in Objects /\ obj[hyd_roles[q]].role = q
  BY OnMap
<1>2. ASSUME NEW q \in Roles \ {r} PROVE Same(q)
  <2>1. Online(q) => hyd_roles[q] \in Objects \ {hyd_roles[r]}
    BY <1>1
  <2> QED
    BY <2>1, Untouched
<1>3. CASE IsIn(r)
  <2>1. IsInNext(r)
    BY <1>1, <1>3 DEF IsIn, IsInNext, SameObject
  <2>2. Phases[r] = "in" /\ Phases'[r] = "in" /\ Connected'[r] = a /\ r \notin Lapsed'
    BY <1>3, <2>1, Promised, PromisedNext
  <2>3. Phases' = Phases
    BY <1>2, <2>2, PromisedMaps DEF Same
  <2>4. Connected' = [Connected EXCEPT ![r] = a]
    BY <1>2, <2>2, PromisedMaps DEF Same
  <2>5. Lapsed' = Lapsed \ {r}
    BY <1>2, <2>2, PromisedMaps DEF Same
  <2> QED
    BY <2>2, <2>3, <2>4, <2>5 DEF Promise!Attach
<1>4. CASE ~IsIn(r)
  <2>1. obj[hyd_roles[r]].phase # "in" /\ SameObject(hyd_roles[r])
    BY <1>1, <1>4 DEF IsIn, Online
  <2>2. Same(r)
    BY <2>1, Untouched
  <2>3. \A q \in Roles : Same(q)
    BY <1>2, <2>2
  <2> QED
    BY <2>3, AllSame
<1> QED
  BY <1>3, <1>4

\* A role comes online: it was out.
LEMMA LoginPromised ==
  ASSUME TypeOK, ObjectsFit, Owned, NEW w \in Workers, Hydrate(w), NEW o \in Objects, ComesOnline(w, o)
  PROVE  Promise!Login(proc[w].role, proc[w].agent)
<1> DEFINE r == proc[w].role
<1>1. /\ r \in Roles /\ CameOnline(r, o, proc[w].ver) /\ obj'[o].agent = proc[w].agent
      /\ hyd_roles[r] = None
  BY OnlineEffect DEF ComesOnline, Online
<1>2. proc'[w] = Idle /\ proc[w].at = "getex" /\ \A v \in Workers \ {w} : proc'[v] = proc[v]
  BY HydrateEffect, FinishEffect DEF Returned
<1>3. \A q \in Roles : SameLeaving(q)
  BY <1>2, IdleType, NobodyLeaves
<1> HIDE DEF r
<1>4. ASSUME NEW q \in Roles \ {r} PROVE Same(q)
  <2>1. hyd_roles'[q] = hyd_roles[q] /\ (Online(q) => obj'[hyd_roles[q]] = obj[hyd_roles[q]])
    BY <1>1, OnMap DEF CameOnline
  <2>2. Online(q) => SameObject(hyd_roles[q])
    BY <2>1 DEF SameObject
  <2> QED
    BY <1>3, <2>1, <2>2, Untouched
<1>5. ~IsIn(r) /\ ~Online(r) /\ IsInNext(r)
  BY <1>1 DEF CameOnline, IsIn, IsInNext, Online
<1>6. Phases[r] = "out" /\ Phases'[r] = "in" /\ Connected'[r] = proc[w].agent
  BY <1>1, <1>5, Promised, PromisedNext DEF CameOnline
<1>7. r \notin Lapsed /\ r \notin Lapsed'
  BY <1>1, <1>5, Promised, PromisedNext DEF CameOnline
<1>8. Phases' = [Phases EXCEPT ![r] = "in"]
  BY <1>4, <1>6, PromisedMaps DEF Same
<1>9. Connected' = [Connected EXCEPT ![r] = proc[w].agent]
  BY <1>4, <1>6, PromisedMaps DEF Same
<1>10. Lapsed' = Lapsed
  BY <1>4, <1>7, PromisedMaps DEF Same
<1> QED
  BY <1>6, <1>8, <1>9, <1>10 DEF r, Promise!Login

\* A role is logged out, as a client asks for it or because it has been silent.
LEMMA LogoutPromised ==
  ASSUME NoOverlap, TypeOK, ObjectsFit, Owned, NEW w \in Logouts \cup {Saver},
         NEW r \in Roles, NEW o \in Objects, LeaveStep(w, r, o)
  PROVE  Promise!Logout(r, IF w = Saver THEN "silent" ELSE "asked")
<1>0. w \in Workers
  BY SaverWorks
<1>1. /\ hyd_roles[r] = o /\ obj[o].phase = "in" /\ obj[o].role = r
      /\ \A v \in Workers \ {w} : Takes(v) => proc[v].role # r
      /\ proc[w].at # "leave" /\ UNCHANGED hyd_roles
  BY <1>0, HandIsIn DEF LeaveStep
<1>2. /\ obj'[o].phase = "out" /\ \A x \in Objects \ {o} : obj'[x] = obj[x]
      /\ proc'[w].at = "leave" /\ proc'[w].role = r
      /\ \A v \in Workers \ {w} : proc'[v] = proc[v]
  BY <1>0, LeaveEffect
<1>3. w = Saver => obj[o].agent = None /\ obj[o].idle
  BY DEF LeaveStep
<1>4. ASSUME NEW q \in Roles \ {r} PROVE Same(q)
  <2>1. SameLeaving(q)
    BY <1>1, <1>2 DEF SameLeaving, Leaving, LeavingNext
  <2>2. Online(q) => hyd_roles[q] \in Objects \ {o}
    BY <1>1, OnMap
  <2>3. Online(q) => obj'[hyd_roles[q]] = obj[hyd_roles[q]]
    BY <1>2, <2>2
  <2>4. Online(q) => SameObject(hyd_roles[q])
    BY <2>3 DEF SameObject
  <2> QED
    BY <1>1, <2>1, <2>3, <2>4, Untouched
<1>5. hyd_roles[r] # None
  BY <1>1
<1>6. IsIn(r) /\ ~IsInNext(r) /\ hyd_roles'[r] # None
  BY <1>1, <1>2, <1>5 DEF IsIn, IsInNext
<1>7. \A v \in Workers : LeavingNext(v, r) <=> v = w
  BY <1>1, <1>2 DEF LeavingNext, Takes
<1>8. Phases[r] = "in" /\ Phases'[r] = IF w = Saver THEN "silent" ELSE "asked"
  BY <1>0, <1>6, <1>7, Promised, PromisedNext, SaverWorks
<1>9. /\ Connected'[r] = None /\ r \notin Lapsed'
      /\ w = Saver => Connected[r] = None /\ r \in Lapsed
  BY <1>1, <1>3, <1>6, Promised, PromisedNext
<1> DEFINE why == IF w = Saver THEN "silent" ELSE "asked"
<1>10. Phases'[r] = why /\ (why = "silent" => Connected[r] = None /\ r \in Lapsed)
  BY <1>8, <1>9
<1> HIDE DEF why
<1>11. Phases' = [Phases EXCEPT ![r] = why]
  BY <1>4, <1>10, PromisedMaps DEF Same
<1>12. Connected' = [Connected EXCEPT ![r] = None]
  BY <1>4, <1>9, PromisedMaps DEF Same
<1>13. Lapsed' = Lapsed \ {r}
  BY <1>4, <1>9, PromisedMaps DEF Same
<1>14. Promise!Logout(r, why)
  BY <1>8, <1>10, <1>11, <1>12, <1>13 DEF Promise!Logout
<1> QED
  BY <1>14 DEF why

\* The logout is over.
LEMMA ErasePromised ==
  ASSUME TypeOK, ObjectsFit, Owned, NEW w \in Workers, Erase(w)
  PROVE  (\E r \in Roles : Promise!Left(r)) \/ UNCHANGED Promise!vars
<1> DEFINE r == proc[w].role
<1>1. /\ proc[w].at = "leave" /\ hyd_roles' = [hyd_roles EXCEPT ![r] = None] /\ UNCHANGED obj
      /\ proc'[w].at = "flush" /\ \A v \in Workers \ {w} : proc'[v] = proc[v]
  BY FlushEffect DEF Erase, Returned, Busy
<1>2. Takes(w) /\ r \in Roles
  BY <1>1 DEF Takes, ObjectsFit, Busy
<1>3. hyd_roles[r] = proc[w].object /\ obj[proc[w].object].phase = "out"
  BY <1>1, <1>2 DEF Owned, HoldsOnline
<1>4. hyd_roles'[r] = None /\ \A q \in Roles \ {r} : hyd_roles'[q] = hyd_roles[q]
  BY <1>1, <1>2 DEF TypeOK
<1>5. \A q \in Roles \ {r} : SameLeaving(q)
  BY <1>1, IdleType DEF SameLeaving, Leaving, LeavingNext
<1> HIDE DEF r
<1>6. ASSUME NEW q \in Roles \ {r} PROVE Same(q)
  BY <1>1, <1>4, <1>5, Untouched DEF SameObject
<1>7. ~IsIn(r) /\ ~IsInNext(r)
  BY <1>3, <1>4 DEF IsIn, IsInNext
<1>8. /\ Phases[r] \in {"asked", "silent", "out"} /\ Phases'[r] = "out"
      /\ Connected[r] = None /\ Connected'[r] = None /\ r \notin Lapsed /\ r \notin Lapsed'
  BY <1>2, <1>4, <1>7, Promised, PromisedNext
<1>9. Connected' = Connected /\ Lapsed' = Lapsed
  BY <1>6, <1>8, PromisedMaps DEF Same
<1>10. Phases' = [Phases EXCEPT ![r] = "out"]
  BY <1>6, <1>8, PromisedMaps DEF Same
<1>11. CASE Phases[r] = "out"
  <2>1. Phases' = Phases
    BY <1>2, <1>10, <1>11, PromisedMaps
  <2> QED
    BY <1>9, <2>1 DEF Promise!vars
<1>12. CASE Phases[r] \in {"asked", "silent"}
  BY <1>2, <1>9, <1>10, <1>12 DEF Promise!Left
<1> QED
  BY <1>8, <1>11, <1>12

\* Time passes for a role that is disconnected.
LEMMA ElapsePromised ==
  ASSUME TypeOK, ObjectsFit, NEW r \in Roles, Elapse(r)
  PROVE  Promise!Elapse(r) \/ UNCHANGED Promise!vars
<1>1. /\ Online(r) /\ obj[hyd_roles[r]].agent = None /\ UNCHANGED <<hyd_roles, proc>>
      /\ hyd_roles[r] \in Objects
  BY OnMap DEF Elapse
<1>2. /\ \A o \in Objects : SameObject(o) /\ obj'[o].agent = obj[o].agent
      /\ obj'[hyd_roles[r]].idle = TRUE
      /\ \A o \in Objects \ {hyd_roles[r]} : obj'[o] = obj[o]
  BY ElapseEffect
<1>3. \A q \in Roles : SameLeaving(q)
  BY <1>1, NobodyLeaves
<1>4. ASSUME NEW q \in Roles \ {r} PROVE Same(q)
  <2>1. Online(q) => hyd_roles[q] \in Objects \ {hyd_roles[r]}
    BY <1>1, OnMap
  <2> QED
    BY <1>1, <1>2, <1>3, <2>1, Untouched
<1>5. CASE IsIn(r)
  <2>1. IsInNext(r)
    BY <1>1, <1>2, <1>5 DEF IsIn, IsInNext, SameObject
  <2>2. /\ Phases[r] = "in" /\ Phases'[r] = "in" /\ Connected[r] = None /\ Connected'[r] = None
        /\ r \in Lapsed'
    BY <1>1, <1>2, <1>5, <2>1, Promised, PromisedNext
  <2>3. Phases' = Phases /\ Connected' = Connected
    BY <1>4, <2>2, PromisedMaps DEF Same
  <2>4. Lapsed' = Lapsed \cup {r}
    BY <1>4, <2>2, PromisedMaps DEF Same
  <2> QED
    BY <2>2, <2>3, <2>4 DEF Promise!Elapse
<1>6. CASE ~IsIn(r)
  <2>1. obj[hyd_roles[r]].phase # "in" /\ SameObject(hyd_roles[r])
    BY <1>1, <1>2, <1>6 DEF IsIn, Online
  <2>2. Same(r)
    BY <1>1, <1>3, <2>1, Untouched
  <2> QED
    BY <1>4, <2>2, AllSame
<1> QED
  BY <1>5, <1>6

\* Every step, as the promise has it.
LEMMA PromiseStep ==
  NoOverlap /\ Inv /\ [Next]_vars => [Promise!Next]_(Promise!vars)
<1> SUFFICES ASSUME NoOverlap, Inv, [Next]_vars PROVE Promise!Next \/ UNCHANGED Promise!vars
  OBVIOUS
<1>0. TypeOK /\ ObjectsFit /\ Owned
  BY DEF Inv, Owned
<1>1. UNCHANGED proc => \A r \in Roles : SameLeaving(r)
  BY NobodyLeaves
<1>2. UNCHANGED obj => \A o \in Objects : SameObject(o)
  BY DEF SameObject
<1>3. ASSUME UNCHANGED <<hyd_roles, obj>>,
             \A w \in Workers : \/ proc'[w].at = proc[w].at /\ proc'[w].role = proc[w].role
                                \/ proc'[w].at # "leave" /\ proc[w].at # "leave"
      PROVE  UNCHANGED Promise!vars
  <2>1. \A r \in Roles : Online(r) => SameObject(hyd_roles[r])
    BY <1>3 DEF SameObject
  <2>2. \A r \in Roles : SameLeaving(r)
    BY <1>3, NobodyLeaves
  <2>3. \A r \in Roles : Same(r)
    BY <1>0, <1>3, <2>1, <2>2, Untouched
  <2> QED
    BY <2>3, AllSame
<1>4. ASSUME NEW r \in Roles, NEW a \in Agents \cup {None}, AttachStep(r, a)
      PROVE  Promise!Next \/ UNCHANGED Promise!vars
  <2>1. Promise!Attach(r, a) \/ UNCHANGED Promise!vars
    BY <1>0, <1>1, <1>4, AttachEffect, AttachPromised DEF AttachStep
  <2> QED
    BY <2>1 DEF Promise!Next
<1>5. ASSUME NEW rs \in SUBSET Roles, Change(rs) PROVE UNCHANGED Promise!vars
  <2>1. /\ \A o \in Objects : SameObject(o) /\ obj'[o].agent = obj[o].agent /\ obj'[o].idle = obj[o].idle
        /\ UNCHANGED <<hyd_roles, proc>>
    BY <1>0, <1>5, ChangeEffect DEF Change
  <2>2. \A r \in Roles : Online(r) => hyd_roles[r] \in Objects
    BY <1>0, OnMap
  <2>3. \A r \in Roles : Same(r)
    BY <1>0, <1>1, <2>1, <2>2, Untouched
  <2> QED
    BY <2>3, AllSame
<1>6. ASSUME NEW r \in Roles, Elapse(r) PROVE Promise!Next \/ UNCHANGED Promise!vars
  BY <1>0, <1>6, ElapsePromised DEF Promise!Next
<1>7. ASSUME NEW w \in Workers, Hydrate(w) PROVE Promise!Next \/ UNCHANGED Promise!vars
  <2>1. /\ proc[w].role \in Roles /\ proc[w].agent \in Agents
        /\ proc'[w] = Idle /\ proc[w].at = "getex" /\ \A v \in Workers \ {w} : proc'[v] = proc[v]
    BY <1>0, <1>7, HydrateEffect, FinishEffect DEF Returned, ObjectsFit
  <2>2. \A v \in Workers : \/ proc'[v].at = proc[v].at /\ proc'[v].role = proc[v].role
                           \/ proc'[v].at # "leave" /\ proc[v].at # "leave"
    BY <2>1, IdleType
  <2>3. UNCHANGED <<hyd_roles, obj>> => UNCHANGED Promise!vars
    BY <1>3, <2>2
  <2>4. ASSUME Online(proc[w].role), UNCHANGED hyd_roles, \A o \in Objects : SameObject(o),
               \A o \in Objects \ {hyd_roles[proc[w].role]} : obj'[o] = obj[o],
               obj'[hyd_roles[proc[w].role]].agent = proc[w].agent,
               obj'[hyd_roles[proc[w].role]].idle = FALSE
        PROVE  Promise!Attach(proc[w].role, proc[w].agent) \/ UNCHANGED Promise!vars
    BY <1>0, <2>1, <2>2, <2>4, NobodyLeaves, AttachPromised
  <2>5. ASSUME NEW o \in Objects, ComesOnline(w, o) PROVE Promise!Login(proc[w].role, proc[w].agent)
    BY <1>0, <1>7, <2>5, LoginPromised
  <2>6. (\/ Promise!Attach(proc[w].role, proc[w].agent)
         \/ Promise!Login(proc[w].role, proc[w].agent)) => Promise!Next
    BY <2>1 DEF Promise!Next
  <2> QED
    BY <1>0, <1>7, <2>3, <2>4, <2>5, <2>6, HydrateKinds
<1>8. ASSUME NEW w \in Workers, Erase(w) PROVE Promise!Next \/ UNCHANGED Promise!vars
  BY <1>0, <1>8, ErasePromised DEF Promise!Next
<1>9. ASSUME NEW w \in Logouts \cup {Saver}, NEW r \in Roles, NEW o \in Objects, LeaveStep(w, r, o)
      PROVE  Promise!Next
  <2> DEFINE why == IF w = Saver THEN "silent" ELSE "asked"
  <2>1. Promise!Logout(r, why) /\ why \in {"asked", "silent"}
    BY <1>0, <1>9, LogoutPromised
  <2> HIDE DEF why
  <2> QED
    BY <2>1 DEF Promise!Next
<1>10. ASSUME NEW r \in Roles, NEW o \in Objects, NEW now, StoreStep(r, o, now)
       PROVE  Promise!Next \/ UNCHANGED Promise!vars
  <2>1. /\ InHand(Saver, r, o) /\ UNCHANGED hyd_roles /\ Saver \in Workers /\ Online(r)
        /\ proc[Saver].at # "leave"
    BY <1>10, SaverWorks DEF StoreStep, InHand, Busy
  <2>2. hyd_roles[r] = o
    BY <1>0, <2>1, HandIsIn
  <2>3. /\ \A x \in Objects : SameObject(x)
        /\ obj'[o] = obj[o] \/ (obj'[o].agent = None /\ obj'[o].idle = FALSE)
        /\ \A x \in Objects \ {o} : obj'[x] = obj[x]
        /\ proc'[Saver].at = "store" /\ \A v \in Workers \ {Saver} : proc'[v] = proc[v]
    BY <1>0, <1>10, StoreEffect
  <2>4. \A q \in Roles : SameLeaving(q)
    BY <2>1, <2>3, NobodyLeaves
  <2>5. CASE obj'[o] = obj[o]
    <3>1. \A q \in Roles : Online(q) => hyd_roles[q] \in Objects
      BY <1>0, OnMap
    <3>2. \A x \in Objects : obj'[x] = obj[x]
      BY <2>3, <2>5
    <3>3. \A q \in Roles : Same(q)
      BY <1>0, <2>1, <2>3, <2>4, <3>1, <3>2, Untouched
    <3> QED
      BY <3>3, AllSame
  <2>6. CASE obj'[o].agent = None /\ obj'[o].idle = FALSE
    <3>1. Promise!Attach(r, None) \/ UNCHANGED Promise!vars
      BY <1>0, <2>1, <2>2, <2>3, <2>4, <2>6, AttachPromised
    <3> QED
      BY <3>1 DEF Promise!Next
  <2> QED
    BY <2>3, <2>5, <2>6
<1>11. ASSUME NEW r \in Roles, NEW o \in Objects, CheckStep(r, o) PROVE UNCHANGED Promise!vars
  <2>1. /\ proc'[Saver].at = "check" /\ \A v \in Workers \ {Saver} : proc'[v] = proc[v]
        /\ UNCHANGED <<hyd_roles, obj>> /\ proc[Saver].at = "idle"
    BY <1>0, <1>11, CheckEffect DEF CheckStep, Busy
  <2> QED
    BY <1>3, <2>1
<1>12. ASSUME NEW w \in Workers, Finish(w), UNCHANGED <<hyd_roles, obj>>, proc[w].at # "leave"
       PROVE  UNCHANGED Promise!vars
  <2>1. proc'[w] = Idle /\ \A v \in Workers \ {w} : proc'[v] = proc[v]
    BY <1>0, <1>12, FinishEffect
  <2> QED
    BY <1>3, <1>12, <2>1, IdleType
<1>13. ASSUME Stored PROVE UNCHANGED Promise!vars
  BY <1>0, <1>12, <1>13, PutsBackItself
<1>14. ASSUME PassStep PROVE UNCHANGED Promise!vars
  BY <1>12, <1>14, SaverWorks DEF PassStep
<1>15. ASSUME NEW w \in Workers, NEW r \in Roles, NEW a \in Agents, LoginLoad(w, r, a)
       PROVE  UNCHANGED Promise!vars
  <2>1. /\ proc'[w].at = "getex" /\ \A v \in Workers \ {w} : proc'[v] = proc[v]
        /\ UNCHANGED <<hyd_roles, obj>> /\ proc[w].at = "idle"
    BY <1>0, <1>15, LoginEffect DEF LoginLoad, Busy
  <2> QED
    BY <1>3, <2>1
<1>16. ASSUME NEW w \in Workers, Receives(w) PROVE UNCHANGED Promise!vars
  <2>1. UNCHANGED <<hyd_roles, obj>> /\ \A v \in Workers : SameTask(v)
    BY <1>0, <1>16, ResultEffect
  <2> QED
    BY <1>3, <2>1 DEF SameTask
<1>17. ASSUME NEW w \in Workers, Flushed(w) PROVE UNCHANGED Promise!vars
  BY <1>12, <1>17 DEF Flushed
<1>18. QuietStep => UNCHANGED Promise!vars
  BY <1>3 DEF QuietStep
<1> QED
  BY <1>0, <1>4, <1>5, <1>6, <1>7, <1>8, <1>9, <1>10, <1>11, <1>13, <1>14, <1>15, <1>16, <1>17, <1>18,
     StepKinds, SaverWorks DEF Receives

LEMMA PromiseInit == Init => Promise!Init
BY DEF Init, Promise!Init, Phases, Connected, Lapsed, LoggedIn, LoggingOut, Online

\* Without overlap, a logic server does what agents are promised: a role comes online
\* only when its last logout is over, and leaves when that is asked for or when it has
\* been disconnected for long enough without a break.
THEOREM OnlineRolesKept == NoOverlap => (Spec => ImplementsOnlineRoles)
<1> SUFFICES ASSUME NoOverlap PROVE Spec => ImplementsOnlineRoles
  OBVIOUS
<1>1. Inv /\ [Next]_vars => [Promise!Next]_(Promise!vars)
  BY PromiseStep
<1>2. Spec => []Inv
  BY InvAlways
<1> QED
  BY <1>1, <1>2, PromiseInit, PTL DEF Spec, ImplementsOnlineRoles, Promise!Spec
=============================================================================
