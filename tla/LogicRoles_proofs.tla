--------------------------- MODULE LogicRoles_proofs ---------------------------
(***************************************************************************)
(* Proofs about the roles that are online on a logic server, for any       *)
(* number of roles, objects, agents and fibers.  If one fiber at a time    *)
(* has a role in hand, a role that has logged in stays the one that is     *)
(* found until it is logged out, and a login gets what the last logout     *)
(* wrote.                                                                  *)
(***************************************************************************)
EXTENDS LogicRoles, TLAPS

USE LogicAssumption

\* Without this InIsOnline fails, and ComesOnlineOnce with it.
NoOverlap == "overlap" \notin Acts

-----------------------------------------------------------------------------
\* What the records become.

LEMMA ConnectType ==
  ASSUME NEW x \in RoleObjects, NEW a \in Agents \cup {None}
  PROVE  /\ Connect(x, a) \in RoleObjects
         /\ Connect(x, a).role = x.role /\ Connect(x, a).phase = x.phase
         /\ Connect(x, a).ver = x.ver /\ Connect(x, a).agent = a /\ Connect(x, a).idle = FALSE
BY DEF Connect, RoleObjects

LEMMA IdleType ==
  /\ Idle \in Calls /\ Idle.at = "idle" /\ Idle.role = None /\ Idle.object = None
  /\ Idle.ver = None /\ Idle.executed = FALSE
BY DEF Idle, Calls

\* A fiber that logs in, one that writes, one that asks an agent, and one that has
\* a role flushed.
LoadCall(r, a) == [Idle EXCEPT !.at = "getex", !.role = r, !.agent = a]
TakeCall(at, r, o, v) == [Idle EXCEPT !.at = at, !.role = r, !.object = o, !.ver = v]
CheckCall(r, o, a) == [Idle EXCEPT !.at = "check", !.role = r, !.object = o, !.agent = a]
FlushCall(r) == [Idle EXCEPT !.at = "flush", !.role = r]

Begins(y, at, r, o, v) ==
  /\ y \in Calls /\ y.at = at /\ y.role = r /\ y.object = o /\ y.ver = v /\ y.executed = FALSE

LEMMA CallTypes ==
  ASSUME NEW r \in Roles
  PROVE  /\ \A a \in Agents : Begins(LoadCall(r, a), "getex", r, None, None) /\ LoadCall(r, a).agent = a
         /\ \A at \in {"leave", "store"}, o \in Objects, v \in Versions :
              Begins(TakeCall(at, r, o, v), at, r, o, v)
         /\ \A o \in Objects, a \in Agents : Begins(CheckCall(r, o, a), "check", r, o, None)
         /\ Begins(FlushCall(r), "flush", r, None, None)
<1>1. ASSUME NEW a \in Agents
      PROVE  Begins(LoadCall(r, a), "getex", r, None, None) /\ LoadCall(r, a).agent = a
  BY DEF Begins, LoadCall, Idle, Calls
<1>2. ASSUME NEW at \in {"leave", "store"}, NEW o \in Objects, NEW v \in Versions
      PROVE  Begins(TakeCall(at, r, o, v), at, r, o, v)
  BY DEF Begins, TakeCall, Idle, Calls
<1>3. ASSUME NEW o \in Objects, NEW a \in Agents
      PROVE  Begins(CheckCall(r, o, a), "check", r, o, None)
  BY DEF Begins, CheckCall, Idle, Calls
<1>4. Begins(FlushCall(r), "flush", r, None, None)
  BY DEF Begins, FlushCall, Idle, Calls
<1> QED
  BY <1>1, <1>2, <1>3, <1>4

\* A fiber that has its result: what it has read, or an answer, or nothing.
ReadResult(x, v) == [x EXCEPT !.executed = TRUE, !.ver = v]
AnswerResult(x, ok) == [x EXCEPT !.executed = TRUE, !.ok = ok]
DoneResult(x) == [x EXCEPT !.executed = TRUE]
Continues(x, y) ==
  /\ y \in Calls /\ y.at = x.at /\ y.role = x.role /\ y.object = x.object /\ y.agent = x.agent
  /\ y.executed = TRUE

LEMMA ResultTypes ==
  ASSUME NEW x \in Calls
  PROVE  /\ \A v \in Versions \cup {None} : Continues(x, ReadResult(x, v)) /\ ReadResult(x, v).ver = v
         /\ \A ok \in BOOLEAN : Continues(x, AnswerResult(x, ok)) /\ AnswerResult(x, ok).ver = x.ver
         /\ Continues(x, DoneResult(x)) /\ DoneResult(x).ver = x.ver
BY DEF Continues, ReadResult, AnswerResult, DoneResult, Calls

LEMMA NewObjectType ==
  ASSUME NEW r \in Roles, NEW a \in Agents \cup {None}, NEW v \in Versions
  PROVE  [role |-> r, phase |-> "in", agent |-> a, idle |-> FALSE, ver |-> v] \in RoleObjects
BY DEF RoleObjects

LEMMA OutType ==
  ASSUME NEW x \in RoleObjects
  PROVE  LET y == [x EXCEPT !.agent = None, !.phase = "out"]
         IN  /\ y \in RoleObjects /\ y.role = x.role /\ y.phase = "out" /\ y.ver = x.ver
             /\ y.agent = None /\ y.idle = x.idle
BY DEF RoleObjects

-----------------------------------------------------------------------------
\* The kinds of steps.

\* w has role r in hand, as object o: it looks it up now, or already has it.
InHand(w, r, o) ==
  /\ Online(r)
  /\ \/ ~Busy(w) /\ o = hyd_roles[r] /\ MayTake(r)
     \/ proc[w].at = "check" /\ r = proc[w].role /\ o = proc[w].object

\* Nobody has to wait for anybody else than before, or for anybody less but w.
NoneAhead(w) ==
  /\ ahead' \in [Workers -> SUBSET Workers]
  /\ \A v \in Workers : ahead'[v] \subseteq ahead[v] /\ ahead[v] \ {w} \subseteq ahead'[v]

AttachStep(r, a) ==
  /\ Online(r)
  /\ obj' = [obj EXCEPT ![hyd_roles[r]] = Connect(@, a)]
  /\ UNCHANGED <<redis, hyd_roles, proc, ahead, changes, left>>

LeaveStep(w, r, o) ==
  /\ InHand(w, r, o)
  /\ Leave(w, r, o)
  /\ w = Saver => obj[o].agent = None /\ obj[o].idle
  /\ NoneAhead(w)
  /\ UNCHANGED <<redis, hyd_roles, changes, left>>

StoreStep(r, o, now) ==
  /\ InHand(Saver, r, o)
  /\ now = obj[o] \/ now = Connect(obj[o], None)
  /\ obj' = [obj EXCEPT ![o] = now]
  /\ proc' = [proc EXCEPT ![Saver] = [Idle EXCEPT !.at = "store", !.role = r, !.object = o,
                                                  !.ver = now.ver]]
  /\ NoneAhead(Saver)
  /\ UNCHANGED <<redis, hyd_roles, changes, left>>

CheckStep(r, o) ==
  /\ InHand(Saver, r, o)
  /\ ~Busy(Saver)
  /\ obj[o].agent # None
  /\ proc' = [proc EXCEPT ![Saver] = [Idle EXCEPT !.at = "check", !.role = r, !.object = o,
                                                  !.agent = obj[o].agent]]
  /\ UNCHANGED <<redis, hyd_roles, obj, ahead, changes, left>>

PassStep ==
  /\ proc[Saver].at = "check" /\ ~Online(proc[Saver].role)
  /\ Finish(Saver)
  /\ UNCHANGED <<redis, hyd_roles, obj, changes, left>>

QuietStep == UNCHANGED <<redis, hyd_roles, obj, proc, ahead, changes, left>>

LEMMA GoEffect == TypeOK /\ Go(Saver) => NoneAhead(Saver)
BY DEF Go, NoneAhead, TypeOK

LEMMA StepKinds ==
  ASSUME TypeOK, ObjectsFit, [Next]_vars
  PROVE  \/ \E r \in Roles, a \in Agents \cup {None} : AttachStep(r, a)
         \/ \E rs \in SUBSET Roles : Change(rs)
         \/ \E r \in Roles : Elapse(r)
         \/ \E w \in Workers : Hydrate(w) \/ Erase(w) \/ Flushed(w) \/ GetEx(w) \/ Set(w) \/ QueryFails(w)
         \/ \E w \in Logouts \cup {Saver}, r \in Roles, o \in Objects : LeaveStep(w, r, o)
         \/ \E r \in Roles, o \in Objects : \E now : StoreStep(r, o, now)
         \/ \E r \in Roles, o \in Objects : CheckStep(r, o)
         \/ Stored \/ PassStep
         \/ \E w \in Logins, r \in Roles, a \in Agents : LoginLoad(w, r, a)
         \/ \E ok \in BOOLEAN : CheckRole(ok)
         \/ QuietStep
<1> DEFINE Goal ==
         \/ \E r \in Roles, a \in Agents \cup {None} : AttachStep(r, a)
         \/ \E rs \in SUBSET Roles : Change(rs)
         \/ \E r \in Roles : Elapse(r)
         \/ \E w \in Workers : Hydrate(w) \/ Erase(w) \/ Flushed(w) \/ GetEx(w) \/ Set(w) \/ QueryFails(w)
         \/ \E w \in Logouts \cup {Saver}, r \in Roles, o \in Objects : LeaveStep(w, r, o)
         \/ \E r \in Roles, o \in Objects : \E now : StoreStep(r, o, now)
         \/ \E r \in Roles, o \in Objects : CheckStep(r, o)
         \/ Stored \/ PassStep
         \/ \E w \in Logins, r \in Roles, a \in Agents : LoginLoad(w, r, a)
         \/ \E ok \in BOOLEAN : CheckRole(ok)
         \/ QuietStep
<1>1. ASSUME NEW r \in Roles, NEW a \in Agents, LoginOnline(r, a) \/ Reconnect(r, a) PROVE Goal
  <2>1. AttachStep(r, a)
    BY <1>1 DEF LoginOnline, Reconnect, AttachStep, history
  <2> QED
    BY <2>1
<1>2. ASSUME NEW r \in Roles, Disconnect(r) PROVE Goal
  <2>1. AttachStep(r, None)
    BY <1>2 DEF Disconnect, AttachStep, history
  <2> QED
    BY <2>1
<1>3. ASSUME NEW r \in Roles, OnClientRequest(r) \/ EverySecond PROVE Goal
  BY <1>3 DEF OnClientRequest, EverySecond
<1>4. ASSUME NEW w \in Logouts, NEW r \in Roles, Logout(w, r) PROVE Goal
  <2>1. hyd_roles[r] \in Objects
    BY <1>4 DEF Logout, Online, TypeOK
  <2>2. LeaveStep(w, r, hyd_roles[r])
    BY <1>4, <2>1 DEF Logout, LeaveStep, InHand, NoneAhead, TypeOK, history
  <2> QED
    BY <2>1, <2>2
<1>5. ASSUME NEW r \in Roles, NEW o \in Objects, NEW now, StoreOrLeave(r, o, now), InHand(Saver, r, o),
             now = obj[o] \/ now = Connect(obj[o], None), NoneAhead(Saver), UNCHANGED <<redis, hyd_roles, changes, left>>
      PROVE  Goal
  <2>1. CASE now.agent = None /\ now.idle
    <3>1. Connect(obj[o], None).idle = FALSE
      <4>1. obj[o] \in RoleObjects
        BY DEF TypeOK
      <4> QED
        BY <4>1, ConnectType
    <3>2. now = obj[o]
      BY <1>5, <2>1, <3>1
    <3>3. LeaveStep(Saver, r, o)
      BY <1>5, <2>1, <3>2 DEF StoreOrLeave, LeaveStep
    <3> QED
      BY <3>3
  <2>2. CASE ~(now.agent = None /\ now.idle)
    <3>1. StoreStep(r, o, now)
      BY <1>5, <2>2 DEF StoreOrLeave, StoreStep
    <3> QED
      BY <3>1
  <2> QED
    BY <2>1, <2>2
<1>6. ASSUME NEW r \in Roles, Visit(r) PROVE Goal
  <2> DEFINE o == hyd_roles[r]
  <2>1. CASE ~Online(r)
    BY <1>6, <2>1 DEF Visit, QuietStep, history
  <2>2. CASE Online(r)
    <3>1. o \in Objects /\ InHand(Saver, r, o)
      BY <1>6, <2>2 DEF Visit, Online, InHand, TypeOK
    <3>2. CASE obj[o].agent # None
      <4>1. CheckStep(r, o)
        BY <1>6, <2>2, <3>1, <3>2 DEF Visit, CheckStep, history
      <4> QED
        BY <3>1, <4>1
    <3>3. CASE obj[o].agent = None
      <4>1. StoreOrLeave(r, o, obj[o]) /\ UNCHANGED <<redis, hyd_roles, changes, left>> /\ NoneAhead(Saver)
        BY <1>6, <2>2, <3>3 DEF Visit, NoneAhead, TypeOK, history
      <4> QED
        BY <1>5, <3>1, <4>1
    <3> QED
      BY <3>2, <3>3
  <2> QED
    BY <2>1, <2>2
<1>7. ASSUME Checked PROVE Goal
  <2> DEFINE r == proc[Saver].role
             o == proc[Saver].object
  <2>1. proc[Saver].at = "check" /\ Saver \in Workers /\ NoneAhead(Saver)
    BY <1>7, GoEffect DEF Checked, Returned, Workers
  <2>2. CASE ~Online(r)
    <3>1. PassStep
      BY <1>7, <2>1, <2>2 DEF Checked, PassStep, Finish, history
    <3> QED
      BY <3>1
  <2>3. CASE Online(r)
    <3>1. r \in Roles /\ o \in Objects
      BY <2>1 DEF ObjectsFit, Busy, Takes, TypeOK, Calls
    <3>2. InHand(Saver, r, o)
      BY <2>1, <2>3 DEF InHand
    <3>3. /\ StoreOrLeave(r, o, IF proc[Saver].ok THEN obj[o] ELSE Connect(obj[o], None))
          /\ UNCHANGED <<redis, hyd_roles, changes, left>>
      BY <1>7, <2>3 DEF Checked, history
    <3> HIDE DEF r, o
    <3> QED
      BY <1>5, <2>1, <3>1, <3>2, <3>3
  <2> QED
    BY <2>2, <2>3
<1>8. ASSUME NEW r \in Roles, Load(r) \/ Unload(r) PROVE QuietStep
  BY <1>8 DEF Load, Unload, QuietStep, history
<1>9. ASSUME NEW a \in Agents, AgentDown(a) PROVE QuietStep
  BY <1>9 DEF AgentDown, QuietStep, history
<1>10. Arrange \/ UNCHANGED vars => QuietStep
  BY DEF Arrange, QuietStep, history, vars
<1> HIDE DEF Goal
<1>11. Goal
  <2>1. CASE Handlers
    <3>1. (\E r \in Roles, w \in Logins, a \in Agents : LoginLoad(w, r, a)) => Goal
      BY DEF Goal
    <3> QED
      BY <1>1, <1>2, <1>3, <1>4, <2>1, <3>1 DEF Handlers
  <2>2. CASE Timer
    <3>1. Stored \/ QuietStep => Goal
      BY DEF Goal
    <3>2. EverySecond => Goal
      BY DEF Goal, EverySecond
    <3> QED
      BY <1>6, <1>7, <1>10, <2>2, <3>1, <3>2 DEF Timer
  <2>3. ASSUME NEW w \in Workers, Resume(w) \/ Answer(w) PROVE Goal
    BY <2>3 DEF Resume, Answer, Goal
  <2>4. CASE World
    <3>1. (\E r \in Roles : Elapse(r)) \/ (\E ok \in BOOLEAN : CheckRole(ok)) \/ QuietStep => Goal
      BY DEF Goal
    <3>2. (\E w \in Workers : QueryFails(w)) => Goal
      BY DEF Goal
    <3> QED
      BY <1>8, <1>9, <2>4, <3>1, <3>2 DEF World
  <2> QED
    BY <1>10, <2>1, <2>2, <2>3, <2>4 DEF Next, Goal
<1> QED
  BY <1>11 DEF Goal

-----------------------------------------------------------------------------
\* What each kind of step does.

\* The object o is still of the role it was, in the phase it was.
SameObject(o) == obj'[o].role = obj[o].role /\ obj'[o].phase = obj[o].phase
\* The fiber w still has in hand what it had, and waits for the same.
SameTask(w) ==
  /\ proc'[w].at = proc[w].at /\ proc'[w].role = proc[w].role /\ proc'[w].object = proc[w].object
  /\ proc'[w].agent = proc[w].agent

LEMMA SaverWorks == Saver \in Workers /\ Logouts \subseteq Workers /\ Logins \subseteq Workers
BY DEF Workers

LEMMA OnMap ==
  ASSUME TypeOK, ObjectsFit, NEW r \in Roles, Online(r)
  PROVE  /\ hyd_roles[r] \in Objects /\ obj[hyd_roles[r]] \in RoleObjects
         /\ obj[hyd_roles[r]].role = r /\ obj[hyd_roles[r]].phase \in {"in", "out"}
<1>1. hyd_roles[r] \in Objects
  BY DEF TypeOK, Online
<1>2. obj[hyd_roles[r]] \in RoleObjects
  BY <1>1 DEF TypeOK
<1> QED
  BY <1>1, <1>2 DEF ObjectsFit, RoleObjects

LEMMA InHandFits ==
  ASSUME TypeOK, ObjectsFit, NEW w \in Workers, NEW r \in Roles, NEW o \in Objects, InHand(w, r, o)
  PROVE  obj[o] \in RoleObjects /\ obj[o].role = r /\ obj[o].phase # "none"
<1>1. obj[o] \in RoleObjects
  BY DEF TypeOK
<1> QED
  BY <1>1 DEF InHand, ObjectsFit, Takes

LEMMA AttachEffect ==
  ASSUME TypeOK, ObjectsFit, NEW r \in Roles, NEW a \in Agents \cup {None}, AttachStep(r, a)
  PROVE  /\ obj' \in [Objects -> RoleObjects]
         /\ \A o \in Objects : SameObject(o) /\ obj'[o].ver = obj[o].ver
         /\ obj'[hyd_roles[r]].agent = a /\ obj'[hyd_roles[r]].idle = FALSE
         /\ \A o \in Objects \ {hyd_roles[r]} : obj'[o] = obj[o]
<1>1. hyd_roles[r] \in Objects /\ obj[hyd_roles[r]] \in RoleObjects
  BY OnMap DEF AttachStep
<1> DEFINE y == Connect(obj[hyd_roles[r]], a)
<1>2. /\ y \in RoleObjects /\ y.role = obj[hyd_roles[r]].role /\ y.phase = obj[hyd_roles[r]].phase
      /\ y.ver = obj[hyd_roles[r]].ver /\ y.agent = a /\ y.idle = FALSE
  BY <1>1, ConnectType
<1>3. obj' = [obj EXCEPT ![hyd_roles[r]] = y]
  BY DEF AttachStep
<1> HIDE DEF y
<1> QED
  BY <1>1, <1>2, <1>3 DEF SameObject, TypeOK

LEMMA ChangeEffect ==
  ASSUME TypeOK, ObjectsFit, NEW rs \in SUBSET Roles, Change(rs)
  PROVE  /\ obj' \in [Objects -> RoleObjects] /\ changes' \in [Roles -> Versions]
         /\ \A o \in Objects : SameObject(o) /\ obj'[o].agent = obj[o].agent /\ obj'[o].idle = obj[o].idle
         /\ \A r \in Roles : changes'[r] = IF r \in rs THEN changes[r] + 1 ELSE changes[r]
         /\ \A r \in Roles : Online(r) =>
              obj'[hyd_roles[r]].ver = IF r \in rs THEN changes'[r] ELSE obj[hyd_roles[r]].ver
<1>1. changes' = [r \in Roles |-> IF r \in rs THEN changes[r] + 1 ELSE changes[r]]
  BY DEF Change
<1>2. changes' \in [Roles -> Versions]
  BY <1>1 DEF Change, TypeOK, Versions
<1>3. ASSUME NEW o \in Objects
      PROVE  /\ obj'[o] \in RoleObjects /\ SameObject(o)
             /\ obj'[o].agent = obj[o].agent /\ obj'[o].idle = obj[o].idle
             /\ obj'[o].ver = IF \E r \in rs : hyd_roles[r] = o THEN changes'[obj[o].role] ELSE obj[o].ver
  <2>1. obj[o] \in RoleObjects
    BY DEF TypeOK
  <2>2. obj'[o] = IF \E r \in rs : hyd_roles[r] = o
                    THEN [obj[o] EXCEPT !.ver = changes'[obj[o].role]] ELSE obj[o]
    BY DEF Change
  <2>3. CASE \E r \in rs : hyd_roles[r] = o
    <3>1. obj[o].role \in Roles
      BY <2>3, OnMap DEF Change
    <3>2. changes'[obj[o].role] \in Versions
      BY <1>2, <3>1
    <3>3. \A x \in RoleObjects, v \in Versions :
            LET y == [x EXCEPT !.ver = v]
            IN  /\ y \in RoleObjects /\ y.role = x.role /\ y.phase = x.phase /\ y.agent = x.agent
                /\ y.idle = x.idle /\ y.ver = v
      BY DEF RoleObjects
    <3>4. obj'[o] = [obj[o] EXCEPT !.ver = changes'[obj[o].role]]
      BY <2>2, <2>3
    <3>5. LET y == [obj[o] EXCEPT !.ver = changes'[obj[o].role]]
          IN  /\ y \in RoleObjects /\ y.role = obj[o].role /\ y.phase = obj[o].phase
              /\ y.agent = obj[o].agent /\ y.idle = obj[o].idle /\ y.ver = changes'[obj[o].role]
      BY <2>1, <3>2, <3>3
    <3> QED
      BY <2>3, <3>4, <3>5 DEF SameObject
  <2>4. CASE ~\E r \in rs : hyd_roles[r] = o
    BY <2>1, <2>2, <2>4 DEF SameObject
  <2> QED
    BY <2>3, <2>4
<1>4. obj' \in [Objects -> RoleObjects]
  BY <1>3 DEF Change
<1>5. ASSUME NEW r \in Roles, Online(r)
      PROVE  obj'[hyd_roles[r]].ver = IF r \in rs THEN changes'[r] ELSE obj[hyd_roles[r]].ver
  <2>1. hyd_roles[r] \in Objects /\ obj[hyd_roles[r]].role = r
    BY <1>5, OnMap
  <2>2. \A q \in rs : hyd_roles[q] = hyd_roles[r] => q = r
    BY <2>1, OnMap DEF Change
  <2> QED
    BY <1>3, <2>1, <2>2
<1> QED
  BY <1>1, <1>2, <1>3, <1>4, <1>5

LEMMA ElapseEffect ==
  ASSUME TypeOK, ObjectsFit, NEW r \in Roles, Elapse(r)
  PROVE  /\ obj' \in [Objects -> RoleObjects]
         /\ \A o \in Objects : SameObject(o) /\ obj'[o].ver = obj[o].ver /\ obj'[o].agent = obj[o].agent
         /\ obj'[hyd_roles[r]].idle = TRUE
         /\ \A o \in Objects \ {hyd_roles[r]} : obj'[o] = obj[o]
<1>1. hyd_roles[r] \in Objects /\ obj[hyd_roles[r]] \in RoleObjects
  BY OnMap DEF Elapse
<1> DEFINE y == [obj[hyd_roles[r]] EXCEPT !.idle = TRUE]
<1>2. /\ y \in RoleObjects /\ y.role = obj[hyd_roles[r]].role /\ y.phase = obj[hyd_roles[r]].phase
      /\ y.ver = obj[hyd_roles[r]].ver /\ y.agent = obj[hyd_roles[r]].agent /\ y.idle = TRUE
  BY <1>1 DEF RoleObjects
<1>3. obj' = [obj EXCEPT ![hyd_roles[r]] = y]
  BY DEF Elapse
<1> HIDE DEF y
<1> QED
  BY <1>1, <1>2, <1>3 DEF SameObject, TypeOK

LEMMA FinishEffect ==
  ASSUME TypeOK, NEW w \in Workers, Finish(w)
  PROVE  /\ proc' \in [Workers -> Calls] /\ proc'[w] = Idle
         /\ \A v \in Workers \ {w} : proc'[v] = proc[v]
         /\ ahead' \in [Workers -> SUBSET Workers]
         /\ \A v \in Workers : ahead'[v] = ahead[v] \ {w}
BY IdleType DEF Finish, Go, TypeOK

LEMMA FlushEffect ==
  ASSUME TypeOK, ObjectsFit, NEW w \in Workers, Busy(w), AskToFlush(w)
  PROVE  /\ proc' \in [Workers -> Calls]
         /\ proc'[w].at = "flush" /\ proc'[w].role \in Roles /\ proc'[w].object = None
         /\ proc'[w].ver = None
         /\ \A v \in Workers \ {w} : proc'[v] = proc[v]
         /\ ahead' \in [Workers -> SUBSET Workers]
         /\ \A v \in Workers : ahead'[v] = ahead[v] \ {w}
<1> DEFINE p == FlushCall(proc[w].role)
<1>1. proc[w].role \in Roles
  BY DEF ObjectsFit
<1>2. Begins(p, "flush", proc[w].role, None, None)
  BY <1>1, CallTypes
<1>3. proc' = [proc EXCEPT ![w] = p] /\ Go(w)
  BY DEF AskToFlush, FlushCall
<1> HIDE DEF p
<1> QED
  BY <1>1, <1>2, <1>3 DEF Begins, Go, TypeOK

\* A login that has the record: there is none; or the role is online; or it comes online.
LEMMA HydrateEffect ==
  ASSUME TypeOK, ObjectsFit, NEW w \in Workers, Hydrate(w)
  PROVE  /\ Returned(w, "getex") /\ Finish(w) /\ proc[w].role \in Roles /\ UNCHANGED <<redis, changes, left>>
         /\ \/ UNCHANGED <<hyd_roles, obj>>
            \/ /\ Online(proc[w].role) /\ UNCHANGED hyd_roles
               /\ obj' = [obj EXCEPT ![hyd_roles[proc[w].role]] = Connect(@, proc[w].agent)]
            \/ /\ ~Online(proc[w].role) /\ proc[w].ver \in Versions /\ proc[w].agent \in Agents
               /\ \E o \in Objects :
                    /\ Free(o)
                    /\ hyd_roles' = [hyd_roles EXCEPT ![proc[w].role] = o]
                    /\ obj' = [obj EXCEPT ![o] = [role |-> proc[w].role, phase |-> "in",
                                                  agent |-> proc[w].agent, idle |-> FALSE,
                                                  ver |-> proc[w].ver]]
<1>1. Returned(w, "getex") /\ Finish(w) /\ UNCHANGED <<redis, changes, left>>
  BY DEF Hydrate, history
<1>2. proc[w].role \in Roles /\ proc[w].agent \in Agents
  BY <1>1 DEF Returned, ObjectsFit, Busy
<1>3. proc[w].ver # None => proc[w].ver \in Versions
  <2>1. proc[w] \in Calls
    BY DEF TypeOK
  <2> QED
    BY <2>1 DEF Calls
<1> QED
  BY <1>1, <1>2, <1>3 DEF Hydrate

LEMMA LeaveEffect ==
  ASSUME TypeOK, ObjectsFit, NEW w \in Workers, NEW r \in Roles, NEW o \in Objects, LeaveStep(w, r, o)
  PROVE  /\ obj' \in [Objects -> RoleObjects]
         /\ obj'[o].role = r /\ obj'[o].phase = "out" /\ obj'[o].ver = obj[o].ver
         /\ \A x \in Objects \ {o} : obj'[x] = obj[x]
         /\ proc' \in [Workers -> Calls]
         /\ proc'[w].at = "leave" /\ proc'[w].role = r /\ proc'[w].object = o
         /\ proc'[w].ver = obj[o].ver /\ ~proc'[w].executed
         /\ \A v \in Workers \ {w} : proc'[v] = proc[v]
<1>1. obj[o] \in RoleObjects /\ obj[o].role = r /\ obj[o].ver \in Versions
  BY InHandFits DEF LeaveStep, RoleObjects
<1> DEFINE y == [obj[o] EXCEPT !.agent = None, !.phase = "out"]
           p == TakeCall("leave", r, o, obj[o].ver)
<1>2. y \in RoleObjects /\ y.role = r /\ y.phase = "out" /\ y.ver = obj[o].ver
  BY <1>1, OutType
<1>3. Begins(p, "leave", r, o, obj[o].ver)
  BY <1>1, CallTypes
<1>4. obj' = [obj EXCEPT ![o] = y] /\ proc' = [proc EXCEPT ![w] = p]
  BY DEF LeaveStep, Leave, TakeCall
<1> HIDE DEF y, p
<1> QED
  BY <1>1, <1>2, <1>3, <1>4 DEF Begins, TypeOK

LEMMA StoreEffect ==
  ASSUME TypeOK, ObjectsFit, NEW r \in Roles, NEW o \in Objects, NEW now, StoreStep(r, o, now)
  PROVE  /\ obj' \in [Objects -> RoleObjects]
         /\ \A x \in Objects : SameObject(x) /\ obj'[x].ver = obj[x].ver
         /\ obj'[o] = obj[o] \/ (obj'[o].agent = None /\ obj'[o].idle = FALSE)
         /\ \A x \in Objects \ {o} : obj'[x] = obj[x]
         /\ proc' \in [Workers -> Calls]
         /\ proc'[Saver].at = "store" /\ proc'[Saver].role = r /\ proc'[Saver].object = o
         /\ proc'[Saver].ver = obj[o].ver /\ ~proc'[Saver].executed
         /\ \A v \in Workers \ {Saver} : proc'[v] = proc[v]
<1>1. obj[o] \in RoleObjects /\ obj[o].ver \in Versions
  BY InHandFits, SaverWorks DEF StoreStep, RoleObjects
<1>2. /\ now \in RoleObjects /\ now.role = obj[o].role /\ now.phase = obj[o].phase /\ now.ver = obj[o].ver
      /\ now = obj[o] \/ (now.agent = None /\ now.idle = FALSE)
  <2>1. CASE now = obj[o]
    BY <1>1, <2>1
  <2>2. CASE now = Connect(obj[o], None)
    BY <1>1, <2>2, ConnectType
  <2> QED
    BY <2>1, <2>2 DEF StoreStep
<1> DEFINE p == TakeCall("store", r, o, now.ver)
<1>3. Begins(p, "store", r, o, obj[o].ver)
  BY <1>1, <1>2, CallTypes
<1>4. obj' = [obj EXCEPT ![o] = now] /\ proc' = [proc EXCEPT ![Saver] = p]
  BY DEF StoreStep, TakeCall
<1> HIDE DEF p
<1> QED
  BY <1>1, <1>2, <1>3, <1>4, SaverWorks DEF Begins, TypeOK, SameObject

LEMMA CheckEffect ==
  ASSUME TypeOK, ObjectsFit, NEW r \in Roles, NEW o \in Objects, CheckStep(r, o)
  PROVE  /\ proc' \in [Workers -> Calls]
         /\ proc'[Saver].at = "check" /\ proc'[Saver].role = r /\ proc'[Saver].object = o
         /\ proc'[Saver].ver = None /\ ~proc'[Saver].executed
         /\ \A v \in Workers \ {Saver} : proc'[v] = proc[v]
<1>1. obj[o].agent \in Agents
  BY DEF TypeOK, CheckStep, RoleObjects
<1> DEFINE p == CheckCall(r, o, obj[o].agent)
<1>2. Begins(p, "check", r, o, None)
  BY <1>1, CallTypes
<1>3. proc' = [proc EXCEPT ![Saver] = p]
  BY DEF CheckStep, CheckCall
<1> HIDE DEF p
<1> QED
  BY <1>2, <1>3, SaverWorks DEF Begins, TypeOK

LEMMA LoginEffect ==
  ASSUME TypeOK, NEW w \in Workers, NEW r \in Roles, NEW a \in Agents, LoginLoad(w, r, a)
  PROVE  /\ proc' \in [Workers -> Calls]
         /\ proc'[w].at = "getex" /\ proc'[w].role = r /\ proc'[w].object = None
         /\ proc'[w].agent = a /\ proc'[w].ver = None /\ ~proc'[w].executed
         /\ \A v \in Workers \ {w} : proc'[v] = proc[v]
<1> DEFINE p == LoadCall(r, a)
<1>1. Begins(p, "getex", r, None, None) /\ p.agent = a
  BY CallTypes
<1>2. proc' = [proc EXCEPT ![w] = p]
  BY DEF LoginLoad, LoadCall
<1> HIDE DEF p
<1> QED
  BY <1>1, <1>2 DEF Begins, TypeOK

\* A query is executed, or fails, or a request is answered.
Receives(w) == GetEx(w) \/ Set(w) \/ QueryFails(w) \/ (w = Saver /\ \E ok \in BOOLEAN : CheckRole(ok))

LEMMA ResultEffect ==
  ASSUME TypeOK, ObjectsFit, NEW w \in Workers, Receives(w)
  PROVE  /\ proc' \in [Workers -> Calls] /\ redis' \in [Roles -> Versions]
         /\ left' \in [Roles -> Versions] /\ ahead' \in [Workers -> SUBSET Workers]
         /\ \A v \in Workers : SameTask(v) /\ (proc'[v].ver = proc[v].ver \/ (v = w /\ GetEx(w) /\ ~QueryFails(w)))
         /\ \A v \in Workers \ {w} : proc'[v] = proc[v] /\ ahead'[v] = ahead[v]
         /\ ~proc[w].executed /\ proc'[w].executed
         /\ InOrder => ahead'[w] = {v \in Workers : proc[v].executed}
         /\ UNCHANGED <<hyd_roles, obj, changes>>
<1>0. proc[w] \in Calls /\ proc \in [Workers -> Calls] /\ redis \in [Roles -> Versions]
      /\ left \in [Roles -> Versions] /\ ahead \in [Workers -> SUBSET Workers]
  BY DEF TypeOK
<1>1. ASSUME NEW y, Continues(proc[w], y), y.ver = proc[w].ver \/ (GetEx(w) /\ ~QueryFails(w)), Executed(w, y),
             ~proc[w].executed, redis' \in [Roles -> Versions], left' \in [Roles -> Versions]
      PROVE  /\ proc' \in [Workers -> Calls] /\ redis' \in [Roles -> Versions]
             /\ left' \in [Roles -> Versions] /\ ahead' \in [Workers -> SUBSET Workers]
             /\ \A v \in Workers : SameTask(v) /\ (proc'[v].ver = proc[v].ver \/ (v = w /\ GetEx(w) /\ ~QueryFails(w)))
             /\ \A v \in Workers \ {w} : proc'[v] = proc[v] /\ ahead'[v] = ahead[v]
             /\ ~proc[w].executed /\ proc'[w].executed
             /\ InOrder => ahead'[w] = {v \in Workers : proc[v].executed}
             /\ UNCHANGED <<hyd_roles, obj, changes>>
  BY <1>0, <1>1 DEF Executed, Continues, SameTask
<1>2. CASE GetEx(w) /\ ~QueryFails(w)
  <2> DEFINE v == IF loaded[proc[w].role] THEN redis[proc[w].role] ELSE None
  <2>1. v \in Versions \cup {None}
    BY <1>0, <1>2 DEF GetEx, Waits, ObjectsFit, Busy
  <2>2. Executed(w, ReadResult(proc[w], v)) /\ ~proc[w].executed /\ UNCHANGED <<redis, left>>
    BY <1>2 DEF GetEx, Waits, ReadResult
  <2> HIDE DEF v
  <2>3. Continues(proc[w], ReadResult(proc[w], v))
    BY <1>0, <2>1, ResultTypes
  <2> QED
    BY <1>0, <1>1, <1>2, <2>2, <2>3
<1>3. CASE Set(w)
  <2>1. Continues(proc[w], AnswerResult(proc[w], TRUE)) /\ AnswerResult(proc[w], TRUE).ver = proc[w].ver
    BY <1>0, ResultTypes
  <2>2. Executed(w, AnswerResult(proc[w], TRUE)) /\ ~proc[w].executed
    BY <1>3 DEF Set, Waits, AnswerResult
  <2>3. proc[w].ver \in Versions
    BY <1>3 DEF Set, Waits, ObjectsFit
  <2>4. redis' \in [Roles -> Versions] /\ left' \in [Roles -> Versions]
    BY <1>0, <1>3, <2>3 DEF Set
  <2> QED
    BY <1>1, <2>1, <2>2, <2>4
<1>4. CASE QueryFails(w)
  <2>1. Continues(proc[w], DoneResult(proc[w])) /\ DoneResult(proc[w]).ver = proc[w].ver
    BY <1>0, ResultTypes
  <2>2. Executed(w, DoneResult(proc[w])) /\ ~proc[w].executed /\ UNCHANGED <<redis, left>>
    BY <1>4 DEF QueryFails, Waits, DoneResult
  <2> QED
    BY <1>0, <1>1, <2>1, <2>2
<1>5. ASSUME NEW ok \in BOOLEAN, w = Saver, CheckRole(ok)
      PROVE  /\ Continues(proc[w], AnswerResult(proc[w], ok)) /\ AnswerResult(proc[w], ok).ver = proc[w].ver
             /\ Executed(w, AnswerResult(proc[w], ok)) /\ ~proc[w].executed /\ UNCHANGED <<redis, left>>
  <2>1. Continues(proc[w], AnswerResult(proc[w], ok)) /\ AnswerResult(proc[w], ok).ver = proc[w].ver
    BY <1>0, ResultTypes
  <2>2. Executed(w, AnswerResult(proc[w], ok)) /\ ~proc[w].executed /\ UNCHANGED <<redis, left>>
    BY <1>5 DEF CheckRole, Waits, AnswerResult
  <2> QED
    BY <2>1, <2>2
<1> QED
  BY <1>0, <1>1, <1>2, <1>3, <1>4, <1>5 DEF Receives

-----------------------------------------------------------------------------
\* The invariant, whatever overlaps.

LEMMA OtherTypes ==
  ASSUME TypeOK, ObjectsFit, [Next]_vars
  PROVE  loaded' \in [Roles -> BOOLEAN] /\ bucket' \subseteq Roles /\ up' \subseteq Agents
<1> DEFINE Good == loaded' \in [Roles -> BOOLEAN] /\ bucket' \subseteq Roles /\ up' \subseteq Agents
<1>0. loaded \in [Roles -> BOOLEAN] /\ bucket \subseteq Roles /\ up \subseteq Agents
  BY DEF TypeOK
<1>1. UNCHANGED <<loaded, bucket, up>> => Good
  BY <1>0
<1>2. ASSUME NEW r \in Roles, Load(r) \/ Unload(r) PROVE Good
  BY <1>0, <1>2 DEF Load, Unload
<1>3. ASSUME NEW a \in Agents, AgentDown(a) PROVE Good
  BY <1>0, <1>3 DEF AgentDown
<1>4. ASSUME Arrange PROVE Good
  BY <1>0, <1>4 DEF Arrange
<1>5. ASSUME NEW r \in Roles, Visit(r) PROVE Good
  BY <1>0, <1>5 DEF Visit
<1>6. ASSUME NEW w \in Workers, Set(w) PROVE Good
  BY <1>0, <1>6 DEF Set, Executed
<1> HIDE DEF Good
<1>7. ASSUME Handlers PROVE Good
  BY <1>1, <1>7 DEF Handlers, LoginOnline, Reconnect, LoginLoad, Logout, Disconnect, OnClientRequest, Change
<1>8. ASSUME Checked \/ Stored \/ EverySecond PROVE Good
  BY <1>1, <1>8 DEF Checked, Stored, EverySecond, Change
<1>9. ASSUME NEW w \in Workers, Resume(w) \/ GetEx(w) \/ QueryFails(w) PROVE Good
  BY <1>1, <1>9 DEF Resume, Hydrate, Erase, Flushed, GetEx, QueryFails, Executed
<1>10. ASSUME NEW ok \in BOOLEAN, CheckRole(ok) PROVE Good
  BY <1>1, <1>10 DEF CheckRole, Executed
<1>11. ASSUME NEW r \in Roles, Elapse(r) PROVE Good
  BY <1>1, <1>11 DEF Elapse
<1>12. UNCHANGED vars => Good
  BY <1>1 DEF vars
<1>13. Good
  BY <1>2, <1>3, <1>4, <1>5, <1>6, <1>7, <1>8, <1>9, <1>10, <1>11, <1>12
     DEF Next, Timer, World, Answer
<1> QED
  BY <1>13 DEF Good

LEMMA TypeStep == TypeOK /\ ObjectsFit /\ [Next]_vars => TypeOK'
<1> SUFFICES ASSUME TypeOK, ObjectsFit, [Next]_vars PROVE TypeOK'
  OBVIOUS
<1>0. /\ redis \in [Roles -> Versions] /\ hyd_roles \in [Roles -> Objects \cup {None}]
      /\ obj \in [Objects -> RoleObjects] /\ proc \in [Workers -> Calls]
      /\ ahead \in [Workers -> SUBSET Workers]
      /\ changes \in [Roles -> Versions] /\ left \in [Roles -> Versions]
  BY DEF TypeOK
<1> DEFINE Main == /\ redis' \in [Roles -> Versions] /\ hyd_roles' \in [Roles -> Objects \cup {None}]
                   /\ obj' \in [Objects -> RoleObjects] /\ proc' \in [Workers -> Calls]
                   /\ ahead' \in [Workers -> SUBSET Workers]
                   /\ changes' \in [Roles -> Versions] /\ left' \in [Roles -> Versions]
<1>1. Main => TypeOK'
  BY OtherTypes DEF TypeOK
<1>2. ASSUME NEW r \in Roles, NEW a \in Agents \cup {None}, AttachStep(r, a) PROVE Main
  BY <1>0, <1>2, AttachEffect DEF AttachStep
<1>3. ASSUME NEW rs \in SUBSET Roles, Change(rs) PROVE Main
  BY <1>0, <1>3, ChangeEffect DEF Change
<1>4. ASSUME NEW r \in Roles, Elapse(r) PROVE Main
  BY <1>0, <1>4, ElapseEffect DEF Elapse, history
<1>5. ASSUME NEW w \in Workers, Hydrate(w) PROVE Main
  <2>1. /\ Finish(w) /\ UNCHANGED <<redis, changes, left>>
        /\ proc' \in [Workers -> Calls] /\ ahead' \in [Workers -> SUBSET Workers]
    BY <1>5, HydrateEffect, FinishEffect
  <2>2. CASE UNCHANGED <<hyd_roles, obj>>
    BY <1>0, <2>1, <2>2
  <2>3. CASE /\ Online(proc[w].role) /\ UNCHANGED hyd_roles
             /\ obj' = [obj EXCEPT ![hyd_roles[proc[w].role]] = Connect(@, proc[w].agent)]
    <3>1. proc[w].role \in Roles /\ proc[w].agent \in Agents \cup {None}
      BY <1>0, <1>5, HydrateEffect DEF Calls
    <3>2. hyd_roles[proc[w].role] \in Objects /\ obj[hyd_roles[proc[w].role]] \in RoleObjects
      BY <2>3, <3>1, OnMap
    <3>3. Connect(obj[hyd_roles[proc[w].role]], proc[w].agent) \in RoleObjects
      BY <3>1, <3>2, ConnectType
    <3> QED
      BY <1>0, <2>1, <2>3, <3>2, <3>3
  <2>4. ASSUME NEW o \in Objects, proc[w].ver \in Versions, proc[w].agent \in Agents,
               hyd_roles' = [hyd_roles EXCEPT ![proc[w].role] = o],
               obj' = [obj EXCEPT ![o] = [role |-> proc[w].role, phase |-> "in",
                                          agent |-> proc[w].agent, idle |-> FALSE, ver |-> proc[w].ver]]
        PROVE  Main
    <3>1. proc[w].role \in Roles
      BY <1>5, HydrateEffect
    <3>2. [role |-> proc[w].role, phase |-> "in", agent |-> proc[w].agent, idle |-> FALSE,
           ver |-> proc[w].ver] \in RoleObjects
      BY <2>4, <3>1, NewObjectType
    <3> QED
      BY <1>0, <2>1, <2>4, <3>2
  <2> QED
    BY <1>5, <2>2, <2>3, <2>4, HydrateEffect
<1>6. ASSUME NEW w \in Workers, Erase(w) PROVE Main
  <2>1. Busy(w) /\ AskToFlush(w)
    BY <1>6 DEF Erase, Returned, Busy
  <2> QED
    BY <1>0, <1>6, <2>1, FlushEffect DEF Erase, history
<1>7. ASSUME NEW w \in Workers, NEW r \in Roles, NEW o \in Objects, LeaveStep(w, r, o) PROVE Main
  BY <1>0, <1>7, LeaveEffect DEF LeaveStep, NoneAhead
<1>8. ASSUME NEW r \in Roles, NEW o \in Objects, NEW now, StoreStep(r, o, now) PROVE Main
  BY <1>0, <1>8, StoreEffect DEF StoreStep, NoneAhead
<1>9. ASSUME NEW r \in Roles, NEW o \in Objects, CheckStep(r, o) PROVE Main
  BY <1>0, <1>9, CheckEffect DEF CheckStep
<1>10. ASSUME Stored PROVE Main
  <2>1. proc[Saver].object \in Objects \cup {None} /\ Saver \in Workers
    BY <1>0, SaverWorks DEF Calls
  <2>2. hyd_roles' \in [Roles -> Objects \cup {None}]
    BY <1>0, <1>10, <2>1 DEF Stored
  <2> QED
    BY <1>0, <1>10, <2>1, <2>2, FinishEffect DEF Stored, history
<1>11. ASSUME PassStep PROVE Main
  BY <1>0, <1>11, FinishEffect, SaverWorks DEF PassStep
<1>12. ASSUME NEW w \in Workers, NEW r \in Roles, NEW a \in Agents, LoginLoad(w, r, a) PROVE Main
  BY <1>0, <1>12, LoginEffect DEF LoginLoad, history
<1>13. ASSUME NEW w \in Workers, Receives(w) PROVE Main
  BY <1>0, <1>13, ResultEffect
<1>14. ASSUME NEW w \in Workers, Flushed(w) PROVE Main
  BY <1>0, <1>14, FinishEffect DEF Flushed, history
<1>15. QuietStep => Main
  BY <1>0 DEF QuietStep
<1> HIDE DEF Main
<1> QED
  BY <1>1, <1>2, <1>3, <1>4, <1>5, <1>6, <1>7, <1>8, <1>9, <1>10, <1>11, <1>12, <1>13, <1>14, <1>15,
     StepKinds, SaverWorks DEF Receives

\* An object that is there stays there, for the same role.
Kept(o) == obj'[o].role = obj[o].role /\ (obj[o].phase = "none" <=> obj'[o].phase = "none")
\* The role r has left the map, or has the object it had.
RoleKept(r) == hyd_roles'[r] = None \/ (hyd_roles'[r] = hyd_roles[r] /\ Kept(hyd_roles[r]))
\* The fiber w has come to its end, or has what it had in hand.
TaskKept(w) ==
  \/ proc'[w] = Idle
  \/ /\ SameTask(w) /\ (proc'[w].ver = proc[w].ver \/ proc[w].at = "getex")
     /\ Takes(w) => Kept(proc[w].object)

\* The parts of ObjectsFit', for one object, one role and one fiber.
ObjectFitsNext(o) == obj'[o].phase # "none" => obj'[o].role \in Roles
RoleFitsNext(r) ==
  hyd_roles'[r] # None => obj'[hyd_roles'[r]].role = r /\ obj'[hyd_roles'[r]].phase # "none"
TaskFitsNext(w) ==
  /\ proc'[w].at # "idle" => proc'[w].role \in Roles
  /\ proc'[w].object # None <=> proc'[w].at \in {"leave", "check", "store"}
  /\ proc'[w].at \in {"leave", "check", "store"} =>
       obj'[proc'[w].object].role = proc'[w].role /\ obj'[proc'[w].object].phase # "none"
  /\ proc'[w].at \in {"leave", "store"} => proc'[w].ver \in Versions
  /\ proc'[w].at = "getex" => proc'[w].agent \in Agents

LEMMA FitsNext ==
  /\ \A o \in Objects : ObjectFitsNext(o)
  /\ \A r \in Roles : RoleFitsNext(r)
  /\ \A w \in Workers : TaskFitsNext(w)
  => ObjectsFit'
BY DEF ObjectFitsNext, RoleFitsNext, TaskFitsNext, ObjectsFit, Online, Busy, Takes

LEMMA KeptFits ==
  ASSUME TypeOK, ObjectsFit
  PROVE  /\ \A o \in Objects : Kept(o) => ObjectFitsNext(o)
         /\ \A r \in Roles : RoleKept(r) => RoleFitsNext(r)
         /\ \A w \in Workers : TaskKept(w) => TaskFitsNext(w)
<1>1. ASSUME NEW r \in Roles, RoleKept(r) PROVE RoleFitsNext(r)
  BY <1>1, OnMap DEF RoleKept, RoleFitsNext, Kept, Online
<1>2. ASSUME NEW w \in Workers, TaskKept(w) PROVE TaskFitsNext(w)
  <2>1. CASE proc'[w] = Idle
    BY <2>1, IdleType DEF TaskFitsNext
  <2>2. CASE /\ SameTask(w) /\ (proc'[w].ver = proc[w].ver \/ proc[w].at = "getex")
             /\ Takes(w) => Kept(proc[w].object)
    BY <2>2 DEF TaskFitsNext, SameTask, Kept, Takes, ObjectsFit, Busy
  <2> QED
    BY <1>2, <2>1, <2>2 DEF TaskKept
<1>3. ASSUME NEW o \in Objects, Kept(o) PROVE ObjectFitsNext(o)
  BY <1>3 DEF Kept, ObjectFitsNext, ObjectsFit
<1> QED
  BY <1>1, <1>2, <1>3

\* What nothing touches is kept.
LEMMA KeptObjects ==
  ASSUME TypeOK, ObjectsFit, \A o \in Objects : Kept(o)
  PROVE  /\ \A r \in Roles : hyd_roles'[r] \in {None, hyd_roles[r]} => RoleKept(r)
         /\ \A w \in Workers : proc'[w] = proc[w] => TaskKept(w)
         /\ \A w \in Workers :
              SameTask(w) /\ (proc'[w].ver = proc[w].ver \/ proc[w].at = "getex") => TaskKept(w)
<1>1. \A w \in Workers : Takes(w) => proc[w].object \in Objects
  BY DEF TypeOK, ObjectsFit, Calls
<1>2. \A r \in Roles : hyd_roles[r] \in Objects \/ hyd_roles[r] = None
  BY DEF TypeOK
<1> QED
  BY <1>1, <1>2 DEF RoleKept, TaskKept, SameTask

LEMMA FitStep == TypeOK /\ ObjectsFit /\ [Next]_vars => ObjectsFit'
<1> SUFFICES ASSUME TypeOK, ObjectsFit, [Next]_vars PROVE ObjectsFit'
  OBVIOUS
<1> DEFINE Fit == /\ \A o \in Objects : ObjectFitsNext(o)
                  /\ \A r \in Roles : RoleFitsNext(r)
                  /\ \A w \in Workers : TaskFitsNext(w)
<1>0. /\ obj \in [Objects -> RoleObjects] /\ hyd_roles \in [Roles -> Objects \cup {None}]
      /\ proc \in [Workers -> Calls]
  BY DEF TypeOK
<1>1. ASSUME \A o \in Objects : Kept(o), \A r \in Roles : hyd_roles'[r] \in {None, hyd_roles[r]},
             \A w \in Workers : \/ proc'[w] = proc[w] \/ proc'[w] = Idle \/ TaskFitsNext(w)
                                \/ SameTask(w) /\ (proc'[w].ver = proc[w].ver \/ proc[w].at = "getex")
      PROVE  Fit
  BY <1>1, KeptObjects, KeptFits DEF TaskKept
<1>2. ASSUME \A o \in Objects : SameObject(o) PROVE \A o \in Objects : Kept(o)
  BY <1>2 DEF SameObject, Kept
<1>3. UNCHANGED obj => \A o \in Objects : SameObject(o)
  BY DEF SameObject
<1>4. UNCHANGED hyd_roles => \A r \in Roles : hyd_roles'[r] \in {None, hyd_roles[r]}
  OBVIOUS
<1>5. UNCHANGED proc => \A w \in Workers : proc'[w] = proc[w]
  OBVIOUS
<1>6. ASSUME NEW r \in Roles, NEW a \in Agents \cup {None}, AttachStep(r, a) PROVE Fit
  BY <1>1, <1>2, <1>4, <1>5, <1>6, AttachEffect DEF AttachStep
<1>7. ASSUME NEW rs \in SUBSET Roles, Change(rs) PROVE Fit
  BY <1>1, <1>2, <1>4, <1>5, <1>7, ChangeEffect DEF Change
<1>8. ASSUME NEW r \in Roles, Elapse(r) PROVE Fit
  BY <1>1, <1>2, <1>4, <1>5, <1>8, ElapseEffect DEF Elapse
<1>9. ASSUME NEW w \in Workers, Hydrate(w) PROVE Fit
  <2>1. proc[w].role \in Roles /\ proc'[w] = Idle /\ \A v \in Workers \ {w} : proc'[v] = proc[v]
    BY <1>9, HydrateEffect, FinishEffect
  <2>2. CASE UNCHANGED <<hyd_roles, obj>>
    BY <1>1, <1>2, <1>3, <1>4, <2>1, <2>2
  <2>3. ASSUME Online(proc[w].role), UNCHANGED hyd_roles,
               obj' = [obj EXCEPT ![hyd_roles[proc[w].role]] = Connect(@, proc[w].agent)]
        PROVE  Fit
    <3>1. hyd_roles[proc[w].role] \in Objects /\ obj[hyd_roles[proc[w].role]] \in RoleObjects
      BY <2>1, <2>3, OnMap
    <3>2. proc[w].agent \in Agents \cup {None}
      BY <1>0 DEF Calls
    <3> DEFINE y == Connect(obj[hyd_roles[proc[w].role]], proc[w].agent)
    <3>3. y.role = obj[hyd_roles[proc[w].role]].role /\ y.phase = obj[hyd_roles[proc[w].role]].phase
      BY <3>1, <3>2, ConnectType
    <3>4. obj' = [obj EXCEPT ![hyd_roles[proc[w].role]] = y]
      BY <2>3
    <3> HIDE DEF y
    <3>5. \A o \in Objects : SameObject(o)
      BY <1>0, <3>1, <3>3, <3>4 DEF SameObject
    <3> QED
      BY <1>1, <1>2, <1>4, <2>1, <2>3, <3>5
  <2>4. ASSUME NEW o \in Objects, Free(o), hyd_roles' = [hyd_roles EXCEPT ![proc[w].role] = o],
               obj' = [obj EXCEPT ![o] = [role |-> proc[w].role, phase |-> "in",
                                          agent |-> proc[w].agent, idle |-> FALSE, ver |-> proc[w].ver]]
        PROVE  Fit
    <3>1. obj'[o].role = proc[w].role /\ obj'[o].phase = "in"
          /\ \A x \in Objects \ {o} : obj'[x] = obj[x]
      BY <1>0, <2>4
    <3>2. RoleFitsNext(proc[w].role)
      BY <1>0, <2>1, <2>4, <3>1 DEF RoleFitsNext
    <3>3. ASSUME NEW q \in Roles \ {proc[w].role} PROVE RoleFitsNext(q)
      <4>1. hyd_roles'[q] = hyd_roles[q] /\ hyd_roles[q] # o
        BY <1>0, <2>4, <3>3 DEF Free
      <4>2. hyd_roles[q] # None => hyd_roles[q] \in Objects \ {o}
        BY <1>0, <4>1
      <4>3. RoleKept(q)
        BY <3>1, <4>1, <4>2, KeptFits DEF RoleKept, Kept
      <4> QED
        BY <4>3, KeptFits
    <3>4. ASSUME NEW v \in Workers PROVE TaskFitsNext(v)
      <4>1. proc[v].object # o /\ proc[v].object \in Objects \cup {None}
        BY <1>0, <2>4 DEF Free, Calls
      <4>2. Takes(v) => proc[v].object \in Objects \ {o}
        BY <4>1 DEF ObjectsFit
      <4>3. TaskKept(v)
        BY <2>1, <3>1, <4>2 DEF TaskKept, SameTask, Kept
      <4> QED
        BY <4>3, KeptFits
    <3>5. \A x \in Objects \ {o} : ObjectFitsNext(x)
      BY <3>1, KeptFits DEF Kept
    <3>6. ObjectFitsNext(o)
      BY <2>1, <3>1 DEF ObjectFitsNext
    <3> QED
      BY <3>2, <3>3, <3>4, <3>5, <3>6
  <2> HIDE DEF Fit
  <2> QED
    BY <1>9, <2>2, <2>3, <2>4, HydrateEffect
<1>10. ASSUME NEW w \in Workers, Erase(w) PROVE Fit
  <2>1. Busy(w) /\ AskToFlush(w)
    BY <1>10 DEF Erase, Returned, Busy
  <2>2. TaskFitsNext(w) /\ \A v \in Workers \ {w} : proc'[v] = proc[v]
    BY <2>1, FlushEffect DEF TaskFitsNext
  <2> QED
    BY <1>0, <1>1, <1>2, <1>3, <1>10, <2>2 DEF Erase
<1>11. ASSUME NEW w \in Workers, NEW r \in Roles, NEW o \in Objects, LeaveStep(w, r, o) PROVE Fit
  <2>1. obj[o].role = r /\ obj[o].phase # "none"
    BY <1>11, InHandFits DEF LeaveStep
  <2>2. /\ obj'[o].role = r /\ obj'[o].phase = "out" /\ \A x \in Objects \ {o} : obj'[x] = obj[x]
        /\ proc'[w].at = "leave" /\ proc'[w].role = r /\ proc'[w].object = o
        /\ proc'[w].ver = obj[o].ver /\ \A v \in Workers \ {w} : proc'[v] = proc[v]
    BY <1>11, LeaveEffect
  <2>3. \A x \in Objects : Kept(x)
    BY <2>1, <2>2 DEF Kept
  <2>4. obj[o].ver \in Versions /\ o # None
    BY <1>0 DEF RoleObjects
  <2>5. TaskFitsNext(w)
    BY <2>2, <2>4 DEF TaskFitsNext
  <2> QED
    BY <1>1, <1>4, <1>11, <2>2, <2>3, <2>5 DEF LeaveStep
<1>12. ASSUME NEW r \in Roles, NEW o \in Objects, NEW now, StoreStep(r, o, now) PROVE Fit
  <2>1. obj[o].role = r /\ obj[o].phase # "none"
    BY <1>12, InHandFits, SaverWorks DEF StoreStep
  <2>2. /\ \A x \in Objects : SameObject(x)
        /\ proc'[Saver].at = "store" /\ proc'[Saver].role = r /\ proc'[Saver].object = o
        /\ proc'[Saver].ver = obj[o].ver /\ \A v \in Workers \ {Saver} : proc'[v] = proc[v]
    BY <1>12, StoreEffect
  <2>3. obj[o].ver \in Versions /\ o # None
    BY <1>0 DEF RoleObjects
  <2>4. TaskFitsNext(Saver)
    BY <2>1, <2>2, <2>3 DEF TaskFitsNext, SameObject
  <2> QED
    BY <1>1, <1>2, <1>4, <1>12, <2>2, <2>4 DEF StoreStep
<1>13. ASSUME NEW r \in Roles, NEW o \in Objects, CheckStep(r, o) PROVE Fit
  <2>1. obj[o].role = r /\ obj[o].phase # "none"
    BY <1>13, InHandFits, SaverWorks DEF CheckStep
  <2>2. /\ proc'[Saver].at = "check" /\ proc'[Saver].role = r /\ proc'[Saver].object = o
        /\ \A v \in Workers \ {Saver} : proc'[v] = proc[v]
    BY <1>13, CheckEffect
  <2>3. UNCHANGED <<hyd_roles, obj>> /\ o # None
    BY <1>13 DEF CheckStep
  <2>4. TaskFitsNext(Saver)
    BY <2>1, <2>2, <2>3 DEF TaskFitsNext
  <2> QED
    BY <1>1, <1>2, <1>3, <1>4, <2>2, <2>3, <2>4
<1>14. ASSUME Stored PROVE Fit
  <2>1. /\ proc[Saver].at = "store" /\ Saver \in Workers /\ Finish(Saver) /\ UNCHANGED obj
        /\ hyd_roles' = [hyd_roles EXCEPT ![proc[Saver].role] = IF @ = None THEN None ELSE proc[Saver].object]
    BY <1>14, SaverWorks DEF Stored, Returned
  <2>2. /\ proc[Saver].role \in Roles /\ obj[proc[Saver].object].role = proc[Saver].role
        /\ obj[proc[Saver].object].phase # "none"
    BY <2>1 DEF ObjectsFit, Busy, Takes
  <2>3. proc'[Saver] = Idle /\ \A v \in Workers \ {Saver} : proc'[v] = proc[v]
    BY <2>1, FinishEffect
  <2>4. \A o \in Objects : Kept(o)
    BY <2>1, <1>2, <1>3
  <2>5. \A w \in Workers : TaskFitsNext(w)
    BY <2>3, <2>4, KeptObjects, KeptFits DEF TaskKept
  <2>6. RoleFitsNext(proc[Saver].role)
    BY <1>0, <2>1, <2>2 DEF RoleFitsNext
  <2>7. \A q \in Roles \ {proc[Saver].role} : RoleFitsNext(q)
    BY <1>0, <2>1, <2>4, KeptObjects, KeptFits
  <2> QED
    BY <2>4, <2>5, <2>6, <2>7, KeptFits
<1>15. ASSUME PassStep PROVE Fit
  BY <1>1, <1>2, <1>3, <1>4, <1>15, FinishEffect, SaverWorks DEF PassStep
<1>16. ASSUME NEW w \in Workers, NEW r \in Roles, NEW a \in Agents, LoginLoad(w, r, a) PROVE Fit
  <2>1. TaskFitsNext(w) /\ \A v \in Workers \ {w} : proc'[v] = proc[v]
    BY <1>16, LoginEffect DEF TaskFitsNext
  <2> QED
    BY <1>1, <1>2, <1>3, <1>4, <1>16, <2>1 DEF LoginLoad
<1>17. ASSUME NEW w \in Workers, Receives(w) PROVE Fit
  <2>1. \A v \in Workers : SameTask(v) /\ (proc'[v].ver = proc[v].ver \/ proc[v].at = "getex")
    BY <1>17, ResultEffect DEF GetEx, Waits
  <2> QED
    BY <1>1, <1>2, <1>3, <1>4, <1>17, <2>1, ResultEffect
<1>18. ASSUME NEW w \in Workers, Flushed(w) PROVE Fit
  BY <1>1, <1>2, <1>3, <1>4, <1>18, FinishEffect DEF Flushed
<1>19. QuietStep => Fit
  BY <1>1, <1>2, <1>3, <1>4, <1>5 DEF QuietStep
<1> HIDE DEF Fit
<1>20. Fit
  BY <1>6, <1>7, <1>8, <1>9, <1>10, <1>11, <1>12, <1>13, <1>14, <1>15, <1>16, <1>17, <1>18, <1>19,
     StepKinds, SaverWorks DEF Receives
<1> QED
  BY <1>20, FitsNext DEF Fit

LEMMA InitFits == Init => TypeOK /\ ObjectsFit
<1> SUFFICES ASSUME Init PROVE TypeOK /\ ObjectsFit
  OBVIOUS
<1>1. Unborn \in RoleObjects
  BY DEF Unborn, RoleObjects, Versions
<1>2. TypeOK
  BY <1>1, IdleType DEF Init, TypeOK, Versions
<1>3. ObjectsFit
  BY IdleType DEF Init, Unborn, ObjectsFit, Online, Takes, Busy
<1> QED
  BY <1>2, <1>3

\* The state stays well formed, whatever overlaps: so no object of another role is
\* ever put on the map in the place of a role.
THEOREM TypeCorrect == Spec => []TypeOK
<1>1. TypeOK /\ ObjectsFit /\ [Next]_vars => (TypeOK /\ ObjectsFit)'
  BY TypeStep, FitStep
<1> QED
  BY <1>1, InitFits, PTL DEF Spec

-----------------------------------------------------------------------------
\* One fiber at a time has a role in hand.

Owned == OneTaker /\ HoldsOnline /\ InIsOnline /\ OutIsLeaving

\* What a fiber is about to log out, write or check has logged in, and is the one online.
LEMMA HandIsIn ==
  ASSUME NoOverlap, TypeOK, ObjectsFit, Owned,
         NEW w \in Workers, NEW r \in Roles, NEW o \in Objects, InHand(w, r, o)
  PROVE  /\ hyd_roles[r] = o /\ obj[o].phase = "in" /\ obj[o].role = r
         /\ \A v \in Workers \ {w} : Takes(v) => proc[v].role # r
         /\ proc[w].at # "leave"
<1>1. CASE ~Busy(w) /\ o = hyd_roles[r] /\ MayTake(r)
  <2>1. \A v \in Workers : Takes(v) => proc[v].role # r
    BY <1>1 DEF MayTake, NoOverlap
  <2>2. obj[o].phase # "out"
    BY <1>1, <2>1 DEF Owned, OutIsLeaving, Takes, InHand
  <2> QED
    BY <1>1, <2>1, <2>2, OnMap DEF Busy, InHand
<1>2. CASE proc[w].at = "check" /\ r = proc[w].role /\ o = proc[w].object
  <2>1. Takes(w)
    BY <1>2 DEF Takes
  <2>2. hyd_roles[r] = o /\ obj[o].phase # "out" /\ \A v \in Workers \ {w} : Takes(v) => proc[v].role # r
    BY <1>2, <2>1 DEF Owned, OneTaker, HoldsOnline
  <2> QED
    BY <1>2, <2>2, OnMap DEF InHand
<1> QED
  BY <1>1, <1>2 DEF InHand

\* The fiber w goes on with what it has, or is not one that has a role in hand any
\* more; and it does not forget to erase a role.
Holds(w) == proc'[w].at = proc[w].at /\ proc'[w].role = proc[w].role /\ proc'[w].object = proc[w].object
LetsGo(w) == proc'[w].at \notin {"leave", "check", "store"} /\ proc[w].at # "leave"

LEMMA OwnedKept ==
  ASSUME TypeOK, ObjectsFit, Owned, UNCHANGED hyd_roles, \A o \in Objects : SameObject(o),
         \A w \in Workers : Holds(w) \/ LetsGo(w)
  PROVE  Owned'
<1>1. \A w \in Workers : proc'[w].at \in {"leave", "check", "store"} => Holds(w) /\ Takes(w)
  BY DEF Holds, LetsGo, Takes
<1>2. OneTaker'
  BY <1>1 DEF Owned, OneTaker, Takes, Holds
<1>3. \A w \in Workers : Takes(w) => proc[w].object \in Objects
  BY DEF ObjectsFit, TypeOK, Calls
<1>4. HoldsOnline'
  BY <1>1, <1>3 DEF Owned, HoldsOnline, Takes, Holds, SameObject
<1>5. InIsOnline'
  BY DEF Owned, InIsOnline, SameObject
<1>6. OutIsLeaving'
  BY OnMap DEF Owned, OutIsLeaving, Online, SameObject, Holds, LetsGo
<1> QED
  BY <1>2, <1>4, <1>5, <1>6 DEF Owned

\* A fiber takes a role in hand to check it or to write it.
LEMMA OwnedTaken ==
  ASSUME NoOverlap, TypeOK, ObjectsFit, Owned, NEW w \in Workers, NEW r \in Roles, NEW o \in Objects,
         InHand(w, r, o), UNCHANGED hyd_roles, \A x \in Objects : SameObject(x),
         proc'[w].at \in {"check", "store"}, proc'[w].role = r, proc'[w].object = o,
         \A v \in Workers \ {w} : proc'[v] = proc[v]
  PROVE  Owned'
<1>1. /\ hyd_roles[r] = o /\ obj[o].phase = "in" /\ obj[o].role = r
      /\ \A v \in Workers \ {w} : Takes(v) => proc[v].role # r
      /\ proc[w].at # "leave"
  BY HandIsIn
<1>2. OneTaker'
  BY <1>1 DEF Owned, OneTaker, Takes
<1>3. \A v \in Workers : Takes(v) => proc[v].object \in Objects
  BY DEF ObjectsFit, TypeOK, Calls
<1>4. HoldsOnline'
  BY <1>1, <1>3 DEF Owned, HoldsOnline, Takes, SameObject
<1>5. InIsOnline'
  BY DEF Owned, InIsOnline, SameObject
<1>6. OutIsLeaving'
  BY <1>1, OnMap DEF Owned, OutIsLeaving, Online, SameObject
<1> QED
  BY <1>2, <1>4, <1>5, <1>6 DEF Owned

LEMMA OwnedLeft ==
  ASSUME NoOverlap, TypeOK, ObjectsFit, Owned, NEW w \in Workers, NEW r \in Roles, NEW o \in Objects,
         LeaveStep(w, r, o)
  PROVE  Owned'
<1>1. /\ hyd_roles[r] = o /\ obj[o].phase = "in" /\ obj[o].role = r
      /\ \A v \in Workers \ {w} : Takes(v) => proc[v].role # r
      /\ proc[w].at # "leave" /\ UNCHANGED hyd_roles
  BY HandIsIn DEF LeaveStep
<1>2. /\ obj'[o].role = r /\ obj'[o].phase = "out" /\ \A x \in Objects \ {o} : obj'[x] = obj[x]
      /\ proc'[w].at = "leave" /\ proc'[w].role = r /\ proc'[w].object = o
      /\ \A v \in Workers \ {w} : proc'[v] = proc[v]
  BY LeaveEffect
<1>3. OneTaker'
  BY <1>1, <1>2 DEF Owned, OneTaker, Takes
<1>4. \A v \in Workers \ {w} : Takes(v) => proc[v].object \in Objects \ {o}
  BY <1>1 DEF ObjectsFit, TypeOK, Calls
<1>5. HoldsOnline'
  BY <1>1, <1>2, <1>4 DEF Owned, HoldsOnline, Takes
<1>6. InIsOnline'
  BY <1>1, <1>2 DEF Owned, InIsOnline
<1>7. \A q \in Roles \ {r} : Online(q) => hyd_roles[q] \in Objects \ {o}
  BY <1>1, OnMap
<1>8. OutIsLeaving'
  BY <1>1, <1>2, <1>7 DEF Owned, OutIsLeaving, Online
<1> QED
  BY <1>3, <1>5, <1>6, <1>8 DEF Owned

LEMMA OwnedErased ==
  ASSUME TypeOK, ObjectsFit, Owned, NEW w \in Workers, Erase(w)
  PROVE  Owned'
<1> DEFINE r == proc[w].role
<1>1. /\ proc[w].at = "leave" /\ hyd_roles' = [hyd_roles EXCEPT ![r] = None] /\ UNCHANGED obj
      /\ proc'[w].at = "flush" /\ \A v \in Workers \ {w} : proc'[v] = proc[v]
  BY FlushEffect DEF Erase, Returned, Busy
<1>2. Takes(w) /\ r \in Roles /\ proc[w].object \in Objects
  BY <1>1 DEF Takes, ObjectsFit, Busy, TypeOK, Calls
<1>3. hyd_roles[r] = proc[w].object /\ obj[proc[w].object].phase = "out"
  BY <1>1, <1>2 DEF Owned, HoldsOnline
<1>4. \A v \in Workers \ {w} : Takes(v) => proc[v].role # r
  BY <1>2 DEF Owned, OneTaker
<1>5. hyd_roles'[r] = None /\ \A q \in Roles \ {r} : hyd_roles'[q] = hyd_roles[q]
  BY <1>1, <1>2 DEF TypeOK
<1>6. \A v \in Workers : Takes(v) => proc[v].role \in Roles
  BY DEF ObjectsFit, Takes, Busy
<1> HIDE DEF r
<1>7. OneTaker'
  BY <1>1, IdleType DEF Owned, OneTaker, Takes
<1>8. HoldsOnline'
  BY <1>1, <1>4, <1>5, <1>6, IdleType DEF Owned, HoldsOnline, Takes
<1>9. \A o \in Objects : obj[o].phase = "in" => obj[o].role \in Roles /\ obj[o].role # r
  <2> SUFFICES ASSUME NEW o \in Objects, obj[o].phase = "in" PROVE obj[o].role \in Roles /\ obj[o].role # r
    OBVIOUS
  <2>1. hyd_roles[obj[o].role] = o
    BY DEF Owned, InIsOnline
  <2>2. obj[o].role # r
    BY <1>3, <2>1
  <2> QED
    BY <2>2 DEF ObjectsFit
<1>10. InIsOnline'
  BY <1>1, <1>5, <1>9 DEF Owned, InIsOnline
<1>11. OutIsLeaving'
  <2> SUFFICES ASSUME NEW q \in Roles, hyd_roles'[q] # None, obj'[hyd_roles'[q]].phase = "out"
               PROVE  \E v \in Workers : proc'[v].at = "leave" /\ proc'[v].role = q
    BY DEF OutIsLeaving, Online
  <2>1. q # r /\ hyd_roles'[q] = hyd_roles[q]
    BY <1>5
  <2>2. PICK v \in Workers : proc[v].at = "leave" /\ proc[v].role = q
    BY <1>1, <2>1 DEF Owned, OutIsLeaving, Online
  <2>3. v # w
    BY <2>1, <2>2 DEF r
  <2> QED
    BY <1>1, <2>2, <2>3
<1> QED
  BY <1>7, <1>8, <1>10, <1>11 DEF Owned

\* A role that was not online comes online, as an object that nothing pointed to.
ComesOnline(w, o) ==
  /\ ~Online(proc[w].role) /\ proc[w].ver \in Versions /\ proc[w].agent \in Agents
  /\ Free(o)
  /\ hyd_roles' = [hyd_roles EXCEPT ![proc[w].role] = o]
  /\ obj' = [obj EXCEPT ![o] = [role |-> proc[w].role, phase |-> "in", agent |-> proc[w].agent,
                                idle |-> FALSE, ver |-> proc[w].ver]]

CameOnline(r, o, v) ==
  /\ obj'[o].role = r /\ obj'[o].phase = "in" /\ obj'[o].idle = FALSE /\ obj'[o].ver = v
  /\ \A x \in Objects \ {o} : obj'[x] = obj[x]
  /\ hyd_roles'[r] = o
  /\ \A q \in Roles \ {r} : hyd_roles'[q] = hyd_roles[q] /\ hyd_roles[q] # o

LEMMA OnlineEffect ==
  ASSUME TypeOK, ObjectsFit, NEW w \in Workers, Hydrate(w), NEW o \in Objects, ComesOnline(w, o)
  PROVE  /\ proc[w].role \in Roles /\ obj'[o].agent = proc[w].agent
         /\ CameOnline(proc[w].role, o, proc[w].ver)
<1>1. proc[w].role \in Roles
  BY HydrateEffect
<1> QED
  BY <1>1 DEF ComesOnline, CameOnline, Free, TypeOK

LEMMA OwnedOnline ==
  ASSUME TypeOK, ObjectsFit, Owned, NEW w \in Workers, Hydrate(w), NEW o \in Objects, ComesOnline(w, o)
  PROVE  Owned'
<1>0. CameOnline(proc[w].role, o, proc[w].ver)
  BY OnlineEffect
<1>1. proc'[w] = Idle /\ proc[w].at = "getex" /\ \A v \in Workers \ {w} : proc'[v] = proc[v]
  BY HydrateEffect, FinishEffect DEF Returned
<1>2. \A v \in Workers : Takes(v) => /\ proc[v].role \in Roles /\ proc[v].role # proc[w].role
                                    /\ proc[v].object \in Objects \ {o}
  <2> SUFFICES ASSUME NEW v \in Workers, Takes(v)
               PROVE  /\ proc[v].role \in Roles /\ proc[v].role # proc[w].role
                      /\ proc[v].object \in Objects \ {o}
    OBVIOUS
  <2>1. proc[v].role \in Roles /\ proc[v].object \in Objects
    BY DEF ObjectsFit, Busy, Takes, TypeOK, Calls
  <2>2. Online(proc[v].role)
    BY <2>1 DEF Owned, HoldsOnline, Online
  <2> QED
    BY <2>1, <2>2 DEF ComesOnline, Free
<1>3. OneTaker'
  BY <1>1, IdleType DEF Owned, OneTaker, Takes
<1>4. HoldsOnline'
  BY <1>1, <1>2, IdleType, <1>0 DEF CameOnline, Owned, HoldsOnline, Takes
<1>5. InIsOnline'
  <2> SUFFICES ASSUME NEW x \in Objects, obj'[x].phase = "in" PROVE hyd_roles'[obj'[x].role] = x
    BY DEF InIsOnline
  <2>1. CASE x = o
    BY <2>1, <1>0 DEF CameOnline
  <2>2. CASE x # o
    <3>1. obj'[x] = obj[x] /\ obj[x].phase = "in"
      BY <2>2, <1>0 DEF CameOnline
    <3>2. hyd_roles[obj[x].role] = x /\ obj[x].role \in Roles
      BY <3>1 DEF Owned, InIsOnline, ObjectsFit
    <3>3. obj[x].role # proc[w].role
      BY <3>2 DEF ComesOnline, Online
    <3> QED
      BY <3>1, <3>2, <3>3, <1>0 DEF CameOnline
  <2> QED
    BY <2>1, <2>2
<1>6. OutIsLeaving'
  <2> SUFFICES ASSUME NEW q \in Roles, hyd_roles'[q] # None, obj'[hyd_roles'[q]].phase = "out"
               PROVE  \E v \in Workers : proc'[v].at = "leave" /\ proc'[v].role = q
    BY DEF OutIsLeaving, Online
  <2>1. q # proc[w].role
    BY <1>0 DEF CameOnline
  <2>2. hyd_roles'[q] = hyd_roles[q] /\ hyd_roles[q] \in Objects \ {o}
    BY <2>1, <1>0 DEF CameOnline, TypeOK
  <2>3. obj[hyd_roles[q]].phase = "out" /\ Online(q)
    BY <1>0, <2>2 DEF CameOnline, Online
  <2>4. PICK v \in Workers : proc[v].at = "leave" /\ proc[v].role = q
    BY <2>3 DEF Owned, OutIsLeaving
  <2> QED
    BY <1>1, <2>4
<1> QED
  BY <1>3, <1>4, <1>5, <1>6 DEF Owned

\* The copy that is put back is the object that is online already.
LEMMA PutsBackItself ==
  ASSUME TypeOK, ObjectsFit, Owned, Stored
  PROVE  /\ UNCHANGED <<redis, hyd_roles, obj, changes, left>>
         /\ Saver \in Workers /\ Finish(Saver) /\ proc[Saver].at = "store"
<1>1. /\ proc[Saver].at = "store" /\ Saver \in Workers /\ Finish(Saver)
      /\ UNCHANGED <<redis, obj, changes, left>>
      /\ hyd_roles' = [hyd_roles EXCEPT ![proc[Saver].role] = IF @ = None THEN None ELSE proc[Saver].object]
  BY SaverWorks DEF Stored, Returned, history
<1>2. hyd_roles[proc[Saver].role] = proc[Saver].object
  BY <1>1 DEF Owned, HoldsOnline, Takes
<1> QED
  BY <1>1, <1>2 DEF TypeOK

\* A login of a role that is online by now, or that has nothing to log in.
LEMMA HydrateKinds ==
  ASSUME TypeOK, ObjectsFit, NEW w \in Workers, Hydrate(w)
  PROVE  \/ UNCHANGED <<hyd_roles, obj>>
         \/ /\ Online(proc[w].role) /\ UNCHANGED hyd_roles
            /\ \A o \in Objects : SameObject(o) /\ obj'[o].ver = obj[o].ver
            /\ \A o \in Objects \ {hyd_roles[proc[w].role]} : obj'[o] = obj[o]
            /\ obj'[hyd_roles[proc[w].role]].agent = proc[w].agent
            /\ obj'[hyd_roles[proc[w].role]].idle = FALSE
         \/ \E o \in Objects : ComesOnline(w, o)
<1>1. proc[w].role \in Roles /\ proc[w].agent \in Agents
  BY HydrateEffect DEF Returned, ObjectsFit
<1>2. ASSUME Online(proc[w].role), UNCHANGED hyd_roles,
             obj' = [obj EXCEPT ![hyd_roles[proc[w].role]] = Connect(@, proc[w].agent)]
      PROVE  /\ \A o \in Objects : SameObject(o) /\ obj'[o].ver = obj[o].ver
             /\ \A o \in Objects \ {hyd_roles[proc[w].role]} : obj'[o] = obj[o]
             /\ obj'[hyd_roles[proc[w].role]].agent = proc[w].agent
             /\ obj'[hyd_roles[proc[w].role]].idle = FALSE
  <2>1. hyd_roles[proc[w].role] \in Objects /\ obj[hyd_roles[proc[w].role]] \in RoleObjects
    BY <1>1, <1>2, OnMap
  <2> DEFINE x == obj[hyd_roles[proc[w].role]]
             y == Connect(x, proc[w].agent)
  <2>2. y.role = x.role /\ y.phase = x.phase /\ y.ver = x.ver /\ y.agent = proc[w].agent /\ y.idle = FALSE
    <3>1. x \in RoleObjects /\ proc[w].agent \in Agents \cup {None}
      BY <1>1, <2>1
    <3> HIDE DEF x
    <3> QED
      BY <3>1, ConnectType
  <2>3. obj' = [obj EXCEPT ![hyd_roles[proc[w].role]] = y]
    BY <1>2
  <2> HIDE DEF y
  <2> QED
    BY <2>1, <2>2, <2>3 DEF SameObject, TypeOK
<1>3. ASSUME ~Online(proc[w].role), proc[w].ver \in Versions, proc[w].agent \in Agents,
             NEW o \in Objects, Free(o), hyd_roles' = [hyd_roles EXCEPT ![proc[w].role] = o],
             obj' = [obj EXCEPT ![o] = [role |-> proc[w].role, phase |-> "in", agent |-> proc[w].agent,
                                        idle |-> FALSE, ver |-> proc[w].ver]]
      PROVE  ComesOnline(w, o)
  BY <1>3 DEF ComesOnline
<1> QED
  BY <1>2, <1>3, HydrateEffect

LEMMA OwnStep == NoOverlap /\ TypeOK /\ ObjectsFit /\ Owned /\ [Next]_vars => Owned'
<1> SUFFICES ASSUME NoOverlap, TypeOK, ObjectsFit, Owned, [Next]_vars PROVE Owned'
  OBVIOUS
<1>1. UNCHANGED obj => \A o \in Objects : SameObject(o)
  BY DEF SameObject
<1>2. UNCHANGED proc => \A w \in Workers : Holds(w) \/ LetsGo(w)
  BY DEF Holds
<1>3. ASSUME NEW w \in Workers, proc'[w] = Idle, proc[w].at # "leave",
             \A v \in Workers \ {w} : proc'[v] = proc[v]
      PROVE  \A v \in Workers : Holds(v) \/ LetsGo(v)
  BY <1>3, IdleType DEF Holds, LetsGo
<1>4. ASSUME NEW r \in Roles, NEW a \in Agents \cup {None}, AttachStep(r, a) PROVE Owned'
  BY <1>2, <1>4, AttachEffect, OwnedKept DEF AttachStep
<1>5. ASSUME NEW rs \in SUBSET Roles, Change(rs) PROVE Owned'
  BY <1>2, <1>5, ChangeEffect, OwnedKept DEF Change
<1>6. ASSUME NEW r \in Roles, Elapse(r) PROVE Owned'
  BY <1>2, <1>6, ElapseEffect, OwnedKept DEF Elapse
<1>7. ASSUME NEW w \in Workers, Hydrate(w) PROVE Owned'
  <2>1. proc'[w] = Idle /\ proc[w].at = "getex" /\ \A v \in Workers \ {w} : proc'[v] = proc[v]
    BY <1>7, HydrateEffect, FinishEffect DEF Returned
  <2>2. \A v \in Workers : Holds(v) \/ LetsGo(v)
    BY <1>3, <2>1
  <2>3. UNCHANGED hyd_roles /\ (\A o \in Objects : SameObject(o)) => Owned'
    BY <2>2, OwnedKept
  <2> QED
    BY <1>1, <1>7, <2>3, HydrateKinds, OwnedOnline
<1>8. ASSUME NEW w \in Workers, Erase(w) PROVE Owned'
  BY <1>8, OwnedErased
<1>9. ASSUME NEW w \in Workers, NEW r \in Roles, NEW o \in Objects, LeaveStep(w, r, o) PROVE Owned'
  BY <1>9, OwnedLeft
<1>10. ASSUME NEW r \in Roles, NEW o \in Objects, NEW now, StoreStep(r, o, now) PROVE Owned'
  <2>1. InHand(Saver, r, o) /\ UNCHANGED hyd_roles /\ Saver \in Workers
    BY <1>10, SaverWorks DEF StoreStep
  <2> QED
    BY <1>10, <2>1, StoreEffect, OwnedTaken
<1>11. ASSUME NEW r \in Roles, NEW o \in Objects, CheckStep(r, o) PROVE Owned'
  <2>1. InHand(Saver, r, o) /\ UNCHANGED <<hyd_roles, obj>> /\ Saver \in Workers
    BY <1>11, SaverWorks DEF CheckStep
  <2> QED
    BY <1>1, <1>11, <2>1, CheckEffect, OwnedTaken
<1>12. ASSUME Stored PROVE Owned'
  <2>1. UNCHANGED <<hyd_roles, obj>> /\ Saver \in Workers /\ Finish(Saver) /\ proc[Saver].at = "store"
    BY <1>12, PutsBackItself
  <2> QED
    BY <1>1, <1>3, <2>1, FinishEffect, OwnedKept
<1>13. ASSUME PassStep PROVE Owned'
  <2>1. UNCHANGED <<hyd_roles, obj>> /\ Saver \in Workers /\ Finish(Saver) /\ proc[Saver].at = "check"
    BY <1>13, SaverWorks DEF PassStep
  <2> QED
    BY <1>1, <1>3, <2>1, FinishEffect, OwnedKept
<1>14. ASSUME NEW w \in Workers, NEW r \in Roles, NEW a \in Agents, LoginLoad(w, r, a) PROVE Owned'
  <2>1. UNCHANGED <<hyd_roles, obj>> /\ proc[w].at = "idle"
    BY <1>14 DEF LoginLoad, Busy
  <2>2. proc'[w].at = "getex" /\ \A v \in Workers \ {w} : proc'[v] = proc[v]
    BY <1>14, LoginEffect
  <2>3. \A v \in Workers : Holds(v) \/ LetsGo(v)
    BY <2>1, <2>2 DEF Holds, LetsGo
  <2> QED
    BY <1>1, <2>1, <2>3, OwnedKept
<1>15. ASSUME NEW w \in Workers, Receives(w) PROVE Owned'
  <2>1. UNCHANGED <<hyd_roles, obj>> /\ \A v \in Workers : SameTask(v)
    BY <1>15, ResultEffect
  <2>2. \A v \in Workers : Holds(v)
    BY <2>1 DEF SameTask, Holds
  <2> QED
    BY <1>1, <2>1, <2>2, OwnedKept
<1>16. ASSUME NEW w \in Workers, Flushed(w) PROVE Owned'
  <2>1. UNCHANGED <<hyd_roles, obj>> /\ Finish(w) /\ proc[w].at = "flush"
    BY <1>16 DEF Flushed
  <2> QED
    BY <1>1, <1>3, <2>1, FinishEffect, OwnedKept
<1>17. QuietStep => Owned'
  BY <1>1, <1>2, OwnedKept DEF QuietStep
<1> QED
  BY <1>4, <1>5, <1>6, <1>7, <1>8, <1>9, <1>10, <1>11, <1>12, <1>13, <1>14, <1>15, <1>16, <1>17,
     StepKinds, SaverWorks DEF Receives

LEMMA InvAlways == NoOverlap => (Spec => []Inv)
<1> SUFFICES ASSUME NoOverlap PROVE Spec => []Inv
  OBVIOUS
<1>1. Init => Owned
  BY IdleType DEF Init, Unborn, Owned, OneTaker, HoldsOnline, InIsOnline, OutIsLeaving, Takes, Online
<1>2. Inv <=> TypeOK /\ ObjectsFit /\ Owned
  BY DEF Inv, Owned
<1>3. Init => Inv
  BY <1>1, <1>2, InitFits
<1>4. Inv /\ [Next]_vars => Inv'
  BY TypeStep, FitStep, OwnStep DEF Inv, Owned
<1> QED
  BY <1>3, <1>4, PTL DEF Spec

\* Without overlap, a role that has logged in is found by every later request until
\* it is logged out: neither a login, nor the write of the save timer, nor the end of
\* an earlier logout puts another object in its place.
THEOREM StaysOnline == NoOverlap => (Spec => []InIsOnline)
<1>1. Inv => InIsOnline
  BY DEF Inv
<1> QED
  BY <1>1, InvAlways, PTL

\* Without overlap, a role that is on the map after its logout has a fiber that is
\* going to erase it: none stays there for ever, logged out.
THEOREM LeavesTheMap == NoOverlap => (Spec => []OutIsLeaving)
<1>1. Inv => OutIsLeaving
  BY DEF Inv
<1> QED
  BY <1>1, InvAlways, PTL

-----------------------------------------------------------------------------
\* A login gets what the last logout wrote.

\* The fiber w goes on, with what it has to write or has read; or it has nothing of
\* the kind any more, and if it was to erase a role, nobody was to resume before it;
\* or it begins to write something that is recent enough.
Carries(w) ==
  /\ proc'[w].at = proc[w].at /\ proc'[w].role = proc[w].role /\ proc'[w].object = proc[w].object
  /\ proc'[w].ver = proc[w].ver /\ (proc[w].executed => proc'[w].executed)
Drops(w) ==
  /\ proc'[w].ver = None /\ proc'[w].at \notin {"leave", "store"}
  /\ proc[w].at = "leave" => Returned(w, "leave")
Writes(w) ==
  /\ proc'[w].at \in {"leave", "store"} /\ proc'[w].role \in Roles /\ proc[w].at # "leave"
  /\ left[proc'[w].role] <= proc'[w].ver /\ proc'[w].ver <= changes'[proc'[w].role]
  /\ proc'[w].ver <= obj'[proc'[w].object].ver

\* The fiber v, which is to resume before w erases a role, still is.
StillFirst(v, w) ==
  /\ proc[v].at = "getex" /\ Carries(v) /\ proc[w].at = "leave" /\ Carries(w) /\ proc[w].executed
  /\ v \in ahead[w]
  => v \in ahead'[w]

\* An online role has at least what it was logged out with, and at most what it has been.
Recent(r) ==
  hyd_roles'[r] # None =>
    left'[r] <= obj'[hyd_roles'[r]].ver /\ obj'[hyd_roles'[r]].ver <= changes'[r]
\* What a fiber writes does not get older.
Grows(w) == proc[w].at \in {"leave", "store"} => obj[proc[w].object].ver <= obj'[proc[w].object].ver

LEMMA Numbers ==
  ASSUME TypeOK, ObjectsFit
  PROVE  /\ \A r \in Roles : changes[r] \in Nat /\ left[r] \in Nat /\ redis[r] \in Nat
         /\ \A w \in Workers : proc[w].ver \in Nat \/ proc[w].ver = None
         /\ \A o \in Objects : obj[o].ver \in Nat
         /\ \A w \in Workers : Busy(w) => proc[w].role \in Roles
         /\ \A w \in Workers : proc[w].at \in {"leave", "store"} =>
              proc[w].ver \in Versions /\ proc[w].object \in Objects
         /\ Versions \subseteq Nat /\ None \notin Nat \cap Versions
<1>1. Versions \subseteq Nat
  BY DEF Versions
<1>2. \A w \in Workers : proc[w].ver \in Versions \cup {None} /\ proc[w].object \in Objects \cup {None}
  BY DEF TypeOK, Calls
<1>3. \A o \in Objects : obj[o].ver \in Versions
  BY DEF TypeOK, RoleObjects
<1>4. \A w \in Workers : proc[w].at \in {"leave", "store"} => proc[w].object # None
  BY DEF ObjectsFit, Takes
<1> QED
  BY <1>1, <1>2, <1>3, <1>4 DEF TypeOK, ObjectsFit

LEMMA LatestKept ==
  ASSUME TypeOK, TypeOK', ObjectsFit, LatestInv, UNCHANGED <<redis, left>>,
         \A r \in Roles : changes[r] <= changes'[r] /\ Recent(r),
         \A w \in Workers : Grows(w) /\ (Carries(w) \/ Drops(w) \/ Writes(w)),
         \A v, w \in Workers : StillFirst(v, w)
  PROVE  LatestInv'
<1>0. /\ \A r \in Roles : changes'[r] \in Nat
      /\ \A o \in Objects : obj'[o].ver \in Nat
  BY DEF Versions, TypeOK, RoleObjects
<1>1. NothingAhead'
  <2>1. \A r \in Roles : left'[r] <= changes'[r] /\ redis'[r] <= changes'[r]
    BY <1>0, Numbers DEF LatestInv, NothingAhead
  <2>2. \A r \in Roles : hyd_roles'[r] # None =>
          left'[r] <= obj'[hyd_roles'[r]].ver /\ obj'[hyd_roles'[r]].ver <= changes'[r]
    BY DEF Recent
  <2>3. ASSUME NEW r \in Roles, NEW w \in Workers, proc'[w].role = r, proc'[w].ver # None
        PROVE  proc'[w].ver <= changes'[r]
    <3>1. CASE Carries(w)
      BY <1>0, <2>3, <3>1, Numbers DEF Carries, LatestInv, NothingAhead
    <3>2. CASE Drops(w)
      BY <2>3, <3>2 DEF Drops
    <3>3. CASE Writes(w)
      BY <2>3, <3>3 DEF Writes
    <3> QED
      BY <3>1, <3>2, <3>3
  <2> QED
    BY <2>1, <2>2, <2>3 DEF NothingAhead, Online
<1>2. WritesLatest'
  <2>1. ASSUME NEW w \in Workers, proc'[w].at \in {"leave", "store"}
        PROVE  left'[proc'[w].role] <= proc'[w].ver /\ proc'[w].ver <= obj'[proc'[w].object].ver
    <3>1. CASE Carries(w)
      <4>1. /\ proc[w].ver \in Nat /\ proc[w].object \in Objects
            /\ left[proc[w].role] <= proc[w].ver /\ proc[w].ver <= obj[proc[w].object].ver
            /\ obj[proc[w].object].ver <= obj'[proc[w].object].ver
        BY <2>1, <3>1, Numbers DEF Carries, LatestInv, WritesLatest, Grows
      <4> QED
        BY <1>0, <3>1, <4>1, Numbers DEF Carries
    <3>2. CASE Writes(w)
      BY <3>2 DEF Writes
    <3> QED
      BY <2>1, <3>1, <3>2 DEF Drops
  <2>2. \A r \in Roles : left'[r] <= redis'[r]
    BY DEF LatestInv, WritesLatest
  <2> QED
    BY <2>1, <2>2 DEF WritesLatest
<1>3. ReadsLatest'
  <2> SUFFICES ASSUME NEW v \in Workers, proc'[v].at = "getex", proc'[v].ver # None
               PROVE  /\ proc'[v].executed
                      /\ proc'[v].ver < left'[proc'[v].role] =>
                           \E w \in Workers : /\ proc'[w].at = "leave" /\ proc'[w].role = proc'[v].role
                                              /\ proc'[w].executed /\ v \in ahead'[w]
    BY DEF ReadsLatest
  <2>1. Carries(v)
    BY DEF Drops, Writes
  <2>2. proc[v].at = "getex" /\ proc[v].ver # None /\ proc[v].executed /\ proc'[v].executed
    BY <2>1 DEF Carries, LatestInv, ReadsLatest
  <2>3. ASSUME proc'[v].ver < left'[proc'[v].role]
        PROVE  \E w \in Workers : /\ proc'[w].at = "leave" /\ proc'[w].role = proc'[v].role
                                  /\ proc'[w].executed /\ v \in ahead'[w]
    <3>1. PICK w \in Workers : /\ proc[w].at = "leave" /\ proc[w].role = proc[v].role
                               /\ proc[w].executed /\ v \in ahead[w]
      BY <2>1, <2>2, <2>3 DEF Carries, LatestInv, ReadsLatest
    <3>2. Carries(w)
      BY <3>1 DEF Drops, Writes, Returned
    <3>3. v \in ahead'[w]
      BY <2>1, <2>2, <3>1, <3>2 DEF StillFirst
    <3> QED
      BY <2>1, <3>1, <3>2, <3>3 DEF Carries
  <2> QED
    BY <2>2, <2>3
<1> QED
  BY <1>1, <1>2, <1>3 DEF LatestInv

\* A role of which nothing has changed is as recent as it was, and so is what is written.
LEMMA RecentKept ==
  ASSUME TypeOK, ObjectsFit, LatestInv, UNCHANGED <<changes, left>>, \A o \in Objects : obj'[o].ver = obj[o].ver
  PROVE  /\ \A r \in Roles : changes[r] <= changes'[r] /\ (hyd_roles'[r] \in {None, hyd_roles[r]} => Recent(r))
         /\ \A w \in Workers : Grows(w)
<1>1. \A r \in Roles : changes[r] <= changes'[r]
  BY Numbers
<1>2. ASSUME NEW r \in Roles, hyd_roles'[r] = hyd_roles[r], hyd_roles'[r] # None PROVE Recent(r)
  <2>1. Online(r) /\ hyd_roles[r] \in Objects
    BY <1>2, OnMap DEF Online
  <2> QED
    BY <1>2, <2>1 DEF Recent, LatestInv, NothingAhead
<1>3. \A r \in Roles : hyd_roles'[r] = None => Recent(r)
  BY DEF Recent
<1>4. \A w \in Workers : Grows(w)
  BY Numbers DEF Grows
<1> QED
  BY <1>1, <1>2, <1>3, <1>4

\* A fiber that comes to its end, or has erased a role.
Ends(w) ==
  /\ proc'[w].at \in {"idle", "flush"} /\ proc'[w].ver = None
  /\ proc[w].at = "leave" => Returned(w, "leave")
  /\ \A v \in Workers \ {w} : proc'[v] = proc[v]
  /\ \A v \in Workers : ahead'[v] = ahead[v] \ {w}

LEMMA LatestEnded ==
  ASSUME TypeOK, TypeOK', ObjectsFit, LatestInv, NEW w \in Workers, Ends(w),
         UNCHANGED <<redis, left, changes>>, \A r \in Roles : Recent(r), \A v \in Workers : Grows(v)
  PROVE  LatestInv'
<1>1. Drops(w) /\ \A v \in Workers \ {w} : Carries(v)
  BY DEF Ends, Drops, Carries
<1>2. \A v, u \in Workers : StillFirst(v, u)
  BY DEF Ends, StillFirst, Carries
<1>3. \A r \in Roles : changes[r] <= changes'[r]
  BY Numbers
<1> QED
  BY <1>1, <1>2, <1>3, LatestKept

\* A role that comes online has what its last logout wrote: one that has read less
\* would have a logout going on, and the role would be online.
LEMMA HydratedRecent ==
  ASSUME TypeOK, ObjectsFit, Owned, LatestInv, NEW w \in Workers, Hydrate(w),
         ~Online(proc[w].role), proc[w].ver # None
  PROVE  left[proc[w].role] <= proc[w].ver /\ proc[w].ver <= changes[proc[w].role]
<1>1. proc[w].role \in Roles /\ proc[w].at = "getex"
  BY HydrateEffect DEF Returned
<1>2. ~(\E v \in Workers : proc[v].at = "leave" /\ proc[v].role = proc[w].role)
  BY DEF Owned, HoldsOnline, Takes, Online, ObjectsFit
<1>3. ~(proc[w].ver < left[proc[w].role])
  BY <1>1, <1>2 DEF LatestInv, ReadsLatest
<1>4. proc[w].ver <= changes[proc[w].role]
  BY <1>1 DEF LatestInv, NothingAhead
<1> QED
  BY <1>1, <1>3, <1>4, Numbers

LEMMA LatestHydrated ==
  ASSUME TypeOK, TypeOK', ObjectsFit, Owned, LatestInv, NEW w \in Workers, Hydrate(w)
  PROVE  LatestInv'
<1>1. /\ Ends(w) /\ proc[w].role \in Roles /\ UNCHANGED <<redis, changes, left>>
  <2>1. Finish(w) /\ proc[w].at = "getex" /\ proc[w].role \in Roles /\ UNCHANGED <<redis, changes, left>>
    BY HydrateEffect DEF Returned
  <2> QED
    BY <2>1, FinishEffect, IdleType DEF Ends
<1>2. (\A r \in Roles : Recent(r)) /\ (\A v \in Workers : Grows(v)) => LatestInv'
  BY <1>1, LatestEnded
<1>3. UNCHANGED hyd_roles /\ (\A o \in Objects : obj'[o].ver = obj[o].ver) =>
        (\A r \in Roles : Recent(r)) /\ (\A v \in Workers : Grows(v))
  BY <1>1, RecentKept
<1>4. ASSUME NEW o \in Objects, ComesOnline(w, o)
      PROVE  (\A r \in Roles : Recent(r)) /\ (\A v \in Workers : Grows(v))
  <2>1. CameOnline(proc[w].role, o, proc[w].ver)
    BY <1>4, OnlineEffect
  <2>2. left[proc[w].role] <= proc[w].ver /\ proc[w].ver <= changes[proc[w].role]
    BY <1>4, HydratedRecent, Numbers DEF ComesOnline
  <2>3. Recent(proc[w].role)
    BY <1>1, <2>1, <2>2 DEF CameOnline, Recent
  <2>4. ASSUME NEW q \in Roles \ {proc[w].role} PROVE Recent(q)
    <3>1. hyd_roles'[q] = hyd_roles[q] /\ (Online(q) => obj'[hyd_roles[q]] = obj[hyd_roles[q]])
      BY <2>1, OnMap DEF CameOnline
    <3> QED
      BY <1>1, <3>1 DEF Recent, Online, LatestInv, NothingAhead
  <2>5. ASSUME NEW v \in Workers, proc[v].at \in {"leave", "store"}
        PROVE  obj[proc[v].object].ver <= obj'[proc[v].object].ver
    <3>1. proc[v].object \in Objects \ {o}
      BY <1>4, <2>5, Numbers DEF ComesOnline, Free
    <3> QED
      BY <2>1, <3>1, Numbers DEF CameOnline
  <2> QED
    BY <2>3, <2>4, <2>5 DEF Grows
<1> QED
  BY <1>2, <1>3, <1>4, HydrateKinds

\* A login reads at least what the last logout wrote.
LEMMA LatestRead ==
  ASSUME TypeOK, ObjectsFit, LatestInv, NEW w \in Workers, GetEx(w)
  PROVE  LatestInv'
<1> DEFINE r == proc[w].role
<1>1. /\ \A v \in Workers : SameTask(v)
      /\ \A v \in Workers \ {w} : proc'[v] = proc[v] /\ ahead'[v] = ahead[v]
      /\ proc'[w].executed /\ UNCHANGED <<hyd_roles, obj, changes>>
  BY ResultEffect DEF Receives
<1>2. proc[w].at = "getex" /\ r \in Roles /\ UNCHANGED <<redis, left>>
  BY Numbers DEF GetEx, Waits, Busy
<1>3. proc'[w].ver = redis[r] \/ proc'[w].ver = None
  <2> DEFINE v == IF loaded[r] THEN redis[r] ELSE None
  <2>1. proc' = [proc EXCEPT ![w] = ReadResult(proc[w], v)]
    BY DEF GetEx, Executed, ReadResult
  <2>2. proc[w] \in Calls /\ v \in Versions \cup {None}
    BY <1>2 DEF TypeOK
  <2> HIDE DEF v
  <2>3. ReadResult(proc[w], v).ver = v
    BY <2>2, ResultTypes
  <2>4. proc'[w].ver = v
    BY <2>1, <2>3 DEF TypeOK
  <2> QED
    BY <2>4 DEF v
<1>4. \A v \in Workers : /\ proc'[v].at = proc[v].at /\ proc'[v].role = proc[v].role
                         /\ proc'[v].object = proc[v].object
  BY <1>1 DEF SameTask
<1> HIDE DEF r
<1>5. NothingAhead'
  <2>1. ASSUME NEW q \in Roles, NEW v \in Workers, proc'[v].role = q, proc'[v].ver # None
        PROVE  proc'[v].ver <= changes'[q]
    BY <1>1, <1>3, <1>4, <2>1 DEF r, LatestInv, NothingAhead
  <2>2. \A q \in Roles : /\ left'[q] <= changes'[q] /\ redis'[q] <= changes'[q]
                         /\ hyd_roles'[q] # None => /\ left'[q] <= obj'[hyd_roles'[q]].ver
                                                    /\ obj'[hyd_roles'[q]].ver <= changes'[q]
    BY <1>1, <1>2 DEF LatestInv, NothingAhead, Online
  <2> QED
    BY <2>1, <2>2 DEF NothingAhead, Online
<1>6. WritesLatest'
  <2>1. ASSUME NEW v \in Workers, proc'[v].at \in {"leave", "store"}
        PROVE  left'[proc'[v].role] <= proc'[v].ver /\ proc'[v].ver <= obj'[proc'[v].object].ver
    <3>1. v # w /\ proc[v].at \in {"leave", "store"}
      BY <1>2, <1>4, <2>1
    <3> QED
      BY <1>1, <1>2, <3>1 DEF LatestInv, WritesLatest
  <2> QED
    BY <1>2, <2>1 DEF LatestInv, WritesLatest
<1>7. ReadsLatest'
  <2> SUFFICES ASSUME NEW v \in Workers, proc'[v].at = "getex", proc'[v].ver # None
               PROVE  /\ proc'[v].executed
                      /\ proc'[v].ver < left'[proc'[v].role] =>
                           \E u \in Workers : /\ proc'[u].at = "leave" /\ proc'[u].role = proc'[v].role
                                              /\ proc'[u].executed /\ v \in ahead'[u]
    BY DEF ReadsLatest
  <2>1. CASE v = w
    <3>1. left[r] <= redis[r] /\ left[r] \in Nat /\ redis[r] \in Nat
      BY <1>2, Numbers DEF LatestInv, WritesLatest
    <3>2. ~(proc'[v].ver < left'[proc'[v].role])
      BY <1>2, <1>3, <1>4, <2>1, <3>1 DEF r
    <3> QED
      BY <1>1, <2>1, <3>2
  <2>2. CASE v # w
    <3>1. proc'[v] = proc[v] /\ proc[v].executed
      BY <1>1, <2>2 DEF LatestInv, ReadsLatest
    <3>2. ASSUME proc'[v].ver < left'[proc'[v].role]
          PROVE  \E u \in Workers : /\ proc'[u].at = "leave" /\ proc'[u].role = proc'[v].role
                                    /\ proc'[u].executed /\ v \in ahead'[u]
      <4>1. PICK u \in Workers : /\ proc[u].at = "leave" /\ proc[u].role = proc[v].role
                                 /\ proc[u].executed /\ v \in ahead[u]
        BY <1>2, <3>1, <3>2 DEF LatestInv, ReadsLatest
      <4>2. u # w
        BY <1>2, <4>1
      <4> QED
        BY <1>1, <3>1, <4>1, <4>2
    <3> QED
      BY <3>1, <3>2
  <2> QED
    BY <2>1, <2>2
<1> QED
  BY <1>5, <1>6, <1>7 DEF LatestInv

\* A write leaves something recent on Redis; and a login that has read something
\* older before a logout is written resumes before the fiber that has written it.
LEMMA LatestWritten ==
  ASSUME InOrder, TypeOK, TypeOK', ObjectsFit, Owned, LatestInv, NEW w \in Workers, Set(w)
  PROVE  LatestInv'
<1> DEFINE r == proc[w].role
           n == proc[w].ver
<1>1. /\ \A v \in Workers : SameTask(v) /\ (proc'[v].ver = proc[v].ver \/ (v = w /\ GetEx(w)))
      /\ \A v \in Workers \ {w} : proc'[v] = proc[v] /\ ahead'[v] = ahead[v]
      /\ ahead'[w] = {v \in Workers : proc[v].executed} /\ proc'[w].executed
      /\ UNCHANGED <<hyd_roles, obj, changes>>
  BY ResultEffect DEF Receives
<1>2. /\ proc[w].at \in {"leave", "store"} /\ ~proc[w].executed /\ r \in Roles /\ Takes(w)
      /\ redis' = [redis EXCEPT ![r] = n]
      /\ left' = IF proc[w].at = "leave" THEN [left EXCEPT ![r] = n] ELSE left
  BY Numbers DEF Set, Waits, Busy, Takes
<1>3. \A v \in Workers : /\ proc'[v].at = proc[v].at /\ proc'[v].role = proc[v].role
                         /\ proc'[v].object = proc[v].object /\ proc'[v].ver = proc[v].ver
  BY <1>1, <1>2 DEF SameTask, GetEx, Waits
<1>4. /\ left[r] <= n /\ n <= changes[r] /\ n \in Nat
      /\ hyd_roles[r] # None => n <= obj[hyd_roles[r]].ver
  <2>1. n \in Nat /\ n # None
    BY <1>2, Numbers
  <2>2. hyd_roles[r] = proc[w].object
    BY <1>2 DEF Owned, HoldsOnline
  <2> QED
    BY <1>2, <2>1, <2>2 DEF LatestInv, NothingAhead, WritesLatest
<1>5. /\ redis'[r] = n /\ \A q \in Roles \ {r} : redis'[q] = redis[q] /\ left'[q] = left[q]
      /\ left'[r] \in {n, left[r]} /\ (proc[w].at # "leave" => left'[r] = left[r])
  BY <1>2 DEF TypeOK
<1>6. \A v \in Workers \ {w} : Takes(v) => proc[v].role \in Roles \ {r}
  BY <1>2 DEF Owned, OneTaker, ObjectsFit, Takes, Busy
<1>7. proc[w].role = r /\ proc[w].ver = n /\ r \in Roles
  BY <1>2
<1> HIDE DEF r, n
<1>8. NothingAhead'
  <2>1. ASSUME NEW q \in Roles, NEW v \in Workers, proc'[v].role = q, proc'[v].ver # None
        PROVE  proc'[v].ver <= changes'[q]
    BY <1>1, <1>3, <2>1 DEF LatestInv, NothingAhead
  <2>2. \A q \in Roles : left'[q] <= changes'[q] /\ redis'[q] <= changes'[q]
    BY <1>1, <1>4, <1>5 DEF LatestInv, NothingAhead
  <2>3. \A q \in Roles : hyd_roles'[q] # None => /\ left'[q] <= obj'[hyd_roles'[q]].ver
                                                 /\ obj'[hyd_roles'[q]].ver <= changes'[q]
    BY <1>1, <1>4, <1>5 DEF LatestInv, NothingAhead, Online
  <2> QED
    BY <2>1, <2>2, <2>3 DEF NothingAhead, Online
<1>9. WritesLatest'
  <2>1. ASSUME NEW v \in Workers, proc'[v].at \in {"leave", "store"}
        PROVE  left'[proc'[v].role] <= proc'[v].ver /\ proc'[v].ver <= obj'[proc'[v].object].ver
    <3>0. left[proc[v].role] <= proc[v].ver /\ proc[v].ver <= obj[proc[v].object].ver
      BY <1>3, <2>1 DEF LatestInv, WritesLatest
    <3>1. CASE v = w
      BY <1>1, <1>3, <1>4, <1>5, <1>7, <3>0, <3>1
    <3>2. CASE v # w
      <4>1. proc[v].role \in Roles \ {r}
        BY <1>3, <1>6, <2>1, <3>2 DEF Takes
      <4> QED
        BY <1>1, <1>3, <1>5, <3>0, <4>1
    <3> QED
      BY <3>1, <3>2
  <2>2. \A q \in Roles : left'[q] <= redis'[q]
    BY <1>4, <1>5 DEF LatestInv, WritesLatest
  <2> QED
    BY <2>1, <2>2 DEF WritesLatest
<1>10. ReadsLatest'
  <2> SUFFICES ASSUME NEW v \in Workers, proc'[v].at = "getex", proc'[v].ver # None
               PROVE  /\ proc'[v].executed
                      /\ proc'[v].ver < left'[proc'[v].role] =>
                           \E u \in Workers : /\ proc'[u].at = "leave" /\ proc'[u].role = proc'[v].role
                                              /\ proc'[u].executed /\ v \in ahead'[u]
    BY DEF ReadsLatest
  <2>1. v # w /\ proc'[v] = proc[v] /\ proc[v].executed /\ proc[v].role \in Roles
    BY <1>1, <1>2, <1>3, Numbers DEF LatestInv, ReadsLatest, Busy
  <2>2. ASSUME proc'[v].ver < left'[proc'[v].role]
        PROVE  \E u \in Workers : /\ proc'[u].at = "leave" /\ proc'[u].role = proc'[v].role
                                  /\ proc'[u].executed /\ v \in ahead'[u]
    <3>1. CASE proc[v].role = r /\ proc[w].at = "leave"
      BY <1>1, <1>3, <1>7, <2>1, <3>1
    <3>2. CASE ~(proc[v].role = r /\ proc[w].at = "leave")
      <4>1. left'[proc[v].role] = left[proc[v].role]
        BY <1>5, <2>1, <3>2
      <4>2. PICK u \in Workers : /\ proc[u].at = "leave" /\ proc[u].role = proc[v].role
                                 /\ proc[u].executed /\ v \in ahead[u]
        BY <2>1, <2>2, <4>1 DEF LatestInv, ReadsLatest
      <4>3. u # w
        BY <1>2, <4>2
      <4> QED
        BY <1>1, <2>1, <4>2, <4>3
    <3> QED
      BY <3>1, <3>2
  <2> QED
    BY <2>1, <2>2
<1> QED
  BY <1>8, <1>9, <1>10 DEF LatestInv

LEMMA LatestStep ==
  NoOverlap /\ InOrder /\ TypeOK /\ ObjectsFit /\ Owned /\ LatestInv /\ [Next]_vars => LatestInv'
<1> SUFFICES ASSUME NoOverlap, InOrder, TypeOK, ObjectsFit, Owned, LatestInv, [Next]_vars PROVE LatestInv'
  OBVIOUS
<1>0. TypeOK'
  BY TypeStep
<1> DEFINE SameVers == \A o \in Objects : obj'[o].ver = obj[o].ver
           Waiting == \A v, w \in Workers : StillFirst(v, w)
<1>1. ASSUME SameVers, UNCHANGED <<redis, left, changes>>, \A r \in Roles : hyd_roles'[r] \in {None, hyd_roles[r]},
             \A w \in Workers : Carries(w) \/ Drops(w) \/ Writes(w), Waiting
      PROVE  LatestInv'
  <2>1. (\A r \in Roles : changes[r] <= changes'[r] /\ Recent(r)) /\ \A w \in Workers : Grows(w)
    BY <1>1, RecentKept
  <2> QED
    BY <1>0, <1>1, <2>1, LatestKept
<1>2. UNCHANGED hyd_roles => \A r \in Roles : hyd_roles'[r] \in {None, hyd_roles[r]}
  OBVIOUS
<1>3. UNCHANGED proc => \A w \in Workers : Carries(w)
  BY DEF Carries
<1>4. UNCHANGED ahead => Waiting
  BY DEF StillFirst
<1>5. UNCHANGED obj => SameVers
  OBVIOUS
<1>6. ASSUME NEW w \in Workers, Ends(w), UNCHANGED <<redis, left, changes>>, SameVers,
             \A r \in Roles : hyd_roles'[r] \in {None, hyd_roles[r]}
      PROVE  LatestInv'
  <2>1. (\A r \in Roles : Recent(r)) /\ \A v \in Workers : Grows(v)
    BY <1>6, RecentKept
  <2> QED
    BY <1>0, <1>6, <2>1, LatestEnded
<1>7. ASSUME NEW w \in Workers, Finish(w), proc[w].at # "leave" PROVE Ends(w)
  BY <1>7, FinishEffect, IdleType DEF Ends
<1>8. ASSUME NEW r \in Roles, NEW a \in Agents \cup {None}, AttachStep(r, a) PROVE LatestInv'
  <2>1. SameVers
    BY <1>8, AttachEffect
  <2> QED
    BY <1>1, <1>2, <1>3, <1>4, <1>8, <2>1 DEF AttachStep
<1>9. ASSUME NEW rs \in SUBSET Roles, Change(rs) PROVE LatestInv'
  <2>1. /\ \A r \in Roles : changes'[r] = IF r \in rs THEN changes[r] + 1 ELSE changes[r]
        /\ \A r \in Roles : Online(r) =>
              obj'[hyd_roles[r]].ver = IF r \in rs THEN changes'[r] ELSE obj[hyd_roles[r]].ver
    BY <1>9, ChangeEffect
  <2>2. UNCHANGED <<redis, hyd_roles, proc, ahead, left>>
    BY <1>9 DEF Change
  <2>3. \A r \in Roles : changes[r] <= changes'[r]
    BY <2>1, Numbers
  <2>4. ASSUME NEW r \in Roles, Online(r)
        PROVE  /\ left[r] <= obj'[hyd_roles[r]].ver /\ obj'[hyd_roles[r]].ver <= changes'[r]
               /\ obj[hyd_roles[r]].ver <= obj'[hyd_roles[r]].ver
    <3>1. left[r] <= changes[r] /\ left[r] <= obj[hyd_roles[r]].ver /\ obj[hyd_roles[r]].ver <= changes[r]
      BY <2>4 DEF LatestInv, NothingAhead
    <3>2. left[r] \in Nat /\ changes[r] \in Nat /\ obj[hyd_roles[r]].ver \in Nat
      BY <2>4, OnMap, Numbers
    <3> QED
      BY <2>1, <2>4, <3>1, <3>2
  <2>5. \A r \in Roles : Recent(r)
    BY <2>2, <2>4 DEF Recent, Online
  <2>6. ASSUME NEW w \in Workers, proc[w].at \in {"leave", "store"}
        PROVE  obj[proc[w].object].ver <= obj'[proc[w].object].ver
    <3>1. proc[w].role \in Roles /\ hyd_roles[proc[w].role] = proc[w].object /\ proc[w].object # None
      BY <2>6, Numbers DEF Owned, HoldsOnline, Takes, Busy, ObjectsFit
    <3> QED
      BY <2>4, <3>1 DEF Online
  <2> QED
    BY <1>0, <1>3, <1>4, <2>2, <2>3, <2>5, <2>6, LatestKept DEF Grows
<1>10. ASSUME NEW r \in Roles, Elapse(r) PROVE LatestInv'
  <2>1. SameVers
    BY <1>10, ElapseEffect
  <2> QED
    BY <1>1, <1>2, <1>3, <1>4, <1>10, <2>1 DEF Elapse, history
<1>11. ASSUME NEW w \in Workers, Erase(w) PROVE LatestInv'
  <2>1. \A r \in Roles : hyd_roles'[r] \in {None, hyd_roles[r]}
    BY <1>11 DEF Erase, TypeOK
  <2>2. Ends(w)
    BY <1>11, FlushEffect DEF Erase, Returned, Busy, Ends
  <2> QED
    BY <1>5, <1>6, <1>11, <2>1, <2>2 DEF Erase, history
<1>12. ASSUME NEW w \in Workers, NEW r \in Roles, NEW o \in Objects, InHand(w, r, o), SameVers,
              UNCHANGED <<redis, hyd_roles, changes, left>>, NoneAhead(w),
              proc'[w].at \in {"leave", "store"}, proc'[w].role = r, proc'[w].object = o,
              proc'[w].ver = obj[o].ver, \A v \in Workers \ {w} : proc'[v] = proc[v]
       PROVE  LatestInv'
  <2>1. hyd_roles[r] = o /\ Online(r) /\ obj[o].ver \in Nat
    BY <1>12, HandIsIn, Numbers DEF InHand
  <2>2. proc[w].at # "leave" /\ proc[w].at # "getex"
    BY <1>12 DEF InHand, Busy
  <2>3. Writes(w)
    BY <1>12, <2>1, <2>2 DEF Writes, LatestInv, NothingAhead
  <2>4. \A v \in Workers \ {w} : Carries(v)
    BY <1>12 DEF Carries
  <2>5. Waiting
    BY <1>12, <2>2 DEF NoneAhead, StillFirst
  <2> QED
    BY <1>1, <1>2, <1>12, <2>3, <2>4, <2>5
<1>13. ASSUME NEW w \in Workers, NEW r \in Roles, NEW o \in Objects, LeaveStep(w, r, o) PROVE LatestInv'
  <2>1. /\ SameVers /\ proc'[w].at = "leave" /\ proc'[w].role = r /\ proc'[w].object = o
        /\ proc'[w].ver = obj[o].ver /\ \A v \in Workers \ {w} : proc'[v] = proc[v]
    BY <1>13, LeaveEffect
  <2> QED
    BY <1>12, <1>13, <2>1 DEF LeaveStep
<1>14. ASSUME NEW r \in Roles, NEW o \in Objects, NEW now, StoreStep(r, o, now) PROVE LatestInv'
  <2>1. /\ SameVers /\ proc'[Saver].at = "store" /\ proc'[Saver].role = r /\ proc'[Saver].object = o
        /\ proc'[Saver].ver = obj[o].ver /\ \A v \in Workers \ {Saver} : proc'[v] = proc[v]
    BY <1>14, StoreEffect
  <2> QED
    BY <1>12, <1>14, <2>1, SaverWorks DEF StoreStep
<1>15. ASSUME NEW r \in Roles, NEW o \in Objects, CheckStep(r, o) PROVE LatestInv'
  <2>1. UNCHANGED <<redis, hyd_roles, obj, ahead, changes, left>> /\ proc[Saver].at = "idle"
    BY <1>15 DEF CheckStep, Busy
  <2>2. /\ proc'[Saver].at = "check" /\ proc'[Saver].ver = None
        /\ \A v \in Workers \ {Saver} : proc'[v] = proc[v]
    BY <1>15, CheckEffect
  <2>3. Drops(Saver) /\ \A v \in Workers \ {Saver} : Carries(v)
    BY <2>1, <2>2 DEF Drops, Carries
  <2> QED
    BY <1>1, <1>2, <1>4, <1>5, <2>1, <2>3
<1>16. ASSUME Stored PROVE LatestInv'
  BY <1>2, <1>5, <1>6, <1>7, <1>16, PutsBackItself
<1>17. ASSUME PassStep PROVE LatestInv'
  BY <1>2, <1>5, <1>6, <1>7, <1>17, SaverWorks DEF PassStep
<1>18. ASSUME NEW w \in Workers, Flushed(w) PROVE LatestInv'
  BY <1>2, <1>5, <1>6, <1>7, <1>18 DEF Flushed, history
<1>19. ASSUME NEW w \in Workers, NEW r \in Roles, NEW a \in Agents, LoginLoad(w, r, a) PROVE LatestInv'
  <2>1. UNCHANGED <<redis, hyd_roles, obj, ahead, changes, left>> /\ proc[w].at = "idle"
    BY <1>19 DEF LoginLoad, Busy, history
  <2>2. /\ proc'[w].at = "getex" /\ proc'[w].ver = None
        /\ \A v \in Workers \ {w} : proc'[v] = proc[v]
    BY <1>19, LoginEffect
  <2>3. Drops(w) /\ \A v \in Workers \ {w} : Carries(v)
    BY <2>1, <2>2 DEF Drops, Carries
  <2> QED
    BY <1>1, <1>2, <1>4, <1>5, <2>1, <2>3
<1>20. ASSUME NEW w \in Workers, Receives(w), ~GetEx(w) \/ QueryFails(w), UNCHANGED <<redis, left>>
       PROVE  LatestInv'
  <2>1. /\ \A v \in Workers : SameTask(v) /\ proc'[v].ver = proc[v].ver
        /\ \A v \in Workers \ {w} : proc'[v] = proc[v] /\ ahead'[v] = ahead[v]
        /\ ~proc[w].executed /\ proc'[w].executed /\ UNCHANGED <<hyd_roles, obj, changes>>
    BY <1>20, ResultEffect
  <2>2. \A v \in Workers : Carries(v)
    BY <2>1 DEF SameTask, Carries
  <2>3. Waiting
    BY <2>1 DEF StillFirst
  <2> QED
    BY <1>1, <1>2, <1>5, <1>20, <2>1, <2>2, <2>3
<1>21. ASSUME NEW ok \in BOOLEAN, CheckRole(ok) PROVE LatestInv'
  <2>1. Receives(Saver) /\ ~GetEx(Saver) /\ UNCHANGED <<redis, left>>
    BY <1>21 DEF Receives, CheckRole, GetEx, Waits
  <2> QED
    BY <1>20, <2>1, SaverWorks
<1>22. ASSUME NEW w \in Workers, QueryFails(w) PROVE LatestInv'
  <2>1. Receives(w) /\ UNCHANGED <<redis, left>>
    BY <1>22 DEF Receives, QueryFails
  <2> QED
    BY <1>20, <1>22, <2>1
<1>23. QuietStep => LatestInv'
  BY <1>1, <1>2, <1>3, <1>4, <1>5 DEF QuietStep
<1> HIDE DEF SameVers, Waiting
<1> QED
  BY <1>0, <1>8, <1>9, <1>10, <1>11, <1>13, <1>14, <1>15, <1>16, <1>17, <1>18, <1>19, <1>21, <1>22, <1>23,
     LatestHydrated, LatestRead, LatestWritten, StepKinds, SaverWorks

LEMMA LatestAlways == NoOverlap /\ InOrder => (Spec => [](Inv /\ LatestInv))
<1> SUFFICES ASSUME NoOverlap, InOrder PROVE Spec => [](Inv /\ LatestInv)
  OBVIOUS
<1>1. Init => LatestInv
  BY IdleType DEF Init, Unborn, LatestInv, NothingAhead, WritesLatest, ReadsLatest, Online, Waits
<1>2. Inv /\ LatestInv /\ [Next]_vars => LatestInv'
  BY LatestStep DEF Inv, Owned
<1>3. Spec => []Inv
  BY InvAlways
<1> QED
  BY <1>1, <1>2, <1>3, PTL DEF Spec

\* Without overlap, and if fibers resume in the order of their results, a role comes
\* online with at least what its last logout wrote, queries that fail included: a
\* login never works on a record that an earlier logout has replaced.
THEOREM LoginsGetLatest == NoOverlap /\ InOrder => (Spec => HydratesLatest)
<1> SUFFICES ASSUME NoOverlap, InOrder PROVE Spec => HydratesLatest
  OBVIOUS
<1> DEFINE Latest ==
      \A w \in Workers : Hydrate(w) => \A r \in Roles :
        ~Online(r) /\ hyd_roles'[r] # None => obj'[hyd_roles'[r]].ver >= left[r]
<1>1. Inv /\ LatestInv => Latest
  <2> SUFFICES ASSUME Inv, LatestInv, NEW w \in Workers, Hydrate(w), NEW r \in Roles,
                      ~Online(r), hyd_roles'[r] # None
               PROVE  obj'[hyd_roles'[r]].ver >= left[r]
    OBVIOUS
  <2>0. TypeOK /\ ObjectsFit /\ Owned
    BY DEF Inv, Owned
  <2>1. PICK o \in Objects : ComesOnline(w, o)
    BY <2>0, HydrateKinds DEF Online
  <2>2. CameOnline(proc[w].role, o, proc[w].ver) /\ proc[w].role \in Roles
    BY <2>0, <2>1, OnlineEffect
  <2>3. r = proc[w].role
    BY <2>2 DEF CameOnline, Online
  <2>4. left[r] <= proc[w].ver /\ proc[w].ver \in Nat
    BY <2>0, <2>1, <2>3, HydratedRecent, Numbers DEF ComesOnline
  <2>5. obj'[hyd_roles'[r]].ver = proc[w].ver /\ left[r] \in Nat
    BY <2>0, <2>2, <2>3, Numbers DEF CameOnline
  <2> QED
    BY <2>4, <2>5
<1>2. HydratesLatest <=> [][Latest]_vars
  BY DEF HydratesLatest
<1>3. Spec => [](Inv /\ LatestInv)
  BY LatestAlways
<1> HIDE DEF Latest
<1> QED
  BY <1>1, <1>2, <1>3, PTL DEF Spec
=============================================================================
