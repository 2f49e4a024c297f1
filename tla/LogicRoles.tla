------------------------------ MODULE LogicRoles ------------------------------
(***************************************************************************)
(* The roles that are online on one logic server                           *)
(* (logic/static/role_service.cpp): the map `hyd_roles`, the Role objects  *)
(* in it and in the hands of fibers, and the handlers and the save timer   *)
(* that hydrate roles from Redis, write them back and log them out.  A     *)
(* fiber keeps the object it looked up while it waits for Redis or for an  *)
(* agent; other fibers run in between and look up the same role again.     *)
(***************************************************************************)
EXTENDS Naturals

CONSTANTS
  Roles,       \* role IDs
  Objects,     \* Role objects (a bound: how many can be alive at once)
  Agents,      \* agent processes
  Logins,      \* fibers that run *role/login (a bound)
  Logouts,     \* fibers that run *role/logout (a bound)
  Saver,       \* the fiber of the save timer
  Acts,        \* what happens in this instance
  MaxVersion,  \* how often a role changes (a bound)
  InOrder,     \* fibers resume in the order their results came in
  None         \* nil

Workers == Logins \cup Logouts \cup {Saver}
Versions == 0..MaxVersion

ASSUME LogicAssumption ==
  /\ MaxVersion \in Nat /\ InOrder \in BOOLEAN
  /\ Saver \notin Logins \cup Logouts /\ Logins \cap Logouts = {}
  /\ None \notin Roles \cup Objects \cup Agents \cup Versions
  /\ Acts \subseteq {"logout", "disconnect", "save", "agent_down", "query_error", "overlap"}

VARIABLES
  redis,      \* roles: the version on Redis
  loaded,     \* roles: is the record there, or has it expired or been unloaded
  hyd_roles,  \* roles: the object that is online, or None
  obj,        \* objects: the role, the life of it, the agent, and the data
  bucket,     \* roles the save timer has arranged and not visited yet
  proc,       \* workers: what a fiber waits for, and what it has in hand
  ahead,      \* workers: the fibers that are to resume before this one
  up,         \* the agents that are running
  changes,    \* history, roles: the version it changed to last
  left        \* history, roles: the version that was written by its last logout

vars == <<redis, loaded, hyd_roles, obj, bucket, proc, ahead, up, changes, left>>
history == <<changes, left>>

\* `idle`: disconnected for disconnect_to_logout_duration.
RoleObjects == [role : Roles \cup {None}, phase : {"none", "in", "out"},
                agent : Agents \cup {None}, idle : BOOLEAN, ver : Versions]
Calls == [at : {"idle", "getex", "leave", "check", "store", "flush"}, role : Roles \cup {None},
          object : Objects \cup {None}, agent : Agents \cup {None}, executed : BOOLEAN,
          ver : Versions \cup {None}, ok : BOOLEAN]

Idle == [at |-> "idle", role |-> None, object |-> None, agent |-> None,
         executed |-> FALSE, ver |-> None, ok |-> FALSE]
Unborn == [role |-> None, phase |-> "none", agent |-> None, idle |-> FALSE, ver |-> 0]

Init ==
  /\ redis = [r \in Roles |-> 0]
  /\ loaded = [r \in Roles |-> FALSE]
  /\ hyd_roles = [r \in Roles |-> None]
  /\ obj = [o \in Objects |-> Unborn]
  /\ bucket = {}
  /\ proc = [w \in Workers |-> Idle]
  /\ ahead = [w \in Workers |-> {}]
  /\ up = Agents
  /\ changes = [r \in Roles |-> 0]
  /\ left = [r \in Roles |-> 0]

Busy(w) == proc[w].at # "idle"
Waits(w, at) == proc[w].at = at /\ ~proc[w].executed
Returned(w, at) == proc[w].at = at /\ proc[w].executed /\ ahead[w] = {}
Online(r) == hyd_roles[r] # None

\* An object that nothing points to any more is gone, and another may be made.
Free(o) == /\ \A r \in Roles : hyd_roles[r] # o
           /\ \A w \in Workers : proc[w].object # o

\* In an instance without "overlap", one fiber at a time has a role in hand to
\* check it, to write it or to log it out.
Takes(w) == proc[w].at \in {"leave", "check", "store"}
MayTake(r) == "overlap" \in Acts \/ \A w \in Workers : Takes(w) => proc[w].role # r

Go(w) == ahead' = [v \in Workers |-> ahead[v] \ {w}]
Finish(w) == proc' = [proc EXCEPT ![w] = Idle] /\ Go(w)

\* mf_agent_srv is set; mf_dc_since, with it or not, begins anew.
Connect(o, a) == [o EXCEPT !.agent = a, !.idle = FALSE]
-----------------------------------------------------------------------------
\* do_star_role_login of a role that is online already: no event but on_connect.
LoginOnline(r, a) ==
  /\ a \in up
  /\ Online(r)
  /\ obj' = [obj EXCEPT ![hyd_roles[r]] = Connect(@, a)]
  /\ UNCHANGED <<redis, loaded, hyd_roles, bucket, proc, ahead, up, history>>

\* do_star_role_login, up to the GETEX.
LoginLoad(w, r, a) ==
  /\ a \in up
  /\ ~Busy(w)
  /\ ~Online(r)
  /\ proc' = [proc EXCEPT ![w] = [Idle EXCEPT !.at = "getex", !.role = r, !.agent = a]]
  /\ UNCHANGED <<redis, loaded, hyd_roles, obj, bucket, ahead, up, history>>

\* Fault: insert_or_assign instead of try_emplace.
HydrateReplaces(w) ==
  LET r == proc[w].role
  IN  /\ Returned(w, "getex")
      /\ Finish(w)
      /\ IF proc[w].ver = None THEN UNCHANGED <<hyd_roles, obj>>
         ELSE \E o \in Objects :
                /\ Free(o)
                /\ hyd_roles' = [hyd_roles EXCEPT ![r] = o]
                /\ obj' = [obj EXCEPT ![o] = [role |-> r, phase |-> "in", agent |-> proc[w].agent,
                                              idle |-> FALSE, ver |-> proc[w].ver]]
      /\ UNCHANGED <<redis, loaded, bucket, up, history>>

\* Fault: no test for nil.
HydrateNil(w) ==
  LET r == proc[w].role
  IN  /\ Returned(w, "getex")
      /\ Finish(w)
      /\ IF Online(r) THEN UNCHANGED <<hyd_roles, obj>>
         ELSE \E o \in Objects :
                /\ Free(o)
                /\ hyd_roles' = [hyd_roles EXCEPT ![r] = o]
                /\ obj' = [obj EXCEPT ![o] = [role |-> r, phase |-> "in", agent |-> proc[w].agent,
                                              idle |-> FALSE, ver |-> proc[w].ver]]
      /\ UNCHANGED <<redis, loaded, bucket, up, history>>

\* do_star_role_login, with the record: gs_role_not_loaded; or a new object is
\* put into the map and logged in; or there is one by now, and it is used.
Hydrate(w) ==
  LET r == proc[w].role
  IN  /\ Returned(w, "getex")
      /\ Finish(w)
      /\ IF proc[w].ver = None THEN UNCHANGED <<hyd_roles, obj>>
         ELSE IF Online(r)
           THEN /\ obj' = [obj EXCEPT ![hyd_roles[r]] = Connect(@, proc[w].agent)]
                /\ UNCHANGED hyd_roles
           ELSE \E o \in Objects :
                /\ Free(o)
                /\ hyd_roles' = [hyd_roles EXCEPT ![r] = o]
                /\ obj' = [obj EXCEPT ![o] = [role |-> r, phase |-> "in", agent |-> proc[w].agent,
                                              idle |-> FALSE, ver |-> proc[w].ver]]
      /\ UNCHANGED <<redis, loaded, bucket, up, history>>

\* on_logout, and the SET of what the role is at this moment.
Leave(w, r, o) ==
  /\ obj' = [obj EXCEPT ![o] = [@ EXCEPT !.agent = None, !.phase = "out"]]
  /\ proc' = [proc EXCEPT ![w] = [Idle EXCEPT !.at = "leave", !.role = r, !.object = o,
                                              !.ver = obj[o].ver]]

\* Fault: the role is erased before it is written.
LogoutErasesFirst(w, r) ==
  /\ "logout" \in Acts
  /\ ~Busy(w)
  /\ Online(r)
  /\ MayTake(r)
  /\ Leave(w, r, hyd_roles[r])
  /\ hyd_roles' = [hyd_roles EXCEPT ![r] = None]
  /\ UNCHANGED <<redis, loaded, bucket, ahead, up, history>>

\* do_star_role_logout, up to the SET.
Logout(w, r) ==
  /\ "logout" \in Acts
  /\ ~Busy(w)
  /\ Online(r)
  /\ MayTake(r)
  /\ Leave(w, r, hyd_roles[r])
  /\ UNCHANGED <<redis, loaded, hyd_roles, bucket, ahead, up, history>>

\* do_flush_role_to_mysql: the monitor is told to write the role (*role/flush).
AskToFlush(w) ==
  /\ proc' = [proc EXCEPT ![w] = [Idle EXCEPT !.at = "flush", !.role = proc[w].role]]
  /\ Go(w)

\* Fault: a role that was connected meanwhile is not erased.
EraseDisconnected(w) ==
  LET r == proc[w].role
  IN  /\ Returned(w, "leave")
      /\ hyd_roles' = [hyd_roles EXCEPT ![r] =
                         IF Online(r) /\ obj[@].agent # None THEN @ ELSE None]
      /\ AskToFlush(w)
      /\ UNCHANGED <<redis, loaded, obj, bucket, up, history>>

\* do_star_role_logout, and the save timer: the role is erased, whichever object it
\* is by now, and although its SET may have failed, for that is not looked at.
Erase(w) ==
  /\ Returned(w, "leave")
  /\ hyd_roles' = [hyd_roles EXCEPT ![proc[w].role] = None]
  /\ AskToFlush(w)
  /\ UNCHANGED <<redis, loaded, obj, bucket, up, history>>

\* The monitor has answered, or cannot be reached: that is not looked at, either.
Flushed(w) ==
  /\ proc[w].at = "flush"
  /\ Finish(w)
  /\ UNCHANGED <<redis, loaded, hyd_roles, obj, bucket, up, history>>

Reconnect(r, a) ==
  /\ a \in up
  /\ Online(r)
  /\ obj' = [obj EXCEPT ![hyd_roles[r]] = Connect(@, a)]
  /\ UNCHANGED <<redis, loaded, hyd_roles, bucket, proc, ahead, up, history>>

Disconnect(r) ==
  /\ "disconnect" \in Acts
  /\ Online(r)
  /\ obj' = [obj EXCEPT ![hyd_roles[r]] = Connect(@, None)]
  /\ UNCHANGED <<redis, loaded, hyd_roles, bucket, proc, ahead, up, history>>

\* Roles that are online become something else.
Change(rs) ==
  /\ rs # {} /\ \A r \in rs : Online(r) /\ changes[r] < MaxVersion
  /\ changes' = [r \in Roles |-> IF r \in rs THEN changes[r] + 1 ELSE changes[r]]
  /\ obj' = [o \in Objects |-> IF \E r \in rs : hyd_roles[r] = o
                               THEN [obj[o] EXCEPT !.ver = changes'[obj[o].role]] ELSE obj[o]]
  /\ UNCHANGED <<redis, loaded, hyd_roles, bucket, proc, ahead, up, left>>

\* The handler of an opcode, and Role::on_every_second of all objects on the map,
\* those that are being logged out not excepted.
OnClientRequest(r) == Change({r})
EverySecond == \E rs \in SUBSET Roles : Change(rs)
-----------------------------------------------------------------------------
\* The save timer, do_save_timer_callback.
Arrange ==
  /\ "save" \in Acts /\ ~Busy(Saver) /\ bucket = {}
  /\ bucket' = {r \in Roles : Online(r)}
  /\ UNCHANGED <<redis, loaded, hyd_roles, obj, proc, ahead, up, history>>

\* Fault: a role that is disconnected is logged out at once.
StoreOrLeaveAtOnce(r, o, now) ==
  IF now.agent = None
    THEN Leave(Saver, r, o)
    ELSE /\ obj' = [obj EXCEPT ![o] = now]
         /\ proc' = [proc EXCEPT ![Saver] = [Idle EXCEPT !.at = "store", !.role = r,
                                               !.object = o, !.ver = now.ver]]

\* The role is written: for the last time, if it has been disconnected too long.
StoreOrLeave(r, o, now) ==
  IF now.agent = None /\ now.idle
    THEN Leave(Saver, r, o)
    ELSE /\ obj' = [obj EXCEPT ![o] = now]
         /\ proc' = [proc EXCEPT ![Saver] = [Idle EXCEPT !.at = "store", !.role = r,
                                               !.object = o, !.ver = now.ver]]

\* Fault: a role that is disconnected is passed over.
VisitConnected(r) ==
  LET o == hyd_roles[r]
  IN  /\ ~Busy(Saver) /\ r \in bucket /\ MayTake(r)
      /\ bucket' = bucket \ {r}
      /\ IF ~Online(r) \/ obj[o].agent = None THEN UNCHANGED proc
         ELSE proc' = [proc EXCEPT ![Saver] = [Idle EXCEPT !.at = "check", !.role = r,
                                                 !.object = o, !.agent = obj[o].agent]]
      /\ UNCHANGED <<redis, loaded, hyd_roles, obj, ahead, up, history>>

\* A role that is not online any more is passed over; a connected one is asked
\* for at its agent (*user/check_role), any other one is written at once.
Visit(r) ==
  LET o == hyd_roles[r]
  IN  /\ ~Busy(Saver) /\ r \in bucket /\ MayTake(r)
      /\ bucket' = bucket \ {r}
      /\ IF ~Online(r) THEN UNCHANGED <<obj, proc>>
         ELSE IF obj[o].agent # None
           THEN /\ proc' = [proc EXCEPT ![Saver] = [Idle EXCEPT !.at = "check", !.role = r,
                                                      !.object = o, !.agent = obj[o].agent]]
                /\ UNCHANGED obj
           ELSE StoreOrLeave(r, o, obj[o])
      /\ UNCHANGED <<redis, loaded, hyd_roles, ahead, up, history>>

\* Fault: an answer that the role is not there is ignored.
CheckedIgnored ==
  LET r == proc[Saver].role  o == proc[Saver].object
  IN  /\ Returned(Saver, "check")
      /\ Go(Saver)
      /\ IF ~Online(r)
           THEN proc' = [proc EXCEPT ![Saver] = Idle] /\ UNCHANGED obj
           ELSE StoreOrLeave(r, o, obj[o])
      /\ UNCHANGED <<redis, loaded, hyd_roles, bucket, up, history>>

\* With the answer.  Is the role still online, as whatever object?  If its agent
\* does not know it, the object that was looked up is disconnected: as of the tick,
\* so that Elapse may come right after this, but it is not logged out in this tick.
Checked ==
  LET r == proc[Saver].role  o == proc[Saver].object
  IN  /\ Returned(Saver, "check")
      /\ Go(Saver)
      /\ IF ~Online(r)
           THEN proc' = [proc EXCEPT ![Saver] = Idle] /\ UNCHANGED obj
           ELSE StoreOrLeave(r, o, IF proc[Saver].ok THEN obj[o] ELSE Connect(obj[o], None))
      /\ UNCHANGED <<redis, loaded, hyd_roles, bucket, up, history>>

\* Written: the copy goes back to the map if the role is still online.
Stored ==
  LET r == proc[Saver].role
  IN  /\ Returned(Saver, "store")
      /\ hyd_roles' = [hyd_roles EXCEPT ![r] = IF @ = None THEN None ELSE proc[Saver].object]
      /\ Finish(Saver)
      /\ UNCHANGED <<redis, loaded, obj, bucket, up, history>>
-----------------------------------------------------------------------------
\* Redis and the agents.
Executed(w, result) ==
  /\ proc' = [proc EXCEPT ![w] = result]
  /\ ahead' = [ahead EXCEPT ![w] = IF InOrder THEN {v \in Workers : proc[v].executed} ELSE {}]
  /\ UNCHANGED <<hyd_roles, obj, bucket, up, changes>>

GetEx(w) ==
  LET r == proc[w].role
  IN  /\ Waits(w, "getex")
      /\ Executed(w, [proc[w] EXCEPT !.executed = TRUE, !.ver = IF loaded[r] THEN redis[r] ELSE None])
      /\ UNCHANGED <<redis, loaded, left>>

Set(w) ==
  LET r == proc[w].role
  IN  /\ Waits(w, "store") \/ Waits(w, "leave")
      /\ redis' = [redis EXCEPT ![r] = proc[w].ver]
      /\ loaded' = [loaded EXCEPT ![r] = TRUE]
      /\ left' = IF proc[w].at = "leave" THEN [left EXCEPT ![r] = proc[w].ver] ELSE left
      /\ Executed(w, [proc[w] EXCEPT !.executed = TRUE, !.ok = TRUE])

\* A query fails.  A login throws; after a SET the fiber goes on as if it were done.
QueryFails(w) ==
  /\ "query_error" \in Acts
  /\ Waits(w, "getex") \/ Waits(w, "store") \/ Waits(w, "leave")
  /\ Executed(w, [proc[w] EXCEPT !.executed = TRUE])
  /\ UNCHANGED <<redis, loaded, left>>

\* Only an agent that is running can say gs_ok.
CheckRole(ok) ==
  /\ Waits(Saver, "check")
  /\ ok => proc[Saver].agent \in up
  /\ Executed(Saver, [proc[Saver] EXCEPT !.executed = TRUE, !.ok = ok])
  /\ UNCHANGED <<redis, loaded, left>>

\* The monitor loads what was written last; a record nobody renews is unloaded
\* or expires.
Load(r) ==
  /\ ~loaded[r]
  /\ loaded' = [loaded EXCEPT ![r] = TRUE]
  /\ UNCHANGED <<redis, hyd_roles, obj, bucket, proc, ahead, up, history>>
Unload(r) ==
  /\ loaded[r] /\ ~Online(r)
  /\ loaded' = [loaded EXCEPT ![r] = FALSE]
  /\ UNCHANGED <<redis, hyd_roles, obj, bucket, proc, ahead, up, history>>

AgentDown(a) ==
  /\ "agent_down" \in Acts
  /\ a \in up
  /\ up' = up \ {a}
  /\ UNCHANGED <<redis, loaded, hyd_roles, obj, bucket, proc, ahead, history>>

\* disconnect_to_logout_duration has passed since mf_dc_since.
Elapse(r) ==
  /\ Online(r) /\ obj[hyd_roles[r]].agent = None /\ ~obj[hyd_roles[r]].idle
  /\ obj' = [obj EXCEPT ![hyd_roles[r]] = [@ EXCEPT !.idle = TRUE]]
  /\ UNCHANGED <<redis, loaded, hyd_roles, bucket, proc, ahead, up, history>>
-----------------------------------------------------------------------------
Handlers ==
  \E r \in Roles :
    \/ \E a \in Agents : \/ LoginOnline(r, a) \/ Reconnect(r, a)
                         \/ \E w \in Logins : LoginLoad(w, r, a)
    \/ (\E w \in Logouts : Logout(w, r)) \/ Disconnect(r) \/ OnClientRequest(r)
Timer == Arrange \/ (\E r \in Roles : Visit(r)) \/ Checked \/ Stored \/ EverySecond
Resume(w) == Hydrate(w) \/ Erase(w) \/ Flushed(w)
Answer(w) == GetEx(w) \/ Set(w)
World == \/ \E r \in Roles : Load(r) \/ Unload(r) \/ Elapse(r)
         \/ \E a \in Agents : AgentDown(a)
         \/ \E ok \in BOOLEAN : CheckRole(ok)
         \/ \E w \in Workers : QueryFails(w)

Next == Handlers \/ Timer \/ (\E w \in Workers : Resume(w) \/ Answer(w)) \/ World

Spec == Init /\ [][Next]_vars

\* Queries and requests are answered, fibers that have their result resume, the
\* save timer goes on and time passes.
Fairness ==
  /\ \A w \in Workers : WF_vars(Resume(w)) /\ WF_vars(Answer(w))
  /\ \A r \in Roles : WF_vars(Visit(r)) /\ WF_vars(Elapse(r))
  /\ WF_vars(Arrange) /\ WF_vars(Checked) /\ WF_vars(Stored)
  /\ WF_vars(\E ok \in BOOLEAN : CheckRole(ok))

FairSpec == Spec /\ Fairness
-----------------------------------------------------------------------------
TypeOK ==
  /\ redis \in [Roles -> Versions]
  /\ loaded \in [Roles -> BOOLEAN]
  /\ hyd_roles \in [Roles -> Objects \cup {None}]
  /\ obj \in [Objects -> RoleObjects]
  /\ bucket \subseteq Roles
  /\ proc \in [Workers -> Calls]
  /\ ahead \in [Workers -> SUBSET Workers]
  /\ up \subseteq Agents
  /\ changes \in [Roles -> Versions]
  /\ left \in [Roles -> Versions]

\* A role that has logged in is found by every later request, until it is logged
\* out: no second object of it is logged in behind its back, and no late write or
\* logout of an earlier object takes its place.
InIsOnline == \A o \in Objects : obj[o].phase = "in" => hyd_roles[obj[o].role] = o

\* A role that is being logged out has a fiber that is going to erase it.
OutIsLeaving ==
  \A r \in Roles : Online(r) /\ obj[hyd_roles[r]].phase = "out" =>
    \E w \in Workers : proc[w].at = "leave" /\ proc[w].role = r

\* An object is put on the map at its own login, and never again: what was logged
\* out stays out.
ComesOnlineOnce ==
  [][\A r \in Roles, o \in Objects :
       hyd_roles[r] # o /\ hyd_roles'[r] = o => obj'[o].phase = "in"]_vars

\* A role is hydrated with at least what its last logout wrote.
HydratesLatest ==
  [][\A w \in Workers : Hydrate(w) => \A r \in Roles :
       ~Online(r) /\ hyd_roles'[r] # None => obj'[hyd_roles'[r]].ver >= left[r]]_vars

\* An object on the map, or in the hands of a fiber, is one of the role it is there
\* for; a fiber that writes has something to write, and one that logs in an agent.
ObjectsFit ==
  /\ \A o \in Objects : obj[o].phase # "none" => obj[o].role \in Roles
  /\ \A r \in Roles : Online(r) => obj[hyd_roles[r]].role = r /\ obj[hyd_roles[r]].phase # "none"
  /\ \A w \in Workers :
       /\ Busy(w) => proc[w].role \in Roles
       /\ proc[w].object # None <=> Takes(w)
       /\ Takes(w) => obj[proc[w].object].role = proc[w].role /\ obj[proc[w].object].phase # "none"
       /\ proc[w].at \in {"leave", "store"} => proc[w].ver \in Versions
       /\ proc[w].at = "getex" => proc[w].agent \in Agents

\* One fiber at a time has a role in hand, and the object it has is the one online.
OneTaker ==
  \A v, w \in Workers : Takes(v) /\ Takes(w) /\ proc[v].role = proc[w].role => v = w
HoldsOnline ==
  \A w \in Workers : Takes(w) =>
    /\ hyd_roles[proc[w].role] = proc[w].object
    /\ obj[proc[w].object].phase = "out" <=> proc[w].at = "leave"

\* The inductive invariant without "overlap".
Inv == TypeOK /\ ObjectsFit /\ OneTaker /\ HoldsOnline /\ InIsOnline /\ OutIsLeaving

\* Versions are what a role has been, and only logins go back to an earlier one.
NothingAhead ==
  \A r \in Roles :
    /\ left[r] <= changes[r] /\ redis[r] <= changes[r]
    /\ Online(r) => left[r] <= obj[hyd_roles[r]].ver /\ obj[hyd_roles[r]].ver <= changes[r]
    /\ \A w \in Workers : proc[w].role = r /\ proc[w].ver # None => proc[w].ver <= changes[r]

\* What is on Redis, or is going there, is at least what the last logout wrote; ...
WritesLatest ==
  /\ \A w \in Workers : proc[w].at \in {"leave", "store"} =>
       left[proc[w].role] <= proc[w].ver /\ proc[w].ver <= obj[proc[w].object].ver
  /\ \A r \in Roles : left[r] <= redis[r]

\* ... so is what a login has read, or it resumes before the role is erased.
ReadsLatest ==
  \A v \in Workers :
    proc[v].at = "getex" /\ proc[v].ver # None =>
      /\ proc[v].executed
      /\ proc[v].ver < left[proc[v].role] =>
           \E w \in Workers : /\ proc[w].at = "leave" /\ proc[w].role = proc[v].role
                              /\ proc[w].executed /\ v \in ahead[w]

\* The inductive invariant behind HydratesLatest, on top of Inv, if fibers resume in order.
LatestInv == NothingAhead /\ WritesLatest /\ ReadsLatest

\* What happens to a role before it is logged out is written to Redis, or followed
\* by something newer that is, if queries do not fail for ever: only a logout whose own
\* SET fails loses it.
LeavesUnwritten(w, r) == Returned(w, "leave") /\ proc[w].role = r /\ ~proc[w].ok
ChangesReachRedis ==
  <>[][\A w \in Workers : ~QueryFails(w)]_vars =>
    \A r \in Roles, v \in Versions :
      Online(r) /\ obj[hyd_roles[r]].phase = "in" /\ obj[hyd_roles[r]].ver = v ~>
        redis[r] >= v \/ \E w \in Workers : LeavesUnwritten(w, r)

\* A role whose client or agent is gone does not stay online for ever, unless it
\* is told to disconnect over and over again.
OrphansLeave ==
  <>[][\A r \in Roles : ~Disconnect(r)]_vars =>
    \A r \in Roles : []<>(~Online(r) \/ obj[hyd_roles[r]].agent \in up)

\* A logic server does what agents are promised: see OnlineRoles.
LoggedIn(r) == Online(r) /\ obj[hyd_roles[r]].phase = "in"
LoggingOut(ws, r) == Online(r) /\ \E w \in ws : proc[w].at = "leave" /\ proc[w].role = r
Phases == [r \in Roles |-> IF LoggedIn(r) THEN "in"
                           ELSE IF LoggingOut(Logouts, r) THEN "asked"
                           ELSE IF LoggingOut({Saver}, r) THEN "silent" ELSE "out"]
Connected == [r \in Roles |-> IF LoggedIn(r) THEN obj[hyd_roles[r]].agent ELSE None]
Lapsed == {r \in Roles : LoggedIn(r) /\ obj[hyd_roles[r]].idle}
Promise == INSTANCE OnlineRoles WITH phase <- Phases, agent <- Connected, idle <- Lapsed
ImplementsOnlineRoles == Promise!Spec
=============================================================================
